-------------------------- MODULE AgentStoreProofs --------------------------
(***************************************************************************)
(* Proofs about AgentStore, for any requests, agents, configurations and   *)
(* inputs: types, the file against the database, memory against the        *)
(* database, the refinement of AgentDocs, and what survives.               *)
(***************************************************************************)
EXTENDS AgentStore, TLAPS

-----------------------------------------------------------------------------
(* The inductive invariant.                                                *)

\* The exiting thread has the lock from the beginning of the exit to its end;
\* nobody is under way in a process that is down.
ProcessInv ==
  /\ proc = "exiting" <=> dbLock = Exiter
  /\ proc = "down" => \A r \in Requests : pc[r] \in {"idle", "done", "lost"}

\* A handler has its input from the start, its answer at the end, and an
\* agent it has looked up only between the two halves of a PUT.
HandlerInv ==
  \A r \in Requests :
    /\ input[r] = NoInput <=> pc[r] = "idle"
    /\ answer[r] # "none" => pc[r] = "done"
    /\ held[r] # NoObject <=> pc[r] = "change" /\ input[r].kind = "put"

\* o was made for agent i, by a POST or by a restart.
MadeFor(o, i) ==
  \/ o \in AgentIds /\ o = i
  \/ o \in Requests /\ pc[o] \notin {"idle", "memory"} /\ Id(o) = i

ObjectInv ==
  /\ \A i \in AgentIds : agents[i] # NoObject => MadeFor(agents[i], i)
  /\ \A r \in Requests : held[r] # NoObject => MadeFor(held[r], Id(r))

\* A save throws or is under way, or the file is what it should be.
FileInv ==
  /\ \A r \in Requests : pc[r] = "write" => ~SaveThrows /\ file = "torn"
  /\ proc = "exiting" /\ ~SaveThrows => file = "torn"
  /\ proc = "up" /\ ~SaveThrows /\ (\A r \in Requests : pc[r] # "save") => Stored = docs

\* What the handler that saves has changed, and nothing else.
SaveInv ==
  \A r \in Requests : pc[r] \in {"save", "write"} =>
    IF input[r].kind = "delete" THEN docs = NoDocs
    ELSE /\ docs[Id(r)] = input[r].config /\ input[r].config \in Configs
         /\ pc[r] = "save" /\ ~SaveThrows =>
              Stored[Id(r)] = NoDoc /\ docs = [Stored EXCEPT ![Id(r)] = input[r].config]

\* r is to blame that memory and database differ about i.
Culprit(r, i) ==
  \/ input[r].kind = "delete" /\ answer[r] # "404" /\ pc[r] \notin {"idle", "memory", "change"}
  \/ pc[r] # "idle" /\ Id(r) = i /\ (pc[r] \in {"persist", "locked"} \/ answer[r] = "400")

\* Without a document of i, whoever is about to store one has the last word in
\* memory, or somebody else is to blame.
OtherCulprit(r) == \E q \in Requests \ {r} : Culprit(q, Id(r))

WriterInv ==
  \A r \in Requests :
    /\ pc[r] \in {"persist", "locked"} /\ input[r].kind # "delete" /\ docs[Id(r)] = NoDoc =>
         Shown(Id(r)) = input[r].config \/ OtherCulprit(r)
    /\ held[r] # NoObject /\ docs[Id(r)] = NoDoc =>
         held[r] = agents[Id(r)] \/ OtherCulprit(r)

MemoryInv ==
  Running => \A i \in AgentIds : Shown(i) # docs[i] => \E r \in Requests : Culprit(r, i)

IInv ==
  /\ TypeOK /\ ProcessInv /\ HandlerInv /\ ObjectInv
  /\ FileInv /\ SaveInv /\ WriterInv /\ MemoryInv

-----------------------------------------------------------------------------
\* A request that has come in is one of the inputs.
LEMMA InputTypes ==
  ASSUME TypeOK, HandlerInv, NEW r \in Requests, pc[r] # "idle"
  PROVE  /\ input[r] \in AllInputs
         /\ Id(r) \in AgentIds
         /\ input[r].config \in Configs \cup {NotObject}
         /\ input[r].kind \in Kinds
BY InputAssumption DEF TypeOK, HandlerInv, AllInputs, Id

\* Initially all is as it should be: nothing is stored and nobody is at work.
LEMMA InitIInv == Init => IInv
<1> SUFFICES ASSUME Init PROVE IInv
  OBVIOUS
<1> USE NullAssumption, ThreadAssumption DEF Init
<1>1. TypeOK
  BY DEF TypeOK, NoDocs, HandlerStates
<1>2. ProcessInv /\ HandlerInv /\ ObjectInv /\ SaveInv /\ WriterInv
  BY DEF ProcessInv, HandlerInv, ObjectInv, SaveInv, WriterInv
<1>3. FileInv
  BY DEF FileInv, Stored, BeingWritten, NoDocs
<1>4. MemoryInv
  BY DEF MemoryInv, Shown, NoDocs
<1> QED BY <1>1, <1>2, <1>3, <1>4 DEF IInv

\* Every step keeps the types.
LEMMA TypeStep == TypeOK /\ HandlerInv /\ [Next]_vars => TypeOK'
<1> SUFFICES ASSUME TypeOK, HandlerInv, [Next]_vars
             PROVE  TypeOK'
  OBVIOUS
<1> USE NullAssumption, ThreadAssumption DEF TypeOK, HandlerStates, Objects, Goto, Answer, NoDocs,
        handlerVars, memoryVars, dbVars, fileVars
<1>1. ASSUME NEW r \in Requests, Arrive(r)
      PROVE  TypeOK'
  BY <1>1 DEF Arrive
<1>2. ASSUME NEW r \in Requests, AddAgent(r)
      PROVE  TypeOK'
  BY <1>2, InputTypes DEF AddAgent, At
<1>3. ASSUME NEW r \in Requests, FindToUpdate(r) \/ FindToDelete(r)
      PROVE  TypeOK'
  BY <1>3, InputTypes DEF FindToUpdate, FindToDelete, At
<1>4. ASSUME NEW r \in Requests, UpdateConfig(r)
      PROVE  TypeOK'
  BY <1>4, InputTypes DEF UpdateConfig, At
<1>5. ASSUME NEW r \in Requests, RemoveAgent(r)
      PROVE  TypeOK'
  BY <1>5, InputTypes DEF RemoveAgent, At
<1>6. ASSUME NEW r \in Requests, LockDatabase(r)
      PROVE  TypeOK'
  BY <1>6 DEF LockDatabase
<1>7. ASSUME NEW r \in Requests, RefuseDocument(r)
      PROVE  TypeOK'
  BY <1>7 DEF RefuseDocument
<1>8. ASSUME NEW r \in Requests, InsertDocument(r)
      PROVE  TypeOK'
  <2>1. docs' \in [AgentIds -> Configs \cup {NoDoc}]
    BY <1>8, InputTypes DEF InsertDocument
  <2> QED BY <1>8, <2>1 DEF InsertDocument
<1>9. ASSUME NEW r \in Requests, DeleteDocuments(r)
      PROVE  TypeOK'
  BY <1>9 DEF DeleteDocuments, At
<1>10. ASSUME NEW r \in Requests, FailToSave(r)
       PROVE  TypeOK'
  BY <1>10 DEF FailToSave, Success
<1>11. ASSUME NEW r \in Requests, Truncate(r)
       PROVE  TypeOK'
  BY <1>11 DEF Truncate
<1>12. ASSUME NEW r \in Requests, Write(r)
       PROVE  TypeOK'
  BY <1>12 DEF Write, Success
<1>13. ASSUME Die, file' \in {"absent", "torn", "whole"}, saved' \in [AgentIds -> Configs \cup {NoDoc}]
       PROVE  TypeOK'
  BY <1>13 DEF Die
<1>14. CASE Crash
  BY <1>13, <1>14 DEF Crash
<1>15. CASE BeginExit
  BY <1>15 DEF BeginExit
<1>16. CASE FinishExit
  BY <1>13, <1>16 DEF FinishExit
<1>17. CASE Restart
  BY <1>17 DEF Restart
<1>18. CASE UNCHANGED vars
  BY <1>18 DEF vars
<1> QED
  BY <1>1, <1>2, <1>3, <1>4, <1>5, <1>6, <1>7, <1>8, <1>9, <1>10, <1>11, <1>12, <1>14, <1>15,
     <1>16, <1>17, <1>18 DEF Next, HandlerStep

\* Every step keeps the lock with the exiting thread, and its threads dead.
LEMMA ProcessKept == TypeOK /\ ProcessInv /\ [Next]_vars => ProcessInv'
<1> SUFFICES ASSUME TypeOK, ProcessInv, [Next]_vars
             PROVE  ProcessInv'
  OBVIOUS
<1> USE ThreadAssumption DEF TypeOK, ProcessInv, Running, At, Goto, Answer, handlerVars, memoryVars,
        dbVars, fileVars
<1>1. ASSUME NEW r \in Requests, Arrive(r) \/ AddAgent(r) \/ FindToUpdate(r) \/ UpdateConfig(r)
      PROVE  ProcessInv'
  BY <1>1 DEF Arrive, AddAgent, FindToUpdate, UpdateConfig
<1>2. ASSUME NEW r \in Requests, FindToDelete(r) \/ RemoveAgent(r) \/ LockDatabase(r) \/ RefuseDocument(r)
      PROVE  ProcessInv'
  BY <1>2 DEF FindToDelete, RemoveAgent, LockDatabase, RefuseDocument
<1>3. ASSUME NEW r \in Requests, InsertDocument(r) \/ DeleteDocuments(r) \/ FailToSave(r) \/ Truncate(r) \/ Write(r)
      PROVE  ProcessInv'
  BY <1>3 DEF InsertDocument, DeleteDocuments, FailToSave, Truncate, Write
<1>4. CASE Crash \/ FinishExit
  BY <1>4 DEF Crash, FinishExit, Die
<1>5. CASE BeginExit \/ Restart
  BY <1>5 DEF BeginExit, Restart
<1>6. CASE UNCHANGED vars
  BY <1>6 DEF vars
<1> QED BY <1>1, <1>2, <1>3, <1>4, <1>5, <1>6 DEF Next, HandlerStep

\* Every step keeps inputs, answers and what is held in their order.
LEMMA HandlerKept == TypeOK /\ HandlerInv /\ ObjectInv /\ [Next]_vars => HandlerInv'
<1> SUFFICES ASSUME TypeOK, HandlerInv, ObjectInv, [Next]_vars
             PROVE  HandlerInv'
  OBVIOUS
<1> USE NullAssumption, InputAssumption DEF TypeOK, HandlerInv, At, Id, Goto, Answer, handlerVars,
        memoryVars, dbVars, fileVars
<1>1. ASSUME NEW r \in Requests, Arrive(r)
      PROVE  HandlerInv'
  BY <1>1 DEF Arrive
<1>2. ASSUME NEW r \in Requests, FindToUpdate(r)
      PROVE  HandlerInv'
  BY <1>2 DEF FindToUpdate
<1>3. ASSUME NEW r \in Requests, AddAgent(r) \/ UpdateConfig(r) \/ FindToDelete(r) \/ RemoveAgent(r)
      PROVE  HandlerInv'
  BY <1>3 DEF AddAgent, UpdateConfig, FindToDelete, RemoveAgent
<1>4. ASSUME NEW r \in Requests, LockDatabase(r) \/ RefuseDocument(r) \/ InsertDocument(r) \/ DeleteDocuments(r)
      PROVE  HandlerInv'
  BY <1>4 DEF LockDatabase, RefuseDocument, InsertDocument, DeleteDocuments
<1>5. ASSUME NEW r \in Requests, FailToSave(r) \/ Truncate(r) \/ Write(r)
      PROVE  HandlerInv'
  BY <1>5 DEF FailToSave, Truncate, Write, Success
<1>6. CASE Crash \/ FinishExit
  BY <1>6 DEF Crash, FinishExit, Die
<1>7. CASE BeginExit \/ Restart
  BY <1>7 DEF BeginExit, Restart
<1>8. CASE UNCHANGED vars
  BY <1>8 DEF vars
<1> QED BY <1>1, <1>2, <1>3, <1>4, <1>5, <1>6, <1>7, <1>8 DEF Next, HandlerStep

\* Every step keeps objects with the agents they were made for.
LEMMA ObjectKept == TypeOK /\ HandlerInv /\ ObjectInv /\ [Next]_vars => ObjectInv'
<1> SUFFICES ASSUME TypeOK, HandlerInv, ObjectInv, [Next]_vars
             PROVE  ObjectInv'
  OBVIOUS
<1> USE NullAssumption, NameAssumption DEF TypeOK, HandlerInv, ObjectInv, MadeFor, Objects, At, Id,
        Goto, Answer, handlerVars, memoryVars, dbVars, fileVars
<1>1. ASSUME NEW r \in Requests, Arrive(r)
      PROVE  ObjectInv'
  BY <1>1 DEF Arrive
<1>2. ASSUME NEW r \in Requests, AddAgent(r)
      PROVE  ObjectInv'
  BY <1>2 DEF AddAgent
<1>3. ASSUME NEW r \in Requests, FindToUpdate(r)
      PROVE  ObjectInv'
  BY <1>3, InputTypes DEF FindToUpdate
<1>4. ASSUME NEW r \in Requests, UpdateConfig(r) \/ FindToDelete(r) \/ RemoveAgent(r)
      PROVE  ObjectInv'
  BY <1>4 DEF UpdateConfig, FindToDelete, RemoveAgent
<1>5. ASSUME NEW r \in Requests, LockDatabase(r) \/ RefuseDocument(r) \/ InsertDocument(r) \/ DeleteDocuments(r)
      PROVE  ObjectInv'
  BY <1>5 DEF LockDatabase, RefuseDocument, InsertDocument, DeleteDocuments
<1>6. ASSUME NEW r \in Requests, FailToSave(r) \/ Truncate(r) \/ Write(r)
      PROVE  ObjectInv'
  BY <1>6 DEF FailToSave, Truncate, Write
<1>7. CASE Crash \/ FinishExit
  BY <1>7 DEF Crash, FinishExit, Die
<1>8. CASE BeginExit \/ Restart
  BY <1>8 DEF BeginExit, Restart
<1>9. CASE UNCHANGED vars
  BY <1>9 DEF vars
<1> QED BY <1>1, <1>2, <1>3, <1>4, <1>5, <1>6, <1>7, <1>8, <1>9 DEF Next, HandlerStep

-----------------------------------------------------------------------------
(* The file.                                                               *)

\* A step inside the process that changes neither the database nor the file,
\* begins or ends no save, and lets the process be.
Untouched ==
  /\ UNCHANGED <<proc, docs, fileVars>>
  /\ \A r \in Requests : pc'[r] \in {"save", "write"} <=> pc[r] \in {"save", "write"}
  /\ \A r \in Requests : pc[r] \in {"save", "write"} => pc'[r] = pc[r] /\ input'[r] = input[r]

\* What most steps do to the file: nothing.
LEMMA UntouchedFile ==
  ASSUME Untouched
  PROVE  SaveThrows' = SaveThrows /\ BeingWritten' = BeingWritten /\ Stored' = Stored
<1>1. SaveThrows' = SaveThrows
  BY DEF Untouched, SaveThrows
<1>2. BeingWritten' = BeingWritten
  BY <1>1 DEF Untouched, BeingWritten
<1> QED BY <1>1, <1>2 DEF Untouched, Stored, fileVars

\* Which steps these are.
LEMMA UntouchedSteps ==
  ASSUME TypeOK, NEW r \in Requests,
         \/ Arrive(r) \/ AddAgent(r) \/ FindToUpdate(r) \/ UpdateConfig(r) \/ FindToDelete(r)
         \/ RemoveAgent(r) \/ LockDatabase(r) \/ RefuseDocument(r)
  PROVE  Untouched
BY DEF TypeOK, Untouched, Arrive, AddAgent, FindToUpdate, UpdateConfig, FindToDelete, RemoveAgent,
       LockDatabase, RefuseDocument, At, Goto, Answer, handlerVars, memoryVars, dbVars, fileVars

\* Every step keeps the file as it should be.
LEMMA FileKept == TypeOK /\ ProcessInv /\ FileInv /\ [Next]_vars => FileInv'
<1> SUFFICES ASSUME TypeOK, ProcessInv, FileInv, [Next]_vars
             PROVE  FileInv'
  OBVIOUS
<1> USE ThreadAssumption DEF TypeOK, ProcessInv, FileInv, Goto, Answer, handlerVars, memoryVars,
        dbVars, fileVars
<1>1. CASE Untouched
  BY <1>1, UntouchedFile DEF Untouched
<1>2. ASSUME NEW r \in Requests, InsertDocument(r) \/ DeleteDocuments(r)
      PROVE  FileInv'
  <2>1. pc'[r] = "save" /\ \A q \in Requests : pc'[q] # "write"
    BY <1>2 DEF InsertDocument, DeleteDocuments, At
  <2>2. proc' # "exiting"
    BY <1>2 DEF InsertDocument, DeleteDocuments, At
  <2> QED BY <2>1, <2>2
<1>3. ASSUME NEW r \in Requests, FailToSave(r)
      PROVE  FileInv'
  <2>1. SaveThrows'
    BY <1>3 DEF FailToSave, SaveThrows
  <2>2. \A q \in Requests : pc'[q] # "write"
    BY <1>3 DEF FailToSave
  <2> QED BY <2>1, <2>2
<1>4. ASSUME NEW r \in Requests, Truncate(r)
      PROVE  FileInv'
  <2>1. ~SaveThrows' /\ file' = "torn" /\ BeingWritten'
    BY <1>4 DEF Truncate, SaveThrows, BeingWritten
  <2> QED BY <2>1 DEF Stored
<1>5. ASSUME NEW r \in Requests, Write(r)
      PROVE  FileInv'
  <2>1. \A q \in Requests : pc'[q] # "write"
    BY <1>5 DEF Write
  <2>2. proc' # "exiting"
    BY <1>5 DEF Write
  <2> QED BY <1>5, <2>1, <2>2 DEF Write, Stored
<1>6. CASE Crash \/ FinishExit
  BY <1>6 DEF Crash, FinishExit, Die
<1>7. CASE BeginExit
  <2>1. SaveThrows' = SaveThrows
    BY <1>7 DEF BeginExit, SaveThrows
  <2>2. \A q \in Requests : pc'[q] # "write"
    BY <1>7 DEF BeginExit
  <2> QED BY <1>7, <2>1, <2>2 DEF BeginExit
<1>8. CASE Restart
  <2>1. ~BeingWritten' /\ \A q \in Requests : pc'[q] # "write"
    BY <1>8 DEF Restart, BeingWritten
  <2> QED BY <1>8, <2>1 DEF Restart, Stored
<1>9. CASE UNCHANGED vars
  BY <1>1, <1>9 DEF vars, Untouched
<1> QED BY <1>1, <1>2, <1>3, <1>4, <1>5, <1>6, <1>7, <1>8, <1>9, UntouchedSteps DEF Next, HandlerStep

\* Every step keeps what a handler that saves has changed.
LEMMA SaveKept == TypeOK /\ ProcessInv /\ HandlerInv /\ FileInv /\ SaveInv /\ [Next]_vars => SaveInv'
<1> SUFFICES ASSUME TypeOK, ProcessInv, HandlerInv, FileInv, SaveInv, [Next]_vars
             PROVE  SaveInv'
  OBVIOUS
<1> USE ThreadAssumption DEF TypeOK, SaveInv, Id, Goto, Answer, handlerVars, memoryVars, dbVars, fileVars
<1>1. CASE Untouched
  BY <1>1, UntouchedFile DEF Untouched
<1>2. ASSUME NEW r \in Requests, InsertDocument(r)
      PROVE  SaveInv'
  <2>1. /\ pc[r] = "locked" /\ input[r].kind # "delete" /\ docs[Id(r)] = NoDoc
        /\ docs' = [docs EXCEPT ![Id(r)] = input[r].config]
        /\ UNCHANGED <<input, proc, file, saved>>
        /\ \A q \in Requests : pc[q] \notin {"save", "write"}
        /\ \A q \in Requests : pc'[q] \in {"save", "write"} => q = r /\ pc'[q] = "save"
        /\ Id(r) \in AgentIds /\ input[r].config \in Configs
    BY <1>2, InputTypes DEF InsertDocument
  <2>2. proc = "up"
    BY <1>2 DEF InsertDocument, ProcessInv, Running
  <2>3. ~SaveThrows' => ~SaveThrows
    <3> SUFFICES ASSUME NEW i \in AgentIds, docs[i] \in Unsaveable, i = Id(r)
                 PROVE  FALSE
      BY <2>1 DEF SaveThrows
    <3> QED BY <2>1, ConfigAssumption, NullAssumption
  <2>4. ~SaveThrows' => Stored = docs
    BY <2>1, <2>2, <2>3 DEF FileInv
  <2>5. Stored' = Stored
    <3>1. ~BeingWritten /\ ~BeingWritten'
      BY <2>1, <2>2 DEF BeingWritten
    <3> QED BY <2>1, <3>1 DEF Stored
  <2> QED BY <2>1, <2>4, <2>5
<1>3. ASSUME NEW r \in Requests, DeleteDocuments(r)
      PROVE  SaveInv'
  BY <1>3 DEF DeleteDocuments, At
<1>4. ASSUME NEW r \in Requests, Truncate(r)
      PROVE  SaveInv'
  BY <1>4 DEF Truncate
<1>5. ASSUME NEW r \in Requests, FailToSave(r) \/ Write(r)
      PROVE  SaveInv'
  BY <1>5 DEF FailToSave, Write
<1>6. CASE Crash \/ FinishExit
  BY <1>6 DEF Crash, FinishExit, Die
<1>7. CASE BeginExit
  BY <1>7 DEF BeginExit
<1>8. CASE Restart
  BY <1>8 DEF Restart, ProcessInv
<1>9. CASE UNCHANGED vars
  BY <1>1, <1>9 DEF vars, Untouched
<1> QED BY <1>1, <1>2, <1>3, <1>4, <1>5, <1>6, <1>7, <1>8, <1>9, UntouchedSteps DEF Next, HandlerStep

-----------------------------------------------------------------------------
(* Memory and database.                                                    *)

\* Whoever is to blame stays to blame, but for a handler that stores its document.
LEMMA CulpritStays ==
  ASSUME TypeOK, HandlerInv, NEW r \in Requests, Arrive(r) \/ HandlerStep(r),
         NEW q \in Requests, NEW i \in AgentIds, Culprit(q, i), InsertDocument(r) => q # r
  PROVE  Culprit(q, i)'
<1> USE NullAssumption DEF TypeOK, HandlerInv, Culprit, At, Id, Goto, Answer, handlerVars, memoryVars,
        dbVars, fileVars
<1>1. CASE Arrive(r) \/ AddAgent(r) \/ FindToUpdate(r) \/ UpdateConfig(r)
  BY <1>1 DEF Arrive, AddAgent, FindToUpdate, UpdateConfig
<1>2. CASE FindToDelete(r) \/ RemoveAgent(r) \/ LockDatabase(r) \/ RefuseDocument(r)
  BY <1>2 DEF FindToDelete, RemoveAgent, LockDatabase, RefuseDocument
<1>3. CASE InsertDocument(r) \/ DeleteDocuments(r) \/ Truncate(r)
  BY <1>3 DEF InsertDocument, DeleteDocuments, Truncate
<1>4. CASE FailToSave(r) \/ Write(r)
  BY <1>4 DEF FailToSave, Write, Success
<1> QED BY <1>1, <1>2, <1>3, <1>4 DEF HandlerStep

\* A handler that has changed the memory is to blame until it has stored its
\* document; a DELETE is from then on.
LEMMA WritersAreCulprits ==
  ASSUME TypeOK, HandlerInv, NEW r \in Requests
  PROVE  /\ AddAgent(r) \/ UpdateConfig(r) => Culprit(r, Id(r))'
         /\ RemoveAgent(r) \/ DeleteDocuments(r) => \A i \in AgentIds : Culprit(r, i)'
<1> USE DEF TypeOK, HandlerInv, Culprit, At, Id, Goto, Answer, handlerVars, memoryVars, dbVars, fileVars
<1>1. AddAgent(r) \/ UpdateConfig(r) => Culprit(r, Id(r))'
  BY DEF AddAgent, UpdateConfig
<1>2. RemoveAgent(r) \/ DeleteDocuments(r) => \A i \in AgentIds : Culprit(r, i)'
  BY DEF RemoveAgent, DeleteDocuments
<1> QED BY <1>1, <1>2

\* A handler changes the object of its own agent only.
LEMMA OthersAreShown ==
  ASSUME TypeOK, HandlerInv, ObjectInv, NEW r \in Requests, AddAgent(r) \/ UpdateConfig(r),
         NEW i \in AgentIds, i # Id(r)
  PROVE  Shown(i)' = Shown(i) /\ agents'[i] = agents[i]
<1> USE NullAssumption, NameAssumption DEF TypeOK, HandlerInv, ObjectInv, MadeFor, Objects, At, Id
<1>1. agents'[i] = agents[i]
  BY DEF AddAgent, UpdateConfig
<1>2. agents[i] # NoObject => config'[agents[i]] = config[agents[i]]
  BY DEF AddAgent, UpdateConfig
<1> QED BY <1>1, <1>2 DEF Shown

\* A step that changes neither agents nor documents.
LEMMA SameIsShown ==
  ASSUME UNCHANGED <<agents, config, docs>>
  PROVE  \A i \in AgentIds : Shown(i)' = Shown(i)
BY DEF Shown

\* What a handler is about to store stays the last word, or somebody is to blame.
LEMMA WriterKept ==
  TypeOK /\ ProcessInv /\ HandlerInv /\ ObjectInv /\ WriterInv /\ [Next]_vars => WriterInv'
<1> SUFFICES ASSUME TypeOK, ProcessInv, HandlerInv, ObjectInv, WriterInv, [Next]_vars
             PROVE  WriterInv'
  OBVIOUS
<1> DEFINE
      LastWord(q) ==
        /\ pc[q] \in {"persist", "locked"} /\ input[q].kind # "delete" /\ docs[Id(q)] = NoDoc =>
             Shown(Id(q)) = input[q].config \/ OtherCulprit(q)
        /\ held[q] # NoObject /\ docs[Id(q)] = NoDoc =>
             held[q] = agents[Id(q)] \/ OtherCulprit(q)
<1>1. ASSUME NEW r \in Requests, Arrive(r) \/ HandlerStep(r)
      PROVE  WriterInv'
  <2> SUFFICES ASSUME NEW q \in Requests
               PROVE  LastWord(q)'
    BY DEF WriterInv
  <2>0. LastWord(q)
    BY DEF WriterInv
  <2> DEFINE i == Id(q)
  <2>1. pc[q] # "idle" => i \in AgentIds /\ input[q] \in AllInputs
    BY InputTypes
  <2>2. pc[q] # "idle" => i' = i /\ input'[q] = input[q]
    BY <1>1 DEF HandlerStep, Arrive, AddAgent, FindToUpdate, UpdateConfig, FindToDelete, RemoveAgent,
       LockDatabase, RefuseDocument, InsertDocument, DeleteDocuments, FailToSave, Truncate, Write, Id,
       TypeOK, handlerVars
  <2>3. ASSUME OtherCulprit(q), pc[q] # "idle", ~InsertDocument(r)
        PROVE  OtherCulprit(q)'
    BY <1>1, <2>1, <2>2, <2>3, CulpritStays DEF OtherCulprit
  <2> HIDE DEF i, LastWord
  <2> USE NullAssumption DEF TypeOK, HandlerInv, At, Goto, Answer, handlerVars, memoryVars, dbVars, fileVars
  <2>4. CASE Arrive(r) \/ FindToDelete(r) \/ LockDatabase(r) \/ RefuseDocument(r)
             \/ FailToSave(r) \/ Truncate(r) \/ Write(r)
    <3>1. /\ UNCHANGED <<agents, config, docs, held>>
          /\ ~InsertDocument(r)
          /\ pc'[q] \in {"persist", "locked"} => pc[q] \in {"persist", "locked"}
      BY <2>4 DEF Arrive, FindToDelete, LockDatabase, RefuseDocument, FailToSave, Truncate, Write,
         InsertDocument
    <3>2. pc[q] = "idle" => pc'[q] \notin {"persist", "locked"} /\ held[q] = NoObject
      BY <3>1
    <3>3. \A j \in AgentIds : Shown(j)' = Shown(j)
      BY <3>1, SameIsShown
    <3> QED BY <2>0, <2>1, <2>2, <2>3, <3>1, <3>2, <3>3 DEF LastWord, i
  <2>5. CASE FindToUpdate(r)
    <3>1. /\ UNCHANGED <<agents, config, docs>>
          /\ ~InsertDocument(r)
          /\ pc'[q] \in {"persist", "locked"} => pc[q] \in {"persist", "locked"}
          /\ held'[q] = held[q] \/ (q = r /\ held'[q] = agents[Id(q)])
      BY <2>5 DEF FindToUpdate, InsertDocument
    <3>2. pc[q] = "idle" => pc'[q] \notin {"persist", "locked"} /\ held'[q] = NoObject
      BY <2>5, <3>1 DEF FindToUpdate
    <3>3. \A j \in AgentIds : Shown(j)' = Shown(j)
      BY <3>1, SameIsShown
    <3> QED BY <2>0, <2>1, <2>2, <2>3, <3>1, <3>2, <3>3 DEF LastWord, i
  <2>6. CASE AddAgent(r) \/ UpdateConfig(r)
    <3>0. pc[r] # "idle" /\ Id(r) \in AgentIds /\ Id(r)' = Id(r)
      BY <2>6, InputTypes DEF AddAgent, UpdateConfig, Id
    <3>1. /\ docs' = docs /\ ~InsertDocument(r)
          /\ q # r => pc'[q] = pc[q]
          /\ held'[q] = held[q] \/ (q = r /\ held'[q] = NoObject)
          /\ held[q] # NoObject => pc[q] # "idle"
      BY <2>6 DEF AddAgent, UpdateConfig, InsertDocument
    <3>2. CASE q # r /\ pc[q] # "idle" /\ i = Id(r)
      <4>1. Culprit(r, i)'
        BY <2>2, <2>6, <3>0, <3>2, WritersAreCulprits
      <4> QED BY <2>2, <3>2, <4>1 DEF LastWord, OtherCulprit, i
    <3>3. CASE q # r /\ pc[q] # "idle" /\ i # Id(r)
      <4>1. \A j \in AgentIds : j # Id(r) => Shown(j)' = Shown(j) /\ agents'[j] = agents[j]
        BY <2>6, OthersAreShown
      <4>2. Shown(i)' = Shown(i) /\ agents'[i] = agents[i]
        BY <2>1, <2>2, <3>3, <4>1 DEF Shown
      <4> QED BY <2>0, <2>1, <2>2, <2>3, <3>1, <3>3, <4>2 DEF LastWord, i
    <3>4. CASE q = r /\ AddAgent(r)
      <4>1. Shown(i)' = input[q].config /\ held'[q] = NoObject
        BY <2>1, <3>0, <3>4 DEF AddAgent, Shown, i, Objects
      <4> QED BY <2>2, <3>0, <3>4, <4>1 DEF LastWord, i
    <3>5. CASE q = r /\ UpdateConfig(r)
      <4>1. held[r] # NoObject /\ held'[r] = NoObject /\ held[r] \in Objects
        BY <3>5 DEF UpdateConfig
      <4>2. held[r] = agents[i] => Shown(i)' = input[q].config
        BY <2>1, <3>0, <3>5, <4>1 DEF UpdateConfig, Shown, i, Objects
      <4> QED BY <2>0, <2>2, <2>3, <3>0, <3>1, <3>5, <4>1, <4>2 DEF LastWord, i
    <3>6. CASE q # r /\ pc[q] = "idle"
      BY <3>1, <3>6 DEF LastWord
    <3> QED BY <2>6, <3>2, <3>3, <3>4, <3>5, <3>6
  <2>7. CASE RemoveAgent(r) \/ DeleteDocuments(r)
    <3>1. /\ input'[r].kind = "delete" /\ held'[r] = NoObject
          /\ q # r => pc'[q] = pc[q] /\ held'[q] = held[q]
      BY <2>7 DEF RemoveAgent, DeleteDocuments
    <3>2. CASE q = r
      BY <3>1, <3>2 DEF LastWord
    <3>3. CASE q # r /\ pc[q] # "idle"
      <4>1. Culprit(r, i)'
        BY <2>1, <2>2, <2>7, <3>3, WritersAreCulprits
      <4> QED BY <2>2, <3>3, <4>1 DEF LastWord, OtherCulprit, i
    <3>4. CASE q # r /\ pc[q] = "idle"
      BY <3>1, <3>4 DEF LastWord
    <3> QED BY <3>2, <3>3, <3>4
  <2>8. CASE InsertDocument(r)
    <3>1. /\ UNCHANGED <<agents, config, held>>
          /\ docs' = [docs EXCEPT ![Id(r)] = input[r].config]
          /\ input[r].config # NoDoc /\ input[r].kind # "delete"
          /\ Id(r) \in AgentIds /\ pc[r] # "idle"
          /\ q = r => pc'[q] = "save" /\ held[q] = NoObject
          /\ q # r => pc'[q] = pc[q]
      BY <2>8, InputTypes DEF InsertDocument
    <3>2. CASE q = r
      BY <3>1, <3>2 DEF LastWord
    <3>3. CASE q # r /\ pc[q] # "idle" /\ i = Id(r)
      BY <2>2, <3>1, <3>3 DEF LastWord, i
    <3>4. CASE q # r /\ pc[q] # "idle" /\ i # Id(r)
      <4>1. docs'[i] = docs[i] /\ agents'[i] = agents[i] /\ Shown(i)' = Shown(i)
        BY <2>1, <2>2, <3>1, <3>4 DEF Shown
      <4>2. OtherCulprit(q) => OtherCulprit(q)'
        <5>1. ~Culprit(r, i)
          BY <3>1, <3>4 DEF Culprit
        <5> QED BY <1>1, <2>1, <2>2, <3>4, <5>1, CulpritStays DEF OtherCulprit, i
      <4> QED BY <2>0, <2>1, <2>2, <3>1, <3>4, <4>1, <4>2 DEF LastWord, i
    <3>5. CASE q # r /\ pc[q] = "idle"
      BY <3>1, <3>5 DEF LastWord
    <3> QED BY <3>2, <3>3, <3>4, <3>5
  <2> QED BY <1>1, <2>4, <2>5, <2>6, <2>7, <2>8 DEF HandlerStep
<1>2. CASE Crash \/ FinishExit
  BY <1>2 DEF Crash, FinishExit, Die, WriterInv, TypeOK
<1>3. CASE BeginExit
  BY <1>3 DEF BeginExit, WriterInv, OtherCulprit, Culprit, Shown, Id, handlerVars, memoryVars
<1>4. CASE Restart
  <2>1. \A r \in Requests : pc[r] \notin {"persist", "locked"} /\ held[r] = NoObject
    BY <1>4 DEF Restart, ProcessInv, HandlerInv
  <2> QED BY <1>4, <2>1 DEF Restart, WriterInv, handlerVars
<1>5. CASE UNCHANGED vars
  BY <1>5 DEF vars, WriterInv, OtherCulprit, Culprit, Shown, Id
<1> QED BY <1>1, <1>2, <1>3, <1>4, <1>5 DEF Next

\* Memory and database differ only through somebody who is to blame.
LEMMA MemoryKept ==
  TypeOK /\ ProcessInv /\ HandlerInv /\ ObjectInv /\ WriterInv /\ MemoryInv /\ [Next]_vars => MemoryInv'
<1> SUFFICES ASSUME TypeOK, ProcessInv, HandlerInv, ObjectInv, WriterInv, MemoryInv, [Next]_vars,
                    Running', NEW i \in AgentIds, Shown(i)' # docs'[i]
             PROVE  \E q \in Requests : Culprit(q, i)'
  BY DEF MemoryInv
<1>1. ASSUME NEW r \in Requests, Arrive(r) \/ HandlerStep(r)
      PROVE  \E q \in Requests : Culprit(q, i)'
  <2>0. Shown(i) # docs[i] => \E q \in Requests : Culprit(q, i)
    BY <1>1 DEF MemoryInv, Running, Arrive, HandlerStep, AddAgent, FindToUpdate, UpdateConfig,
       FindToDelete, RemoveAgent, LockDatabase, RefuseDocument, InsertDocument, DeleteDocuments,
       FailToSave, Truncate, Write, At
  <2>1. ASSUME ~InsertDocument(r), Shown(i) # docs[i]
        PROVE  \E q \in Requests : Culprit(q, i)'
    BY <1>1, <2>0, <2>1, CulpritStays
  <2> USE NullAssumption DEF TypeOK, HandlerInv, At, Goto, Answer, handlerVars, memoryVars, dbVars, fileVars
  <2>2. CASE \/ Arrive(r) \/ FindToUpdate(r) \/ FindToDelete(r) \/ LockDatabase(r)
             \/ RefuseDocument(r) \/ FailToSave(r) \/ Truncate(r) \/ Write(r)
    <3>1. UNCHANGED <<agents, config, docs>> /\ ~InsertDocument(r)
      BY <2>2 DEF Arrive, FindToUpdate, FindToDelete, LockDatabase, RefuseDocument, FailToSave,
         Truncate, Write, InsertDocument
    <3> QED BY <2>1, <3>1, SameIsShown
  <2>3. CASE AddAgent(r) \/ UpdateConfig(r)
    <3>1. docs' = docs /\ ~InsertDocument(r) /\ Id(r)' = Id(r)
      BY <2>3 DEF AddAgent, UpdateConfig, InsertDocument, Id
    <3>2. CASE i = Id(r)
      BY <2>3, <3>1, <3>2, WritersAreCulprits
    <3>3. CASE i # Id(r)
      BY <2>1, <2>3, <3>1, <3>3, OthersAreShown
    <3> QED BY <3>2, <3>3
  <2>4. CASE RemoveAgent(r) \/ DeleteDocuments(r)
    BY <2>4, WritersAreCulprits
  <2>5. CASE InsertDocument(r)
    <3>1. /\ docs' = [docs EXCEPT ![Id(r)] = input[r].config]
          /\ docs[Id(r)] = NoDoc /\ Shown(i)' = Shown(i)
          /\ pc[r] = "locked" /\ input[r].kind # "delete"
          /\ Id(r) \in AgentIds
      BY <2>5, InputTypes DEF InsertDocument, Shown
    <3>2. CASE i = Id(r)
      <4>1. OtherCulprit(r)
        BY <3>1, <3>2 DEF WriterInv
      <4> QED BY <1>1, <3>2, <4>1, CulpritStays DEF OtherCulprit
    <3>3. CASE i # Id(r)
      <4>1. docs'[i] = docs[i] /\ ~Culprit(r, i)
        BY <3>1, <3>3 DEF Culprit
      <4> QED BY <1>1, <2>0, <3>1, <4>1, CulpritStays
    <3> QED BY <3>2, <3>3
  <2> QED BY <1>1, <2>2, <2>3, <2>4, <2>5 DEF HandlerStep
<1>2. CASE Crash \/ FinishExit
  BY <1>2 DEF Crash, FinishExit, Die, Running
<1>3. CASE BeginExit
  BY <1>3 DEF BeginExit, MemoryInv, Running, Culprit, Shown, Id, handlerVars, memoryVars
<1>4. CASE Restart
  BY <1>4, NullAssumption DEF Restart, Shown, Objects, TypeOK
<1>5. CASE UNCHANGED vars
  BY <1>5 DEF vars, MemoryInv, Running, Culprit, Shown, Id
<1> QED BY <1>1, <1>2, <1>3, <1>4, <1>5 DEF Next

-----------------------------------------------------------------------------
(* The invariant, and what follows from it.                                *)

LEMMA IInvStep == IInv /\ [Next]_vars => IInv'
BY TypeStep, ProcessKept, HandlerKept, ObjectKept, FileKept, SaveKept, WriterKept, MemoryKept DEF IInv

\* The inductive invariant holds of every execution.
THEOREM InductiveInvariant == Spec => []IInv
<1>1. Init => IInv
  BY InitIInv
<1>2. IInv /\ [Next]_vars => IInv'
  BY IInvStep
<1> QED BY <1>1, <1>2, PTL DEF Spec

\* The variables have their types, and the database's mutex has one owner.
THEOREM TypeCorrect == Spec => []TypeOK
<1>1. IInv => TypeOK
  BY DEF IInv
<1> QED BY <1>1, InductiveInvariant, PTL

\* saveToFile: outside execute, the file holds what is in memory.
THEOREM FileHoldsDatabase == Spec => []FileIsDatabase
<1>1. IInv => FileIsDatabase
  <2> SUFFICES ASSUME TypeOK, FileInv, proc = "up", dbLock = Nobody, ~SaveThrows
               PROVE  Stored = docs
    BY DEF IInv, FileIsDatabase
  <2>1. \A r \in Requests : pc[r] # "save"
    BY ThreadAssumption DEF TypeOK
  <2> QED BY <2>1 DEF FileInv
<1> QED BY <1>1, InductiveInvariant, PTL

\* add_agent, update_agent_config: when an agent in memory differs from its
\* document, a request is on its way to the database or was answered 400.
THEOREM DivergenceAlwaysTold == Spec => []DivergenceIsTold
<1>1. IInv => DivergenceIsTold
  BY DEF IInv, MemoryInv, HandlerInv, Culprit, DivergenceIsTold
<1> QED BY <1>1, InductiveInvariant, PTL

-----------------------------------------------------------------------------
(* The file implements AgentDocs.                                          *)

\* What a step may do to what is stored: the truncation commits what the
\* handler has changed, and a crash in the middle of a write loses it all.
LEMMA StoredStep ==
  ASSUME IInv, [Next]_vars
  PROVE  \/ Stored' = Stored
         \/ \E r \in Requests :
              /\ pc[r] = "save" /\ input[r].kind # "delete"
              /\ Stored[Id(r)] = NoDoc /\ input[r].config \in Configs
              /\ Stored' = [Stored EXCEPT ![Id(r)] = input[r].config]
         \/ \E r \in Requests : pc[r] = "save" /\ input[r].kind = "delete" /\ Stored' = NoDocs
         \/ CrashInWrite /\ proc' = "down" /\ file' = "torn" /\ Stored' = NoDocs
<1> USE ThreadAssumption DEF IInv, TypeOK, ProcessInv, FileInv, Goto, Answer, handlerVars, memoryVars,
        dbVars, fileVars
<1>1. CASE Untouched
  BY <1>1, UntouchedFile
<1>2. ASSUME NEW r \in Requests, InsertDocument(r) \/ DeleteDocuments(r) \/ FailToSave(r)
      PROVE  Stored' = Stored
  <2>1. /\ UNCHANGED <<proc, file, saved>> /\ pc[r] \in {"locked", "save"}
        /\ \A q \in Requests : pc'[q] # "write"
    BY <1>2 DEF InsertDocument, DeleteDocuments, FailToSave, At
  <2>2. ~BeingWritten /\ ~BeingWritten'
    BY <2>1 DEF BeingWritten
  <2> QED BY <2>1, <2>2 DEF Stored
<1>3. ASSUME NEW r \in Requests, Truncate(r)
      PROVE  \/ /\ pc[r] = "save" /\ input[r].kind # "delete"
                /\ Stored[Id(r)] = NoDoc /\ input[r].config \in Configs
                /\ Stored' = [Stored EXCEPT ![Id(r)] = input[r].config]
             \/ pc[r] = "save" /\ input[r].kind = "delete" /\ Stored' = NoDocs
  <2>1. pc[r] = "save" /\ ~SaveThrows /\ docs' = docs /\ file' = "torn" /\ BeingWritten'
    BY <1>3 DEF Truncate, BeingWritten
  <2>2. Stored' = docs
    BY <2>1 DEF Stored
  <2> QED BY <2>1, <2>2 DEF SaveInv
<1>4. ASSUME NEW r \in Requests, Write(r)
      PROVE  Stored' = Stored
  BY <1>4 DEF Write, Stored, BeingWritten
<1>5. CASE Crash
  <2>1. /\ UNCHANGED <<file, saved>> /\ ~BeingWritten' /\ proc' = "down"
        /\ CrashInWrite \/ ~BeingWritten
    BY <1>5 DEF Crash, Die, BeingWritten
  <2>2. CASE BeingWritten
    BY <2>1, <2>2 DEF Stored, BeingWritten
  <2>3. CASE ~BeingWritten
    BY <2>1, <2>3 DEF Stored
  <2> QED BY <2>2, <2>3
<1>6. CASE BeginExit
  <2>1. SaveThrows' = SaveThrows /\ \A r \in Requests : pc'[r] = pc[r] /\ pc[r] \notin {"save", "write"}
    BY <1>6 DEF BeginExit, SaveThrows
  <2>2. CASE SaveThrows
    BY <1>6, <2>1, <2>2 DEF BeginExit, Stored, BeingWritten
  <2>3. CASE ~SaveThrows
    BY <1>6, <2>1, <2>3 DEF BeginExit, Stored, BeingWritten
  <2> QED BY <2>2, <2>3
<1>7. CASE FinishExit
  <2>1. proc = "exiting" /\ proc' = "down"
        /\ \A r \in Requests : pc[r] # "write" /\ pc'[r] # "write"
    BY <1>7 DEF FinishExit, Die
  <2> QED BY <1>7, <2>1 DEF FinishExit, Stored, BeingWritten
<1>8. CASE Restart
  <2>1. ~BeingWritten /\ ~BeingWritten' /\ UNCHANGED <<file, saved>>
    BY <1>8 DEF Restart, BeingWritten
  <2> QED BY <2>1 DEF Stored
<1>9. CASE UNCHANGED vars
  BY <1>9 DEF vars, Stored, BeingWritten, SaveThrows
<1> QED BY <1>1, <1>2, <1>3, <1>4, <1>5, <1>6, <1>7, <1>8, <1>9, UntouchedSteps DEF Next, HandlerStep

\* GlobalDatabase and its file, with handlers, crashes and restarts, implement
\* the database of AgentDocs: a stored document is never changed in place.
THEOREM DocsImplemented == Spec => ImplementsDocs
<1>1. Init => Docs!DocsInit
  BY DEF Init, Stored, BeingWritten, NoDocs, Docs!DocsInit, Docs!NoDocs
<1>2. IInv /\ [Next]_vars => [Docs!DocsNext]_Stored
  <2> SUFFICES ASSUME IInv, [Next]_vars
               PROVE  Docs!DocsNext \/ Stored' = Stored
    OBVIOUS
  <2>1. ASSUME NEW r \in Requests, pc[r] = "save", Stored[Id(r)] = NoDoc, input[r].config \in Configs,
               Stored' = [Stored EXCEPT ![Id(r)] = input[r].config]
        PROVE  Docs!DocsNext
    <3>1. Id(r) \in AgentIds
      BY <2>1, InputTypes DEF IInv
    <3> QED BY <2>1, <3>1 DEF Docs!DocsNext, Docs!Insert
  <2>2. ASSUME NEW r \in Requests, pc[r] = "save", input[r].kind = "delete", Stored' = NoDocs
        PROVE  Docs!DocsNext
    <3>1. input[r] \in Inputs
      BY <2>2 DEF IInv, TypeOK, HandlerInv
    <3> QED BY <2>2, <3>1 DEF Docs!DocsNext, Docs!Erase, MayErase, NoDocs, Docs!NoDocs
  <2>3. ASSUME CrashInWrite, Stored' = NoDocs
        PROVE  Docs!DocsNext
    BY <2>3 DEF Docs!DocsNext, Docs!Erase, MayErase, NoDocs, Docs!NoDocs
  <2> QED BY <2>1, <2>2, <2>3, StoredStep
<1> QED BY <1>1, <1>2, InductiveInvariant, PTL DEF Spec, ImplementsDocs, Docs!DocsSpec

-----------------------------------------------------------------------------
(* What a POST has created survives.                                       *)

\* No process has died in the middle of a write.
NeverTorn == proc = "down" => file # "torn"

\* Nothing is to be deleted, and to_bson refuses nothing.
Benign ==
  \A r \in Requests : input[r] # NoInput =>
    input[r].kind # "delete" /\ input[r].config \notin Unsaveable

SafeInv ==
  Benign =>
    /\ \A i \in AgentIds : docs[i] \notin Unsaveable /\ saved[i] \notin Unsaveable
    /\ file = "torn" => proc = "down" \/ BeingWritten
    /\ \A r \in Requests :
         answer[r] = "201" => input[r].config \in Configs /\ Stored[Id(r)] = input[r].config

\* A step that leaves no torn file behind keeps what is safe.
LEMMA SafeStep ==
  ASSUME IInv, IInv', SafeInv, NeverTorn, NeverTorn', [Next]_vars
  PROVE  SafeInv'
<1> SUFFICES ASSUME Benign'
             PROVE  /\ \A i \in AgentIds : docs'[i] \notin Unsaveable /\ saved'[i] \notin Unsaveable
                    /\ file' = "torn" => proc' = "down" \/ BeingWritten'
                    /\ \A q \in Requests : answer'[q] = "201" =>
                         input'[q].config \in Configs /\ Stored'[Id(q)'] = input'[q].config
  BY DEF SafeInv
<1> USE ConfigAssumption, NullAssumption, ThreadAssumption
    DEF IInv, TypeOK, ProcessInv, HandlerInv, Goto, Answer, handlerVars, memoryVars, dbVars, fileVars, Id, At
<1>1. \A q \in Requests : pc[q] # "idle" => input'[q] = input[q]
  BY DEF Next, HandlerStep, Arrive, AddAgent, FindToUpdate, UpdateConfig, FindToDelete, RemoveAgent,
     LockDatabase, RefuseDocument, InsertDocument, DeleteDocuments, FailToSave, Truncate, Write, Crash,
     BeginExit, FinishExit, Restart, Die, vars
<1>2. Benign
  BY <1>1 DEF Benign
<1>3. ~SaveThrows /\ \A i \in AgentIds : docs[i] \notin Unsaveable /\ saved[i] \notin Unsaveable
  BY <1>2 DEF SafeInv, SaveThrows
<1>4. file = "torn" => BeingWritten
  BY <1>2 DEF SafeInv, NeverTorn
<1>5. \A q \in Requests : answer[q] = "201" =>
        input[q].config \in Configs /\ Stored[Id(q)] = input[q].config /\ Id(q) \in AgentIds
  BY <1>2, InputTypes DEF SafeInv
<1>6. \A i \in AgentIds : docs'[i] \notin Unsaveable /\ saved'[i] \notin Unsaveable
  <2>1. ASSUME NEW r \in Requests, InsertDocument(r)
        PROVE  \A i \in AgentIds : docs'[i] \notin Unsaveable /\ saved'[i] \notin Unsaveable
    <3>1. input[r].config \notin Unsaveable
      BY <1>2, <2>1 DEF InsertDocument, Benign
    <3> QED BY <1>3, <2>1, <3>1 DEF InsertDocument
  <2>2. CASE docs' \in {docs, saved, NoDocs} /\ saved' \in {saved, docs, NoDocs}
    BY <1>3, <2>2 DEF NoDocs
  <2>3. ASSUME ~ \E r \in Requests : InsertDocument(r)
        PROVE  docs' \in {docs, saved, NoDocs} /\ saved' \in {saved, docs, NoDocs}
    BY <2>3 DEF Next, HandlerStep, Arrive, AddAgent, FindToUpdate, UpdateConfig, FindToDelete,
       RemoveAgent, LockDatabase, RefuseDocument, DeleteDocuments, FailToSave, Truncate, Write, Crash,
       BeginExit, FinishExit, Restart, Die, vars
  <2> QED BY <2>1, <2>2, <2>3
<1>7. ~SaveThrows'
  BY <1>6 DEF SaveThrows
<1>8. file' = "torn" => proc' = "down" \/ BeingWritten'
  <2> SUFFICES ASSUME file' = "torn", proc' # "down"
               PROVE  BeingWritten'
    OBVIOUS
  <2>1. CASE Untouched
    BY <1>4, <2>1, UntouchedFile DEF Untouched
  <2>2. ASSUME NEW r \in Requests, InsertDocument(r) \/ DeleteDocuments(r) \/ FailToSave(r)
        PROVE  FALSE
    <3>1. ~BeingWritten /\ file' = file
      BY <2>2 DEF InsertDocument, DeleteDocuments, FailToSave, BeingWritten
    <3> QED BY <1>4, <3>1
  <2>3. ASSUME NEW r \in Requests, Truncate(r)
        PROVE  BeingWritten'
    BY <2>3 DEF Truncate, BeingWritten
  <2>4. ASSUME NEW r \in Requests, Write(r)
        PROVE  FALSE
    BY <2>4 DEF Write
  <2>5. CASE BeginExit
    BY <1>7, <2>5 DEF BeginExit, BeingWritten
  <2>6. CASE Crash \/ FinishExit
    BY <2>6 DEF Crash, FinishExit, Die
  <2>7. CASE Restart
    BY <2>7 DEF Restart, NeverTorn
  <2>8. CASE UNCHANGED vars
    BY <1>4, <2>8, UntouchedFile DEF vars, Untouched
  <2> QED BY <2>1, <2>2, <2>3, <2>4, <2>5, <2>6, <2>7, <2>8, UntouchedSteps DEF Next, HandlerStep
<1>9. ASSUME NEW q \in Requests, answer[q] = "201"
      PROVE  input'[q] = input[q] /\ Stored'[Id(q)] = input[q].config
  <2>1. input'[q] = input[q]
    BY <1>1, <1>9
  <2>2. Stored[Id(q)] # NoDoc
    BY <1>5, <1>9
  <2>3. ASSUME NEW r \in Requests, pc[r] = "save"
        PROVE  input[r].kind # "delete"
    BY <1>2, <2>3 DEF Benign
  <2>4. Stored \in [AgentIds -> Configs \cup {NoDoc}]
    BY DEF Stored, NoDocs
  <2> QED BY <1>5, <1>9, <2>1, <2>2, <2>3, <2>4, StoredStep DEF NeverTorn
<1>10. ASSUME NEW q \in Requests, answer[q] # "201", answer'[q] = "201"
       PROVE  input'[q].config \in Configs /\ Stored'[Id(q)'] = input'[q].config
  <2>1. Write(q)
    BY <1>3, <1>10 DEF Next, HandlerStep, Arrive, AddAgent, FindToUpdate, UpdateConfig, FindToDelete,
       RemoveAgent, LockDatabase, RefuseDocument, InsertDocument, DeleteDocuments, FailToSave, Truncate,
       Write, Crash, BeginExit, FinishExit, Restart, Die, vars, Success
  <2>2. pc[q] = "write" /\ Stored' = docs /\ input' = input
    BY <2>1 DEF Write, Stored
  <2>3. input[q].kind # "delete"
    BY <1>2, <2>2 DEF Benign
  <2> QED BY <2>2, <2>3 DEF SaveInv
<1> QED BY <1>5, <1>6, <1>8, <1>9, <1>10

\* persist_agent: in every run in which no process died while it wrote the file,
\* nothing was to be deleted and to_bson refused nothing, whatever was answered
\* 201 is what a restart would find.
THEOREM CreatedAlwaysSurvives == Spec => CreatedSurvives
<1>1. Init => SafeInv
  BY ConfigAssumption, NullAssumption DEF Init, SafeInv, NoDocs
<1>2. IInv /\ IInv' /\ NeverTorn /\ NeverTorn' /\ SafeInv /\ [Next]_vars => SafeInv'
  BY SafeStep
<1>3. SafeInv => (Benign => CreatedIsStored)
  BY DEF SafeInv, CreatedIsStored
<1>4. Spec /\ []NeverTorn => [](Benign => CreatedIsStored)
  BY <1>1, <1>2, <1>3, InductiveInvariant, PTL DEF Spec
<1> QED BY <1>4, PTL DEF CreatedSurvives, NeverTorn, Benign
=============================================================================
