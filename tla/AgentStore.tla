----------------------------- MODULE AgentStore -----------------------------
(***************************************************************************)
(* The agents: the HTTP handlers of /agents (server.cpp), AgentManager and *)
(* the agents' configurations (agent.h), the global database (execute,     *)
(* initialize, shutdown in GlobalDatabase.h; the "agents" table in         *)
(* InMemoryDatabase.h) and its file, across crashes, exits and restarts.   *)
(*                                                                         *)
(* An Agent object is named by the POST that creates it, or by its id when *)
(* a restart loads it.                                                     *)
(***************************************************************************)
CONSTANTS Requests,      \* HTTP requests to /agents, one handler thread each
          AgentIds,
          Configs,       \* configurations that are JSON objects
          NotObject,     \* any other JSON value, such as a missing "config"
          Unsaveable,    \* configurations to_bson throws on (a NUL in a key)
          Inputs,        \* what a request may ask for
          CrashInWrite,  \* may the process die between truncation and write?
          NoObject, NoDoc, NoInput,
          Nobody, Exiter \* the lock is free; held by the exiting thread

Kinds == {"post", "put", "delete"}
AllInputs == [kind : Kinds, id : AgentIds, config : Configs \cup {NotObject}]

ASSUME InputAssumption == Inputs \subseteq AllInputs
ASSUME ConfigAssumption == Unsaveable \subseteq Configs
ASSUME CrashAssumption == CrashInWrite \in BOOLEAN
ASSUME NullAssumption ==
  /\ NotObject \notin Configs /\ NoDoc \notin Configs
  /\ NoObject \notin Requests \cup AgentIds
  /\ NoInput \notin AllInputs
ASSUME ThreadAssumption == Nobody \notin Requests /\ Exiter \notin Requests /\ Nobody # Exiter
ASSUME NameAssumption == Requests \cap AgentIds = {}

Objects == Requests \cup AgentIds

VARIABLES
  proc,     \* the process: "up", "exiting" (static destructors), "down"
  pc,       \* where each handler stands
  input,    \* what each request asks for
  answer,   \* the HTTP answer of each request
  held,     \* the agent a PUT has looked up
  agents,   \* AgentManager::agents_
  config,   \* config_ of each Agent object
  docs,     \* the documents of the table "agents", in memory
  dbLock,   \* who holds GlobalDatabase::mutex_
  file,     \* db_backup.bson: "absent", "torn" (truncated), "whole"
  saved     \* the agents' documents in a whole file

vars == <<proc, pc, input, answer, held, agents, config, docs, dbLock, file, saved>>
handlerVars == <<pc, input, answer, held>>
memoryVars == <<agents, config>>
dbVars == <<docs, dbLock>>
fileVars == <<file, saved>>

HandlerStates == {"idle", "memory", "change", "persist", "locked", "save",
                  "write", "done", "lost"}

NoDocs == [i \in AgentIds |-> NoDoc]

TypeOK ==
  /\ proc \in {"up", "exiting", "down"}
  /\ pc \in [Requests -> HandlerStates]
  /\ input \in [Requests -> Inputs \cup {NoInput}]
  /\ answer \in [Requests -> {"none", "201", "204", "400", "404"}]
  /\ held \in [Requests -> Objects \cup {NoObject}]
  /\ agents \in [AgentIds -> Objects \cup {NoObject}]
  /\ config \in [Objects -> Configs \cup {NotObject}]
  /\ docs \in [AgentIds -> Configs \cup {NoDoc}]
  /\ dbLock \in Requests \cup {Nobody, Exiter}
  /\ \A r \in Requests : dbLock = r <=> pc[r] \in {"locked", "save", "write"}
  /\ file \in {"absent", "torn", "whole"}
  /\ saved \in [AgentIds -> Configs \cup {NoDoc}]

Init ==
  /\ proc = "up"
  /\ pc = [r \in Requests |-> "idle"]
  /\ input = [r \in Requests |-> NoInput]
  /\ answer = [r \in Requests |-> "none"]
  /\ held = [r \in Requests |-> NoObject]
  /\ agents = [i \in AgentIds |-> NoObject]
  /\ config = [o \in Objects |-> NotObject]
  /\ docs = NoDocs
  /\ dbLock = Nobody
  /\ file = "absent"
  /\ saved = NoDocs

-----------------------------------------------------------------------------
(* Handlers, up to the database.                                           *)

\* The handler threads run on while the static destructors do.
Running == proc \in {"up", "exiting"}

At(r, state, kind) == Running /\ pc[r] = state /\ input[r].kind = kind
Id(r) == input[r].id
Goto(r, state) == pc' = [pc EXCEPT ![r] = state]

Answer(r, status) ==
  /\ Goto(r, "done")
  /\ answer' = [answer EXCEPT ![r] = status]

Arrive(r) ==
  /\ proc = "up"
  /\ pc[r] = "idle"
  /\ \E i \in Inputs : input' = [input EXCEPT ![r] = i]
  /\ Goto(r, "memory")
  /\ UNCHANGED <<proc, answer, held, memoryVars, dbVars, fileVars>>

\* POST: add_agent puts the new object in the map before anything else.
AddAgent(r) ==
  /\ At(r, "memory", "post")
  /\ config' = [config EXCEPT ![r] = input[r].config]
  /\ agents' = [agents EXCEPT ![Id(r)] = r]
  /\ Goto(r, "persist")
  /\ UNCHANGED <<proc, input, answer, held, dbVars, fileVars>>

\* PUT: update_agent_config ignores an unknown id, and the handler says 204.
FindToUpdate(r) ==
  /\ At(r, "memory", "put")
  /\ IF agents[Id(r)] = NoObject
       THEN Answer(r, "204") /\ UNCHANGED held
       ELSE Goto(r, "change") /\ held' = [held EXCEPT ![r] = agents[Id(r)]] /\ UNCHANGED answer
  /\ UNCHANGED <<proc, input, memoryVars, dbVars, fileVars>>

\* The object is changed without any lock, even if the map has lost it since.
UpdateConfig(r) ==
  /\ At(r, "change", "put")
  /\ config' = [config EXCEPT ![held[r]] = input[r].config]
  /\ held' = [held EXCEPT ![r] = NoObject]
  /\ Goto(r, "persist")
  /\ UNCHANGED <<proc, input, answer, agents, dbVars, fileVars>>

\* DELETE tests for the agent first, and removes it in a second critical section.
FindToDelete(r) ==
  /\ At(r, "memory", "delete")
  /\ IF agents[Id(r)] = NoObject
       THEN Answer(r, "404")
       ELSE Goto(r, "change") /\ UNCHANGED answer
  /\ UNCHANGED <<proc, input, held, memoryVars, dbVars, fileVars>>

RemoveAgent(r) ==
  /\ At(r, "change", "delete")
  /\ agents' = [agents EXCEPT ![Id(r)] = NoObject]
  /\ Goto(r, "persist")
  /\ UNCHANGED <<proc, input, answer, held, config, dbVars, fileVars>>

-----------------------------------------------------------------------------
(* GlobalDatabase::execute, and saveToFile inside it.                      *)

LockDatabase(r) ==
  /\ Running
  /\ pc[r] = "persist"
  /\ dbLock = Nobody
  /\ dbLock' = r
  /\ Goto(r, "locked")
  /\ UNCHANGED <<proc, input, answer, held, memoryVars, docs, fileVars>>

\* Mutant of RefuseDocument: the lock is not released when insertDocument throws.
RefuseKeepsLock(r) ==
  /\ Running
  /\ pc[r] = "locked"
  /\ input[r].kind # "delete"
  /\ input[r].config = NotObject \/ docs[Id(r)] # NoDoc
  /\ Answer(r, "400")
  /\ UNCHANGED <<proc, input, held, memoryVars, docs, dbLock, fileVars>>

\* persist_agent serves POST and PUT alike, and only ever inserts: Document
\* throws on what is not an object, insertDocument on an id that is there.
\* The lock is released, nothing is saved, and the handler answers 400.
RefuseDocument(r) ==
  /\ Running
  /\ pc[r] = "locked"
  /\ input[r].kind # "delete"
  /\ input[r].config = NotObject \/ docs[Id(r)] # NoDoc
  /\ dbLock' = Nobody
  /\ Answer(r, "400")
  /\ UNCHANGED <<proc, input, held, memoryVars, docs, fileVars>>

\* Mutant of InsertDocument: saved at the next persist interval, not immediately.
InsertUnsaved(r) ==
  /\ Running
  /\ pc[r] = "locked"
  /\ input[r].kind # "delete"
  /\ input[r].config # NotObject
  /\ docs[Id(r)] = NoDoc
  /\ docs' = [docs EXCEPT ![Id(r)] = input[r].config]
  /\ dbLock' = Nobody
  /\ Answer(r, "201")
  /\ UNCHANGED <<proc, input, held, memoryVars, fileVars>>

\* Mutant of InsertDocument: the document that is there is overwritten.
InsertAnyDocument(r) ==
  /\ Running
  /\ pc[r] = "locked"
  /\ input[r].kind # "delete"
  /\ input[r].config # NotObject
  /\ docs' = [docs EXCEPT ![Id(r)] = input[r].config]
  /\ Goto(r, "save")
  /\ UNCHANGED <<proc, input, answer, held, memoryVars, dbLock, fileVars>>

InsertDocument(r) ==
  /\ Running
  /\ pc[r] = "locked"
  /\ input[r].kind # "delete"
  /\ input[r].config # NotObject
  /\ docs[Id(r)] = NoDoc
  /\ docs' = [docs EXCEPT ![Id(r)] = input[r].config]
  /\ Goto(r, "save")
  /\ UNCHANGED <<proc, input, answer, held, memoryVars, dbLock, fileVars>>

\* remove_agent deletes the documents of every agent.
DeleteDocuments(r) ==
  /\ At(r, "locked", "delete")
  /\ docs' = NoDocs
  /\ Goto(r, "save")
  /\ UNCHANGED <<proc, input, answer, held, memoryVars, dbLock, fileVars>>

SaveThrows == \E i \in AgentIds : docs[i] \in Unsaveable

Success(r) == IF input[r].kind = "post" THEN "201" ELSE "204"

\* The exception of to_bson is caught and logged: the file is left alone.
FailToSave(r) ==
  /\ Running
  /\ pc[r] = "save"
  /\ SaveThrows
  /\ dbLock' = Nobody
  /\ Answer(r, Success(r))
  /\ UNCHANGED <<proc, input, held, memoryVars, docs, fileVars>>

\* Otherwise the ofstream truncates the file that holds the previous state ...
Truncate(r) ==
  /\ Running
  /\ pc[r] = "save"
  /\ ~SaveThrows
  /\ file' = "torn"
  /\ saved' = NoDocs
  /\ Goto(r, "write")
  /\ UNCHANGED <<proc, input, answer, held, memoryVars, dbVars>>

\* ... and is then written and closed; execute returns, the handler answers.
Write(r) ==
  /\ Running
  /\ pc[r] = "write"
  /\ file' = "whole"
  /\ saved' = docs
  /\ dbLock' = Nobody
  /\ Answer(r, Success(r))
  /\ UNCHANGED <<proc, input, held, memoryVars, docs>>

-----------------------------------------------------------------------------
(* The end and the start of the process.                                   *)

\* Everything in memory is gone; only the file stays.
Die ==
  /\ proc' = "down"
  /\ pc' = [r \in Requests |-> IF pc[r] \in {"idle", "done"} THEN pc[r] ELSE "lost"]
  /\ held' = [r \in Requests |-> NoObject]
  /\ agents' = [i \in AgentIds |-> NoObject]
  /\ config' = [o \in Objects |-> NotObject]
  /\ docs' = NoDocs
  /\ dbLock' = Nobody
  /\ UNCHANGED <<input, answer>>

\* Between the truncation and the write, of a handler or of the exit.
BeingWritten ==
  \/ \E r \in Requests : pc[r] = "write"
  \/ proc = "exiting" /\ ~SaveThrows

Crash ==
  /\ Running
  /\ CrashInWrite \/ ~BeingWritten
  /\ Die
  /\ UNCHANGED fileVars

\* exit(): GlobalDatabase's destructor takes the lock and saves once more.
BeginExit ==
  /\ proc = "up"
  /\ dbLock = Nobody
  /\ dbLock' = Exiter
  /\ proc' = "exiting"
  /\ IF SaveThrows THEN UNCHANGED fileVars ELSE file' = "torn" /\ saved' = NoDocs
  /\ UNCHANGED <<handlerVars, memoryVars, docs>>

FinishExit ==
  /\ proc = "exiting"
  /\ IF SaveThrows THEN UNCHANGED fileVars ELSE file' = "whole" /\ saved' = docs
  /\ Die

\* initialize loads the file if there is one; a file that cannot be read
\* leaves an empty database. Then AgentManager makes an agent per document.
Restart ==
  /\ proc = "down"
  /\ proc' = "up"
  /\ docs' = IF file = "whole" THEN saved ELSE NoDocs
  /\ agents' = [i \in AgentIds |-> IF docs'[i] = NoDoc THEN NoObject ELSE i]
  /\ config' = [o \in Objects |->
                  IF o \in AgentIds /\ docs'[o] # NoDoc THEN docs'[o] ELSE NotObject]
  /\ UNCHANGED <<handlerVars, dbLock, fileVars>>

-----------------------------------------------------------------------------
HandlerStep(r) ==
  \/ AddAgent(r) \/ FindToUpdate(r) \/ UpdateConfig(r)
  \/ FindToDelete(r) \/ RemoveAgent(r)
  \/ LockDatabase(r) \/ RefuseDocument(r) \/ InsertDocument(r)
  \/ DeleteDocuments(r) \/ FailToSave(r) \/ Truncate(r) \/ Write(r)

Next ==
  \/ \E r \in Requests : Arrive(r) \/ HandlerStep(r)
  \/ Crash
  \/ BeginExit
  \/ FinishExit
  \/ Restart

\* Handler threads are scheduled and each is served once, so the lock comes to
\* each of them; an exit that began ends. Crashes, signals and restarts are
\* nobody's duty.
Fairness ==
  /\ \A r \in Requests : WF_vars(HandlerStep(r))
  /\ WF_vars(FinishExit)

Spec == Init /\ [][Next]_vars /\ Fairness

-----------------------------------------------------------------------------
(* Properties.                                                             *)

\* What a restart would find: the file, or, while it is being written by a
\* process that may not die then, what it will hold.
Stored ==
  IF file = "whole" THEN saved
  ELSE IF BeingWritten THEN docs
  ELSE NoDocs

\* Whenever no execute is under way the file holds the database, also after
\* one that threw, after a restart, and after a file that could not be read:
\* a save that failed is made good by the next one that can succeed.
FileIsDatabase == proc = "up" /\ dbLock = Nobody /\ ~SaveThrows => Stored = docs

\* What GET /agents/:id shows.
Shown(i) == IF agents[i] = NoObject THEN NoDoc ELSE config[agents[i]]

\* Memory and database are changed in two critical sections, and a request may
\* be refused after the first (add_agent, update_agent_config). As long as
\* nothing is to be deleted, an agent in memory differs from its document only
\* until a request for it is through, or after one for it was answered 400: of
\* two clients that write one agent at the same time, one is told.
DivergenceIsTold ==
  Running => \A i \in AgentIds : Shown(i) # docs[i] =>
    \E r \in Requests :
      /\ input[r] # NoInput
      /\ \/ input[r].kind = "delete" /\ answer[r] # "404"
         \/ Id(r) = i /\ (pc[r] \in {"persist", "locked"} \/ answer[r] = "400")

Deleted(i) ==
  \E d \in Requests : input[d] # NoInput /\ input[d].kind = "delete" /\ Id(d) = i

\* A POST that was answered 201 is on disk, with its configuration, whatever
\* crashes, exits and restarts came after it, unless somebody has asked for
\* this very agent to be deleted.
CreatedIsStored ==
  \A r \in Requests :
    answer[r] = "201" /\ ~Deleted(Id(r)) => Stored[Id(r)] = input[r].config

\* The same of every run of the system in which no process died while it wrote
\* the file, nothing was to be deleted and no document was refused by to_bson:
\* no other interleaving, exit, crash or restart loses what was created.
CreatedSurvives ==
  [](proc = "down" => file # "torn") =>
    [](/\ \A r \in Requests : input[r] # NoInput =>
            input[r].kind # "delete" /\ input[r].config \notin Unsaveable
       => CreatedIsStored)

MayErase == CrashInWrite \/ \E i \in Inputs : i.kind = "delete"

Docs == INSTANCE AgentDocs WITH stored <- Stored

\* Stored documents are never changed in place, and go only all together.
ImplementsDocs == Docs!DocsSpec

\* A handler answers, unless the process dies under it: an exception inside
\* execute does not keep the database locked for the others.
HandlersAnswer ==
  \A r \in Requests : pc[r] = "memory" ~> pc[r] \in {"done", "lost"}

-----------------------------------------------------------------------------
(* What the repository says and the code does not do.                      *)

\* server.cpp "Update agent config": a PUT with a JSON object is not refused.
UpdateIsAccepted ==
  \A r \in Requests :
    input[r] # NoInput /\ input[r].kind = "put" /\ input[r].config # NotObject =>
      answer[r] # "400"
=============================================================================
