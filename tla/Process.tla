------------------------------- MODULE Process -------------------------------
(***************************************************************************)
(* The process from main() to its end, and the processes after it: the     *)
(* command line and the settings (Configuration), the database's start and *)
(* its last save, test mode or server.  Handlers write to the database in  *)
(* one step here; AgentStore takes that step apart.                        *)
(*                                                                         *)
(* A database is a function from the names of its tables to the documents  *)
(* in them.                                                                *)
(***************************************************************************)
EXTENDS Configuration

CONSTANTS Documents,  \* what can be stored in the table "agents"
          Unsaveable  \* those of them to_bson throws on

ASSUME DocumentAssumption == Unsaveable \subseteq Documents

SystemTables == {"__metadata", "__transactions", "__audit_log"}

VARIABLES
  initialized,  \* GlobalDatabase::initialized_
  db,           \* GlobalDatabase::database_
  file,         \* db_backup.bson: "absent", "torn" (cut off), "whole"
  saved         \* the database in a whole file

dbVars == <<initialized, db>>
fileVars == <<file, saved>>
vars == <<configVars, dbVars, fileVars>>

NoTables == [t \in {} |-> {}]
DefaultSchema == [t \in SystemTables |-> {}]
Agents(d) == IF "agents" \in DOMAIN d THEN d["agents"] ELSE {}

IsDatabase(d) ==
  /\ SystemTables \subseteq DOMAIN d /\ DOMAIN d \subseteq SystemTables \cup {"agents"}
  /\ \A t \in SystemTables : d[t] = {}
  /\ Agents(d) \subseteq Documents

\* "aborted": an exception nobody caught; "leaving": main has returned, or a
\* signal has come, and the static objects are about to be destroyed;
\* "exiting": the same, while the handlers of a server go on in their threads.
Phases == {"arguments", "environment", "lines", "configured", "aborted",
           "loaded", "testing", "listening", "exiting", "leaving", "ended"}

\* The handlers of the server run.
Serving == phase \in {"listening", "exiting"}

TypeOK ==
  /\ phase \in Phases
  /\ options \in OptionSets
  /\ i \in 1..Len(args) + 1
  /\ \A n \in DOMAIN values : Knows(n) /\ values[n] # NoValue
  /\ line > 0 => line \in 1..Len(env) + 1
  /\ file \in {"absent", "torn", "whole"}
  /\ initialized <=> phase \in {"loaded", "testing", "listening", "exiting"}
                     \/ (phase = "leaving" /\ db # NoTables)
  /\ initialized => IsDatabase(db)
  /\ file = "whole" => IsDatabase(saved)

\* A new process, with a command line and settings of its own.
Begin ==
  /\ phase' = "arguments"
  /\ options' \in OptionSets
  /\ args' \in ArgumentLists
  /\ env' \in EnvFiles \cup {Missing, Unreadable}
  /\ i' = 1
  /\ values' = Empty
  /\ line' = 0
  /\ variables' = Empty
  /\ initialized' = FALSE
  /\ db' = NoTables

Init ==
  /\ phase = "ended"
  /\ options \in OptionSets
  /\ args = <<>>
  /\ env = Missing
  /\ i = 1
  /\ values = Empty
  /\ line = 0
  /\ variables = Empty
  /\ initialized = FALSE
  /\ db = NoTables
  /\ file = "absent"
  /\ saved = NoTables

Start ==
  /\ phase = "ended"
  /\ Begin
  /\ UNCHANGED fileVars

Configure == (ParseStep \/ LoadStep) /\ UNCHANGED <<dbVars, fileVars>>

-----------------------------------------------------------------------------
(* The database.                                                           *)

\* Mutant: the default schema is set up first, and a database that is not
\* empty is not loaded.
SetUpDefaults ==
  /\ phase = "configured"
  /\ db' = DefaultSchema
  /\ initialized' = TRUE
  /\ phase' = "loaded"
  /\ UNCHANGED <<cliVars, envVars, fileVars>>

\* initialize(""): the file, if there is one that can be loaded; otherwise,
\* also when loadFromFile throws, the default schema. Nothing is written.
InitializeDatabase ==
  /\ phase = "configured"
  /\ db' = IF file = "whole" THEN saved ELSE DefaultSchema
  /\ initialized' = TRUE
  /\ phase' = "loaded"
  /\ UNCHANGED <<cliVars, envVars, fileVars>>

\* to_bson takes any database that has tables and no document it throws on.
Saveable(d) == DOMAIN d # {} /\ Agents(d) \cap Unsaveable = {}

\* saveToFile makes the BSON before it opens the file; conditionalPersist and
\* shutdown log what it throws, and go on.
Save(d) ==
  IF Saveable(d) THEN file' = "whole" /\ saved' = d ELSE UNCHANGED fileVars

\* AgentManager's persist_agent and remove_agent: execute saves at once.
PersistAgent ==
  /\ Serving
  /\ \E a \in Documents \ Agents(db) :
       db' = [t \in DOMAIN db \cup {"agents"} |->
                IF t = "agents" THEN Agents(db) \cup {a} ELSE db[t]]
  /\ Save(db')
  /\ UNCHANGED <<configVars, initialized>>

RemoveAgents ==
  /\ Serving
  /\ db' = [t \in DOMAIN db |-> IF t = "agents" THEN {} ELSE db[t]]
  /\ Save(db')
  /\ UNCHANGED <<configVars, initialized>>

-----------------------------------------------------------------------------
(* Test mode and server.                                                   *)

TestMode == IsTrue(Lookup("test"))

BeginTest ==
  /\ phase = "loaded"
  /\ TestMode
  /\ phase' = "testing"
  /\ UNCHANGED <<cliVars, envVars, dbVars, fileVars>>

\* The one request has been answered, or has thrown into main's try block.
EndTest ==
  /\ phase = "testing"
  /\ phase' = "leaving"
  /\ UNCHANGED <<cliVars, envVars, dbVars, fileVars>>

\* Mutant: a port that is no number is taken for 0.
HasHostOnly == Lookup("SERVER_HOST") # NoValue

\* Server::run reads the host and the port.
HasHostAndPort == Lookup("SERVER_HOST") # NoValue /\ HasInteger("SERVER_PORT")

Listen ==
  /\ phase = "loaded"
  /\ ~TestMode
  /\ HasHostAndPort
  /\ phase' = "listening"
  /\ UNCHANGED <<cliVars, envVars, dbVars, fileVars>>

\* Whatever the settings, the providers, the Manager or listen may fail; a
\* missing or wrong setting is an exception that main catches.
FailToListen ==
  /\ phase = "loaded"
  /\ ~TestMode
  /\ phase' = "leaving"
  /\ UNCHANGED <<cliVars, envVars, dbVars, fileVars>>

-----------------------------------------------------------------------------
(* The end.                                                                *)

\* signal_handler calls exit, wherever main is.
Signal ==
  /\ phase \notin {"ended", "leaving", "exiting", "aborted"}
  /\ phase' = IF phase = "listening" THEN "exiting" ELSE "leaving"
  /\ UNCHANGED <<cliVars, envVars, dbVars, fileVars>>

\* my_terminate aborts; the handler of SIGABRT exits. No database was opened.
HandleAbort ==
  /\ phase = "aborted"
  /\ phase' = "leaving"
  /\ UNCHANGED <<cliVars, envVars, dbVars, fileVars>>

Forget ==
  /\ phase' = "ended"
  /\ args' = <<>> /\ i' = 1 /\ values' = Empty
  /\ env' = Missing /\ line' = 0 /\ variables' = Empty
  /\ initialized' = FALSE /\ db' = NoTables
  /\ UNCHANGED options

\* GlobalDatabase's destructor empties __transactions and saves.
Finish ==
  /\ phase \in {"leaving", "exiting"}
  /\ IF initialized
       THEN Save([t \in DOMAIN db |-> IF t = "__transactions" THEN {} ELSE db[t]])
       ELSE UNCHANGED fileVars
  /\ Forget

\* The process is killed, perhaps while it writes the file.
Kill ==
  /\ phase # "ended"
  /\ \/ UNCHANGED fileVars
     \/ /\ phase \in {"listening", "exiting", "leaving"}
        /\ initialized /\ Saveable(db)
        /\ file' = "torn" /\ saved' = NoTables
  /\ Forget

Main ==
  \/ Configure \/ InitializeDatabase
  \/ BeginTest \/ Listen \/ FailToListen
  \/ HandleAbort \/ Finish

Next == Start \/ Main \/ PersistAgent \/ RemoveAgents \/ EndTest \/ Signal \/ Kill

\* The main thread runs. Nobody has to start, signal or kill a process; the
\* request of test mode may hang.
Spec == Init /\ [][Next]_vars /\ WF_vars(Main)

-----------------------------------------------------------------------------
(* Properties.                                                             *)

\* What the command line and then the file, in this order, say of a key.
Said(key, v) ==
  \/ \E o \in options : o.long = key /\ \E j \in 1..Len(args) :
       LastNaming(j, o, Len(args)) /\ v = GivenAt(j, o)
  \/ \E o \in options : key \in Names(o) /\ v = o.default
       /\ (o.long = key => \A j \in 1..Len(args) : ~Naming(j, o))
  \/ ~Knows(key) /\ env \notin {Missing, Unreadable} /\ \E j \in 1..Len(env) :
       FirstSetting(j, Upper(key), Len(env)) /\ v = env[j].value

\* The server listens only if it was told to: every option on the command line
\* is known, the last word on test mode is no, a host and a numeric port are
\* set. A declared option hides the file's setting of its name even when the
\* command line does not mention it.
ListensAsTold ==
  phase = "listening" =>
    /\ \A j \in 1..Len(args) : args[j].form \in {"assigned", "long", "short"} => Knows(args[j].name)
    /\ \A v \in {"true", "1"} : ~Said("test", v)
    /\ \E v \in Numerals : Said("SERVER_PORT", v)
    /\ Knows("SERVER_HOST") \/ \E j \in 1..Len(env) : Sets(j, Upper("SERVER_HOST"))

\* Nothing but a request changes what is stored, unless the file is torn: not
\* a start that fails on its arguments or its settings, not test mode, not a
\* file that is loaded, flushed and saved again (initialize, shutdown), not
\* the last save of a server, whatever was stored that cannot be saved.
\* A step of a request is one of a serving process that stays in its phase.
StartKeepsData ==
  [][~(Serving /\ phase' = phase) /\ file = "whole" /\ file' # "torn" =>
       file' = "whole" /\ Agents(saved') = Agents(saved)]_vars

\* A process that was started listens, tests, or ends: no command line and no
\* file keep the two parsers for ever (CLIParser::parse, EnvParser::load), and
\* an exception nobody catches ends it too.
StartEnds == phase = "arguments" ~> phase \in {"listening", "testing", "ended"}
=============================================================================
