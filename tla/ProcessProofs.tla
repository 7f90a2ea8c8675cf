---------------------------- MODULE ProcessProofs ----------------------------
(***************************************************************************)
(* Proofs about Process and Configuration, for any options, command lines, *)
(* files of settings and documents: types, the two parsers against what    *)
(* they were given, when the server listens, and what a start may lose.    *)
(***************************************************************************)
EXTENDS Process, TLAPS

-----------------------------------------------------------------------------
(* The inductive invariant.                                                *)

\* A process has one command line and one file of settings.
InputInv ==
  /\ args \in ArgumentLists \cup {<<>>}
  /\ env \in EnvFiles \cup {Missing, Unreadable}
  /\ line \in Nat
  /\ line > 0 => env \notin {Missing, Unreadable}

OptionForms == {"assigned", "long", "short"}

\* Before the index, the last mention of an option is what is stored for it,
\* and all options are known.
OptionInv ==
  /\ DOMAIN values \subseteq {o.long : o \in options}
  /\ \A j \in 1..i - 1 : args[j].form \in OptionForms => Knows(args[j].name)
  /\ \A o \in options :
       /\ \A j \in 1..i - 1 : Naming(j, o) => o.long \in DOMAIN values
       /\ o.long \in DOMAIN values =>
            \E j \in 1..i - 1 : LastNaming(j, o, i - 1) /\ values[o.long] = GivenAt(j, o)

\* Before the line, the first setting of a key is what is stored for it.
LineInv ==
  /\ \A j \in 1..line - 1 : env[j].key # NoName => Upper(env[j].key) \in DOMAIN variables
  /\ \A key \in DOMAIN variables :
       \E j \in 1..line - 1 : FirstSetting(j, key, line - 1) /\ variables[key] = env[j].value

\* Each parser has come to its end before what follows it.
PhaseInv ==
  /\ phase \in {"environment", "lines", "configured", "loaded", "testing", "listening"} => i > Len(args)
  /\ phase = "lines" => line > 0
  /\ phase \in {"configured", "loaded", "testing", "listening"} =>
       env \in {Missing, Unreadable} \/ line > Len(env)

\* While the database is open its agents are those on disk, unless one of them
\* is a document to_bson refuses.
DataInv ==
  /\ ~initialized => db = NoTables
  /\ initialized /\ Agents(db) \cap Unsaveable = {} => Agents(db) = Agents(saved)
  /\ file # "whole" => saved = NoTables

\* A server that listens has found what it needed, and still would.
ListenInv == phase = "listening" => ~TestMode /\ HasHostAndPort

IInv == TypeOK /\ InputInv /\ OptionInv /\ LineInv /\ PhaseInv /\ DataInv /\ ListenInv

-----------------------------------------------------------------------------
(* Facts about options, arguments and databases.                           *)

\* The length of the command line, and of a file that is there.
LEMMA Lengths ==
  ASSUME InputInv
  PROVE  Len(args) \in Nat /\ (env \notin {Missing, Unreadable} => Len(env) \in Nat)
BY ArgumentAssumption, LineAssumption DEF InputInv

\* A name belongs to one option.
LEMMA OptionIs ==
  ASSUME options \in OptionSets, NEW o \in options, NEW n \in Names(o)
  PROVE  Option(n) = o /\ Knows(n)
<1>1. Option(n) \in options /\ n \in Names(Option(n))
  BY DEF Option
<1> QED BY <1>1, OptionAssumption DEF Knows

\* What is known has an option, which has a long name and a default.
LEMMA KnownOption ==
  ASSUME options \in OptionSets, NEW n, Knows(n)
  PROVE  /\ Option(n) \in options /\ n \in Names(Option(n))
         /\ Option(n).long \in Names(Option(n)) /\ Option(n).default # NoValue
<1>1. Option(n) \in options /\ n \in Names(Option(n))
  BY DEF Option, Knows
<1> QED BY <1>1, OptionAssumption DEF Names

\* Two options do not share their long name.
LEMMA LongNames ==
  ASSUME options \in OptionSets, NEW o \in options, NEW p \in options, o.long = p.long
  PROVE  o = p
BY OptionAssumption DEF Names

\* The long name of an option is one of its names.
LEMMA LongIsName ==
  ASSUME options \in OptionSets, NEW o \in options
  PROVE  o.long \in Names(o)
BY OptionAssumption DEF Names

\* The databases that are made from nothing, and what Put leaves.
LEMMA Databases ==
  /\ DefaultSchema # NoTables /\ IsDatabase(DefaultSchema)
  /\ DOMAIN NoTables = {} /\ Agents(NoTables) = {} /\ Agents(DefaultSchema) = {}
  /\ \A d : IsDatabase(d) => d # NoTables /\ DOMAIN d # {}
<1>1. DOMAIN DefaultSchema = SystemTables /\ DOMAIN NoTables = {}
  BY DEF DefaultSchema, NoTables
<1>2. "agents" \notin SystemTables /\ "__metadata" \in SystemTables
  BY DEF SystemTables
<1>3. \A d : IsDatabase(d) => "__metadata" \in DOMAIN d
  BY <1>2 DEF IsDatabase
<1> QED BY <1>1, <1>2, <1>3 DEF IsDatabase, Agents, DefaultSchema

-----------------------------------------------------------------------------
(* The command line.                                                       *)

\* A turn that stores a value: n arguments are consumed, and v is what the
\* command line gives the option at the index.
Stores(v, n) ==
  /\ phase = "arguments" /\ i <= Len(args) /\ Current.form \in OptionForms /\ Knows(Current.name)
  /\ v = GivenAt(i, Option(Current.name)) /\ v # NoValue
  /\ n = 1 \/ (n = 2 /\ i < Len(args) /\ args[i + 1].form = "word")
  /\ StoreAndSkip(v, n)

\* Every turn that stores a value is such a turn.
LEMMA StoringSteps ==
  ASSUME TypeOK, InputInv, Assign \/ SetFlag \/ TakeRest \/ TakeNext
  PROVE  \E v : \E n \in {1, 2} : Stores(v, n)
<1>1. Len(args) \in Nat /\ i \in 1..Len(args) + 1
  BY Lengths DEF TypeOK
<1>2. \A j \in 1..Len(args) : args[j].form \in {"word", "assigned"} => args[j].value # NoValue
  BY ArgumentAssumption DEF InputInv
<1>3. CASE Assign
  <2>1. Stores(Current.value, 1)
    BY <1>1, <1>2, <1>3 DEF Assign, Stores, Parsing, GivenAt, Current, OptionForms
  <2> QED BY <2>1
<1>4. CASE SetFlag
  <2>1. Stores("true", 1)
    BY <1>1, <1>4, ValueAssumption DEF SetFlag, Stores, Parsing, GivenAt, Current, OptionForms
  <2> QED BY <2>1
<1>5. CASE TakeRest
  <2>1. Stores(Current.value, 1)
    BY <1>1, <1>5 DEF TakeRest, NeedsValue, Stores, Parsing, GivenAt, Current, OptionForms
  <2> QED BY <2>1
<1>6. CASE TakeNext
  <2>1. args[i + 1].value # NoValue
    BY <1>1, <1>2, <1>6 DEF TakeNext, ValueFollows
  <2>2. Stores(args[i + 1].value, 2)
    BY <1>1, <1>6, <2>1 DEF TakeNext, NeedsValue, ValueFollows, Stores, Parsing, GivenAt, Current,
       OptionForms
  <2> QED BY <2>2
<1> QED BY <1>3, <1>4, <1>5, <1>6

\* Such a turn keeps the last mentions where they belong.
LEMMA StoresKeep ==
  ASSUME TypeOK, InputInv, OptionInv, NEW v, NEW n \in {1, 2}, Stores(v, n)
  PROVE  /\ OptionInv'
         /\ i' \in 1..Len(args) + 1
         /\ \A k \in DOMAIN values' : Knows(k) /\ values'[k] # NoValue
<1> DEFINE o0 == Option(Current.name)
<1>1. /\ options \in OptionSets /\ Len(args) \in Nat /\ i \in 1..Len(args)
      /\ UNCHANGED <<options, args>> /\ i' = i + n
      /\ values' = Put(values, o0.long, v)
      /\ v = GivenAt(i, o0) /\ v # NoValue
    BY Lengths DEF TypeOK, Stores, StoreAndSkip
<1>2. o0 \in options /\ Current.name \in Names(o0)
  BY <1>1, KnownOption DEF Stores
<1>3. Naming(i, o0) /\ \A o \in options : Naming(i, o) => o = o0
  BY <1>1, <1>2, OptionIs DEF Stores, Naming, Current, OptionForms
<1>4. n = 2 => i + 1 <= Len(args) /\ args[i + 1].form = "word"
  BY <1>1 DEF Stores
<1>5. n = 2 => \A o \in options : ~Naming(i + 1, o)
  BY <1>4 DEF Naming
<1> HIDE DEF o0
<1>6. /\ DOMAIN values' = DOMAIN values \cup {o0.long} /\ values'[o0.long] = v
      /\ \A k \in DOMAIN values : k # o0.long => values'[k] = values[k]
  BY <1>1 DEF Put
<1>7. \A j \in 1..i' - 1 : j \in 1..i - 1 \/ j = i \/ (n = 2 /\ j = i + 1)
  BY <1>1
<1>8. i' \in 1..Len(args) + 1
  BY <1>1, <1>4
<1>9. \A k \in DOMAIN values' : Knows(k) /\ values'[k] # NoValue
  <2>1. Knows(o0.long)
    BY <1>1, <1>2, LongIsName DEF Knows
  <2> QED BY <1>1, <1>6, <2>1 DEF TypeOK
<1>10. \A j, o : Naming(j, o)' = Naming(j, o)
  BY <1>1 DEF Naming
<1>11. \A j, o : GivenAt(j, o)' = GivenAt(j, o)
  BY <1>1 DEF GivenAt
<1>12. \A j \in 1..i' - 1 : args'[j].form \in OptionForms => Knows(args[j].name)'
  <2>1. \A j \in 1..i' - 1 : args[j].form \in OptionForms => Knows(args[j].name)
    <3>1. Knows(args[i].name)
      BY DEF Stores, Current
    <3>2. n = 2 => args[i + 1].form \notin OptionForms
      BY <1>4 DEF OptionForms
    <3> QED BY <1>7, <3>1, <3>2 DEF OptionInv
  <2>2. \A k : Knows(k) => Knows(k)'
    BY <1>1 DEF Knows
  <2> QED BY <1>1, <2>1, <2>2
<1>13. ASSUME NEW o \in options, NEW j \in 1..i' - 1, Naming(j, o)
       PROVE  o.long \in DOMAIN values'
  BY <1>3, <1>5, <1>6, <1>7, <1>13 DEF OptionInv
<1>14. LastNaming(i, o0, i' - 1)
  <2>1. \A k \in i + 1..i' - 1 : n = 2 /\ k = i + 1
    BY <1>1
  <2> QED BY <1>1, <1>2, <1>3, <1>5, <2>1 DEF LastNaming
<1>15. ASSUME NEW o \in options, o.long \in DOMAIN values'
       PROVE  \E j \in 1..i' - 1 : LastNaming(j, o, i' - 1) /\ values'[o.long] = GivenAt(j, o)
  <2>1. CASE o = o0
    BY <1>1, <1>6, <1>14, <2>1
  <2>2. CASE o # o0
    <3>1. o.long # o0.long
      BY <1>1, <1>2, <2>2, LongNames
    <3>2. PICK j \in 1..i - 1 : LastNaming(j, o, i - 1) /\ values[o.long] = GivenAt(j, o)
      BY <1>6, <1>15, <3>1 DEF OptionInv
    <3>3. \A k \in j + 1..i' - 1 : k \in j + 1..i - 1 \/ k = i \/ (n = 2 /\ k = i + 1)
      BY <1>1, <3>2
    <3>4. LastNaming(j, o, i' - 1)
      BY <1>1, <1>3, <1>5, <2>2, <3>2, <3>3 DEF LastNaming
    <3>5. values'[o.long] = values[o.long]
      BY <1>6, <1>15, <3>1
    <3> QED BY <1>1, <3>2, <3>4, <3>5
  <2> QED BY <2>1, <2>2
<1>16. \A j, o, m : LastNaming(j, o, m)' = LastNaming(j, o, m)
  BY <1>10 DEF LastNaming
<1>17. DOMAIN values' \subseteq {o.long : o \in options'}
  BY <1>1, <1>2, <1>6 DEF OptionInv
<1>18. PICK m : m = i' - 1
  OBVIOUS
<1>19. \A o \in options' :
        /\ \A j \in 1..m : Naming(j, o)' => o.long \in DOMAIN values'
        /\ o.long \in DOMAIN values' =>
             \E j \in 1..m : LastNaming(j, o, m)' /\ values'[o.long] = GivenAt(j, o)'
  BY <1>1, <1>10, <1>11, <1>13, <1>15, <1>16, <1>18
<1>20. OptionInv'
  BY <1>12, <1>17, <1>18, <1>19 DEF OptionInv
<1> QED BY <1>8, <1>9, <1>20

\* The steps that leave the command line's parser alone, and those that start
\* it anew.
LEMMA OtherSteps ==
  ASSUME [Next]_vars, ~SkipArgument, ~(Assign \/ SetFlag \/ TakeRest \/ TakeNext)
  PROVE  UNCHANGED cliVars \/ (i' = 1 /\ values' = Empty)
BY DEF Next, Start, Begin, Main, Configure, ParseStep, LoadStep, RefuseArgument, RefuseLine, Abort,
   EndOfArguments, NoFile, OpenFile, ReadLine, EndOfFile, InitializeDatabase, BeginTest, Listen,
   FailToListen, HandleAbort, Finish, Forget, PersistAgent, RemoveAgents, EndTest, Signal, Kill,
   configVars, vars

\* Every step keeps the last mentions where they belong.
LEMMA OptionStep == TypeOK /\ InputInv /\ OptionInv /\ [Next]_vars => OptionInv'
<1> SUFFICES ASSUME TypeOK, InputInv, OptionInv, [Next]_vars
             PROVE  OptionInv'
  OBVIOUS
<1>1. CASE Assign \/ SetFlag \/ TakeRest \/ TakeNext
  BY <1>1, StoringSteps, StoresKeep
<1>2. CASE SkipArgument
  <2>1. /\ UNCHANGED <<options, args, values>> /\ i' = i + 1 /\ i \in Nat
        /\ args[i].form \in {"word", "dash"}
    BY <1>2, Lengths DEF SkipArgument, Parsing, Current, TypeOK
  <2>2. \A j \in 1..i' - 1 : j \in 1..i - 1 \/ j = i
    BY <2>1
  <2>3. \A o : ~Naming(i, o)
    BY <2>1 DEF Naming
  <2>4. /\ \A j, o : Naming(j, o)' = Naming(j, o) /\ GivenAt(j, o)' = GivenAt(j, o)
        /\ \A k : Knows(k)' = Knows(k)
    BY <2>1 DEF Naming, GivenAt, Knows
  <2>5. \A o \in options : \A j \in 1..i - 1 : LastNaming(j, o, i - 1) => LastNaming(j, o, i)
    <3>1. \A j \in 1..i - 1 : \A k \in j + 1..i : k \in j + 1..i - 1 \/ k = i
      BY <2>1
    <3> QED BY <2>1, <2>3, <3>1 DEF LastNaming
  <2>6. \A j, o, m : LastNaming(j, o, m)' = LastNaming(j, o, m)
    BY <2>4 DEF LastNaming
  <2>7. PICK m : m = i' - 1 /\ m = i
    BY <2>1
  <2>8. \A o \in options :
          /\ \A j \in 1..m : Naming(j, o)' => o.long \in DOMAIN values
          /\ o.long \in DOMAIN values =>
               \E j \in 1..m : LastNaming(j, o, m)' /\ values[o.long] = GivenAt(j, o)'
    BY <2>1, <2>2, <2>3, <2>4, <2>5, <2>6, <2>7 DEF OptionInv
  <2>9. \A j \in 1..m : args[j].form \in OptionForms => Knows(args[j].name)'
    BY <2>1, <2>2, <2>4, <2>7 DEF OptionInv, OptionForms
  <2> QED BY <2>1, <2>7, <2>8, <2>9 DEF OptionInv
<1>3. CASE UNCHANGED cliVars
  BY <1>3 DEF cliVars, OptionInv, LastNaming, Naming, GivenAt, Knows
<1>4. CASE i' = 1 /\ values' = Empty
  BY <1>4 DEF OptionInv, Empty
<1> QED BY <1>1, <1>2, <1>3, <1>4, OtherSteps

-----------------------------------------------------------------------------
(* The file of settings.                                                   *)

\* Every step keeps the first settings where they belong.
LEMMA LineStep == InputInv /\ PhaseInv /\ LineInv /\ [Next]_vars => LineInv'
<1> SUFFICES ASSUME InputInv, PhaseInv, LineInv, [Next]_vars
             PROVE  LineInv'
  OBVIOUS
<1>1. CASE UNCHANGED envVars
  BY <1>1 DEF envVars, LineInv, FirstSetting, Sets
<1>2. CASE variables' = Empty /\ line' \in {0, 1}
  BY <1>2 DEF LineInv, Empty
<1>3. CASE ReadLine
  <2>1. /\ line \in Nat /\ line > 0 /\ line' = line + 1 /\ env' = env
        /\ variables' = IF env[line].key = NoName \/ Upper(env[line].key) \in DOMAIN variables
                          THEN variables
                          ELSE Put(variables, Upper(env[line].key), env[line].value)
    BY <1>3 DEF ReadLine, InputInv, PhaseInv
  <2>2. \A j \in 1..line : j \in 1..line - 1 \/ j = line
    BY <2>1
  <2>3. DOMAIN variables \subseteq DOMAIN variables'
        /\ \A k \in DOMAIN variables : variables'[k] = variables[k]
    BY <2>1 DEF Put
  <2>4. env[line].key # NoName => Upper(env[line].key) \in DOMAIN variables'
    BY <2>1 DEF Put
  <2>5. \A j \in 1..line : env[j].key # NoName => Upper(env[j].key) \in DOMAIN variables'
    BY <2>2, <2>3, <2>4 DEF LineInv
  <2>6. ASSUME NEW k \in DOMAIN variables
        PROVE  \E j \in 1..line : FirstSetting(j, k, line) /\ variables'[k] = env[j].value
    <3>1. PICK j \in 1..line - 1 : FirstSetting(j, k, line - 1) /\ variables[k] = env[j].value
      BY <2>6 DEF LineInv
    <3> QED BY <2>1, <2>3, <2>6, <3>1 DEF FirstSetting
  <2>7. ASSUME NEW k \in DOMAIN variables', k \notin DOMAIN variables
        PROVE  \E j \in 1..line : FirstSetting(j, k, line) /\ variables'[k] = env[j].value
    <3>1. Sets(line, k) /\ variables'[k] = env[line].value
      BY <2>1, <2>7 DEF Put, Sets
    <3>2. \A j \in 1..line - 1 : ~Sets(j, k)
      BY <2>7 DEF LineInv, Sets
    <3> QED BY <2>1, <3>1, <3>2 DEF FirstSetting
  <2>8. \A j, k, m : FirstSetting(j, k, m)' = FirstSetting(j, k, m)
    BY <2>1 DEF FirstSetting, Sets
  <2>9. PICK m : m = line' - 1 /\ m = line
    BY <2>1
  <2>10. \A k \in DOMAIN variables' :
           \E j \in 1..m : FirstSetting(j, k, m)' /\ variables'[k] = env[j].value
    BY <2>6, <2>7, <2>8, <2>9
  <2> QED BY <2>1, <2>5, <2>9, <2>10 DEF LineInv
<1>4. ASSUME ~ReadLine
      PROVE  UNCHANGED envVars \/ (variables' = Empty /\ line' \in {0, 1})
  BY <1>4 DEF Next, Start, Begin, Main, Configure, ParseStep, LoadStep, SkipArgument, Assign, SetFlag,
     TakeRest, TakeNext, StoreAndSkip, RefuseArgument, RefuseLine, Abort, EndOfArguments, NoFile,
     OpenFile, EndOfFile, InitializeDatabase, BeginTest, Listen, FailToListen, HandleAbort, Finish,
     Forget, PersistAgent, RemoveAgents, EndTest, Signal, Kill, configVars, envVars, vars
<1> QED BY <1>1, <1>2, <1>3, <1>4

\* A process keeps its inputs, and the parsers come in their order.
LEMMA PhaseStep == TypeOK /\ InputInv /\ PhaseInv /\ [Next]_vars => InputInv' /\ PhaseInv'
<1> SUFFICES ASSUME TypeOK, InputInv, PhaseInv, [Next]_vars
             PROVE  InputInv' /\ PhaseInv'
  OBVIOUS
<1>1. Len(args) \in Nat /\ i \in 1..Len(args) + 1
  BY Lengths DEF TypeOK
<1> USE DEF InputInv, PhaseInv, cliVars, envVars, configVars
<1>2. CASE Start
  BY <1>2 DEF Start, Begin
<1>3. CASE Finish \/ Kill
  BY <1>3 DEF Finish, Kill, Forget
<1>4. CASE SkipArgument \/ Assign \/ SetFlag \/ TakeRest \/ TakeNext
  <2>1. phase = "arguments" /\ UNCHANGED <<phase, args, envVars>>
    BY <1>4 DEF SkipArgument, Assign, SetFlag, TakeRest, TakeNext, StoreAndSkip, Parsing
  <2> QED BY <2>1
<1>5. CASE RefuseArgument \/ RefuseLine \/ EndOfArguments
  BY <1>1, <1>5 DEF RefuseArgument, RefuseLine, Abort, EndOfArguments
<1>6. CASE NoFile \/ OpenFile
  BY <1>6 DEF NoFile, OpenFile
<1>7. CASE ReadLine \/ EndOfFile
  BY <1>7, Lengths DEF ReadLine, EndOfFile
<1>8. CASE InitializeDatabase \/ BeginTest \/ Listen \/ FailToListen \/ EndTest \/ HandleAbort \/ Signal
  BY <1>8 DEF InitializeDatabase, BeginTest, Listen, FailToListen, EndTest, HandleAbort, Signal
<1>9. CASE PersistAgent \/ RemoveAgents
  BY <1>9 DEF PersistAgent, RemoveAgents
<1>10. CASE UNCHANGED vars
  BY <1>10 DEF vars
<1> QED BY <1>2, <1>3, <1>4, <1>5, <1>6, <1>7, <1>8, <1>9, <1>10
        DEF Next, Main, Configure, ParseStep, LoadStep

-----------------------------------------------------------------------------
(* The database.                                                           *)

\* What a request stores is a database, on disk if it can be saved.
LEMMA RequestStores ==
  ASSUME IsDatabase(db), PersistAgent \/ RemoveAgents
  PROVE  /\ IsDatabase(db') /\ UNCHANGED <<configVars, initialized>>
         /\ \/ saved' = db' /\ file' = "whole"
            \/ UNCHANGED fileVars /\ Agents(db') \cap Unsaveable # {}
<1>1. "agents" \notin SystemTables
  BY DEF SystemTables
<1>2. CASE PersistAgent
  <2>1. PICK a \in Documents :
          db' = [t \in DOMAIN db \cup {"agents"} |->
                   IF t = "agents" THEN Agents(db) \cup {a} ELSE db[t]]
    BY <1>2 DEF PersistAgent
  <2>2. DOMAIN db' = DOMAIN db \cup {"agents"} /\ db'["agents"] = Agents(db) \cup {a}
        /\ \A t \in SystemTables : db'[t] = db[t]
    BY <1>1, <2>1 DEF IsDatabase
  <2>3. IsDatabase(db')
    BY <2>2 DEF IsDatabase, Agents
  <2> QED BY <1>2, <2>3, Databases DEF PersistAgent, Save, Saveable
<1>3. CASE RemoveAgents
  <2>1. db' = [t \in DOMAIN db |-> IF t = "agents" THEN {} ELSE db[t]]
    BY <1>3 DEF RemoveAgents
  <2>2. DOMAIN db' = DOMAIN db /\ Agents(db') = {} /\ \A t \in SystemTables : db'[t] = db[t]
    BY <1>1, <2>1 DEF IsDatabase, Agents
  <2>3. IsDatabase(db')
    BY <2>2 DEF IsDatabase
  <2> QED BY <1>3, <2>3, Databases DEF RemoveAgents, Save, Saveable
<1> QED BY <1>2, <1>3

\* The last save has the agents, or fails and leaves the file as it is.
LEMMA LastSave ==
  ASSUME Finish, initialized, IsDatabase(db)
  PROVE  \/ /\ Agents(db) \cap Unsaveable = {}
            /\ file' = "whole" /\ IsDatabase(saved') /\ Agents(saved') = Agents(db)
         \/ UNCHANGED fileVars
<1> DEFINE d == [t \in DOMAIN db |-> IF t = "__transactions" THEN {} ELSE db[t]]
<1>1. DOMAIN d = DOMAIN db /\ Agents(d) = Agents(db) /\ \A t \in SystemTables : d[t] = {}
  BY DEF IsDatabase, Agents
<1>2. IsDatabase(d)
  BY <1>1 DEF IsDatabase
<1>3. Save(d)
  BY DEF Finish
<1> HIDE DEF d
<1> QED BY <1>1, <1>2, <1>3, Databases DEF Save, Saveable

\* Every step keeps the types.
LEMMA TypeStep ==
  TypeOK /\ InputInv /\ OptionInv /\ PhaseInv /\ DataInv /\ [Next]_vars => TypeOK'
<1> SUFFICES ASSUME TypeOK, InputInv, OptionInv, PhaseInv, DataInv, [Next]_vars
             PROVE  TypeOK'
  OBVIOUS
<1>1. Len(args) \in Nat /\ line \in Nat
  BY Lengths DEF InputInv
<1>2. /\ i' \in 1..Len(args') + 1
      /\ \A n \in DOMAIN values' : Knows(n)' /\ values'[n] # NoValue
  <2>1. CASE Assign \/ SetFlag \/ TakeRest \/ TakeNext
    <3>1. /\ i' \in 1..Len(args) + 1
          /\ \A n \in DOMAIN values' : Knows(n) /\ values'[n] # NoValue
      BY <2>1, StoringSteps, StoresKeep
    <3>2. UNCHANGED <<options, args>>
      BY <2>1 DEF Assign, SetFlag, TakeRest, TakeNext, StoreAndSkip
    <3> QED BY <3>1, <3>2 DEF Knows
  <2>2. CASE SkipArgument
    BY <1>1, <2>2 DEF SkipArgument, Parsing, TypeOK, Knows
  <2>3. CASE UNCHANGED cliVars
    BY <2>3 DEF cliVars, TypeOK, Knows
  <2>4. CASE i' = 1 /\ values' = Empty
    <3>1. Len(args') \in Nat
      BY PhaseStep, ArgumentAssumption DEF InputInv
    <3> QED BY <2>4, <3>1 DEF Empty
  <2> QED BY <2>1, <2>2, <2>3, <2>4, OtherSteps
<1> DEFINE Rest ==
             /\ phase \in Phases
             /\ options \in OptionSets
             /\ line > 0 => line \in 1..Len(env) + 1
             /\ file \in {"absent", "torn", "whole"}
             /\ initialized <=>
                  \/ phase \in {"loaded", "testing", "listening", "exiting"}
                  \/ phase = "leaving" /\ db # NoTables
             /\ initialized => IsDatabase(db)
             /\ file = "whole" => IsDatabase(saved)
<1>3. Rest'
  <2> USE DEF Phases, cliVars, envVars, configVars, dbVars, fileVars, TypeOK
  <2>1. CASE Start
    BY <2>1 DEF Start, Begin, IsDatabase, Agents
  <2>2. CASE Configure
    <3>1. UNCHANGED <<dbVars, fileVars, options>> /\ phase \in {"arguments", "environment", "lines"}
          /\ phase' \in {"arguments", "environment", "lines", "configured", "aborted"}
      BY <2>2 DEF Configure, ParseStep, LoadStep, SkipArgument, Assign, SetFlag, TakeRest, TakeNext,
         StoreAndSkip, RefuseArgument, RefuseLine, Abort, EndOfArguments, NoFile, OpenFile, ReadLine,
         EndOfFile, Parsing
    <3>2. CASE UNCHANGED <<env, line>>
      BY <3>1, <3>2
    <3>3. CASE OpenFile
      BY <1>1, <3>1, <3>3, Lengths DEF OpenFile
    <3>4. CASE ReadLine
      BY <1>1, <3>1, <3>4, Lengths DEF ReadLine, InputInv, PhaseInv
    <3>5. UNCHANGED <<env, line>> \/ OpenFile \/ ReadLine
      BY <2>2 DEF Configure, ParseStep, LoadStep, SkipArgument, Assign, SetFlag, TakeRest, TakeNext,
         StoreAndSkip, RefuseArgument, RefuseLine, Abort, EndOfArguments, NoFile, EndOfFile
    <3> QED BY <3>2, <3>3, <3>4, <3>5
  <2>3. CASE InitializeDatabase
    BY <2>3, Databases DEF InitializeDatabase
  <2>4. CASE PersistAgent \/ RemoveAgents
    BY <2>4, RequestStores, Databases DEF Serving, PersistAgent, RemoveAgents
  <2>5. CASE BeginTest \/ Listen \/ FailToListen \/ EndTest \/ HandleAbort \/ Signal
    BY <2>5, Databases DEF BeginTest, Listen, FailToListen, EndTest, HandleAbort, Signal, DataInv
  <2>6. CASE Finish
    <3>1. UNCHANGED options /\ phase' = "ended" /\ line' = 0 /\ initialized' = FALSE
      BY <2>6 DEF Finish, Forget
    <3>2. (file' = "whole" /\ IsDatabase(saved')) \/ UNCHANGED fileVars
      BY <2>6, LastSave DEF Finish
    <3> QED BY <3>1, <3>2
  <2>7. CASE Kill
    BY <2>7 DEF Kill, Forget
  <2>8. CASE UNCHANGED vars
    BY <2>8 DEF vars
  <2> QED BY <2>1, <2>2, <2>3, <2>4, <2>5, <2>6, <2>7, <2>8 DEF Next, Main
<1> QED BY <1>2, <1>3 DEF TypeOK

\* Every step keeps the open database and the file together.
LEMMA DataStep == TypeOK /\ DataInv /\ [Next]_vars => DataInv'
<1> SUFFICES ASSUME TypeOK, DataInv, [Next]_vars
             PROVE  DataInv'
  OBVIOUS
<1> USE DEF DataInv, dbVars, fileVars, configVars
<1>1. CASE Start
  BY <1>1 DEF Start, Begin
<1>2. CASE UNCHANGED <<dbVars, fileVars>>
  BY <1>2 DEF Agents
<1>3. CASE InitializeDatabase
  BY <1>3, Databases DEF InitializeDatabase, Agents
<1>4. CASE PersistAgent \/ RemoveAgents
  BY <1>4, RequestStores DEF PersistAgent, RemoveAgents, Serving, TypeOK
<1>5. CASE Finish
  BY <1>5, LastSave DEF Finish, Forget, TypeOK
<1>6. CASE Kill
  BY <1>6 DEF Kill, Forget
<1>7. ASSUME Configure \/ BeginTest \/ Listen \/ FailToListen \/ EndTest \/ HandleAbort \/ Signal
             \/ UNCHANGED vars
      PROVE  UNCHANGED <<dbVars, fileVars>>
  BY <1>7 DEF Configure, BeginTest, Listen, FailToListen, EndTest, HandleAbort, Signal, vars
<1> QED BY <1>1, <1>2, <1>3, <1>4, <1>5, <1>6, <1>7 DEF Next, Main

\* Every step keeps what a server has found: its settings do not change.
LEMMA ListenStep == ListenInv /\ [Next]_vars => ListenInv'
<1> SUFFICES ASSUME ListenInv, [Next]_vars, phase' = "listening"
             PROVE  (~TestMode /\ HasHostAndPort)'
  BY DEF ListenInv
<1>1. \/ Listen
      \/ phase = "listening" /\ UNCHANGED configVars
  BY DEF Next, Start, Begin, Main, Configure, ParseStep, LoadStep, SkipArgument, Assign, SetFlag,
     TakeRest, TakeNext, StoreAndSkip, Parsing, RefuseArgument, RefuseLine, Abort, EndOfArguments,
     NoFile, OpenFile, ReadLine, EndOfFile, InitializeDatabase, BeginTest, FailToListen, HandleAbort,
     Finish, Forget, PersistAgent, RemoveAgents, EndTest, Signal, Kill, configVars, vars
<1>2. UNCHANGED <<cliVars, envVars>> /\ ~TestMode /\ HasHostAndPort
  BY <1>1 DEF Listen, configVars, ListenInv
<1>3. \A key : CliValue(key)' = CliValue(key)
  BY <1>2 DEF cliVars, CliValue, Knows, Option
<1>4. \A key : Lookup(key)' = Lookup(key)
  BY <1>2, <1>3 DEF envVars, Lookup
<1> QED BY <1>2, <1>4 DEF TestMode, HasHostAndPort, HasInteger

-----------------------------------------------------------------------------
(* The theorems.                                                           *)

\* Before a process is started there is nothing that could be wrong.
LEMMA InitIInv == Init => IInv
<1> SUFFICES ASSUME Init PROVE IInv
  OBVIOUS
<1>1. TypeOK
  BY DEF Init, TypeOK, Phases, Empty
<1>2. InputInv /\ PhaseInv
  BY DEF Init, InputInv, PhaseInv
<1>3. OptionInv /\ LineInv
  BY DEF Init, OptionInv, LineInv, Empty
<1>4. DataInv
  BY DEF Init, DataInv
<1>5. ListenInv
  BY DEF Init, ListenInv
<1> QED BY <1>1, <1>2, <1>3, <1>4, <1>5 DEF IInv

\* The inductive invariant holds of every process and its successors.
THEOREM InductiveInvariant == Spec => []IInv
<1>1. IInv /\ [Next]_vars => IInv'
  BY TypeStep, PhaseStep, OptionStep, LineStep, DataStep, ListenStep DEF IInv
<1> QED BY InitIInv, <1>1, PTL DEF Spec

\* Every variable of main, the two parsers and the database keeps its type.
THEOREM TypeCorrect == Spec => []TypeOK
<1>1. IInv => TypeOK
  BY DEF IInv
<1> QED BY <1>1, InductiveInvariant, PTL

\* What both parsers have stored is what they were given so far.
LEMMA SettingsHold ==
  ASSUME TypeOK, InputInv, OptionInv, LineInv
  PROVE  SettingsAreAsGiven
<1>1. i \in Nat /\ line \in Nat
  BY Lengths DEF TypeOK, InputInv
<1>2. ASSUME NEW o \in options
      PROVE  /\ o.long \in DOMAIN values <=> \E j \in 1..i - 1 : Naming(j, o)
             /\ \A j \in 1..i - 1 : LastNaming(j, o, i - 1) => values[o.long] = GivenAt(j, o)
  <2>1. o.long \in DOMAIN values <=> \E j \in 1..i - 1 : Naming(j, o)
    BY DEF OptionInv, LastNaming
  <2>2. ASSUME NEW j \in 1..i - 1, LastNaming(j, o, i - 1)
        PROVE  values[o.long] = GivenAt(j, o)
    <3>1. PICK k \in 1..i - 1 : LastNaming(k, o, i - 1) /\ values[o.long] = GivenAt(k, o)
      BY <2>1, <2>2 DEF OptionInv, LastNaming
    <3>2. ~(j < k) /\ ~(k < j)
      BY <1>1, <2>2, <3>1 DEF LastNaming
    <3> QED BY <1>1, <3>1, <3>2
  <2> QED BY <2>1, <2>2
<1>3. LastOptionWins
  BY <1>2 DEF LastOptionWins
<1>4. ASSUME NEW j \in 1..line - 1, env[j].key # NoName,
             FirstSetting(j, Upper(env[j].key), line - 1)
      PROVE  /\ Upper(env[j].key) \in DOMAIN variables
             /\ variables[Upper(env[j].key)] = env[j].value
  <2>1. Upper(env[j].key) \in DOMAIN variables
    BY <1>4 DEF LineInv
  <2>2. PICK k \in 1..line - 1 : /\ FirstSetting(k, Upper(env[j].key), line - 1)
                                 /\ variables[Upper(env[j].key)] = env[k].value
    BY <2>1 DEF LineInv
  <2>3. ~(j < k) /\ ~(k < j)
    BY <1>1, <1>4, <2>2 DEF FirstSetting
  <2> QED BY <1>1, <2>1, <2>2, <2>3
<1>5. \A key \in DOMAIN variables : \E j \in 1..line - 1 : Sets(j, key)
  BY DEF LineInv, FirstSetting
<1>6. FirstLineWins
  BY <1>4, <1>5 DEF FirstLineWins
<1> QED BY <1>3, <1>6 DEF SettingsAreAsGiven

\* CLIParser::parse and EnvParser::load keep, at every step and for any options
\* and files, the last mention of an option and the first setting of a key.
THEOREM SettingsAlwaysAsGiven == Spec => []SettingsAreAsGiven
<1>1. IInv => SettingsAreAsGiven
  BY SettingsHold DEF IInv
<1> QED BY <1>1, InductiveInvariant, PTL

\* Behind the parsers, whatever is said is what get finds.
LEMMA SaidIsLookedUp ==
  ASSUME IInv, phase \in {"loaded", "testing", "listening"}, NEW key, NEW v, v # NoValue, Said(key, v)
  PROVE  Lookup(key) = v
<1>1. /\ i = Len(args) + 1 /\ Len(args) \in Nat /\ options \in OptionSets
      /\ \A n \in DOMAIN values : Knows(n)
  BY Lengths DEF IInv, TypeOK, PhaseInv
<1>2. LastOptionWins /\ (line > 0 => FirstLineWins)
  BY SettingsHold DEF IInv, SettingsAreAsGiven
<1>3. ASSUME NEW o \in options, o.long = key, NEW j \in 1..Len(args), LastNaming(j, o, Len(args)),
             v = GivenAt(j, o)
      PROVE  CliValue(key) = v
  <2>1. i - 1 = Len(args)
    BY <1>1
  <2>2. key \in DOMAIN values /\ values[key] = v
    BY <1>2, <1>3, <2>1 DEF LastOptionWins, LastNaming
  <2> QED BY <2>2 DEF CliValue
<1>4. ASSUME NEW o \in options, key \in Names(o), v = o.default,
             o.long = key => \A j \in 1..Len(args) : ~Naming(j, o)
      PROVE  CliValue(key) = v
  <2>1. Option(key) = o /\ Knows(key)
    BY <1>1, <1>4, OptionIs
  <2>2. ASSUME key \in DOMAIN values
        PROVE  FALSE
    <3>1. PICK p \in options : p.long = key
      BY <2>2 DEF IInv, OptionInv
    <3>2. p = o
      BY <1>1, <1>4, <3>1, LongIsName, OptionIs
    <3>3. i - 1 = Len(args)
      BY <1>1
    <3> QED BY <1>2, <1>4, <2>2, <3>1, <3>2, <3>3 DEF LastOptionWins
  <2> QED BY <1>4, <2>1, <2>2 DEF CliValue
<1>5. ASSUME ~Knows(key), env \notin {Missing, Unreadable}, NEW j \in 1..Len(env),
             FirstSetting(j, Upper(key), Len(env)), v = env[j].value
      PROVE  Lookup(key) = v
  <2>1. CliValue(key) = NoValue
    BY <1>1, <1>5 DEF CliValue
  <2>2. line - 1 = Len(env) /\ line > 0 /\ Len(env) \in Nat
    BY <1>5, Lengths DEF IInv, TypeOK, InputInv, PhaseInv
  <2>3. Upper(key) = Upper(env[j].key) /\ env[j].key # NoName
    BY <1>5 DEF FirstSetting, Sets
  <2>4. Upper(key) \in DOMAIN variables /\ variables[Upper(key)] = v
    BY <1>2, <1>5, <2>2, <2>3 DEF FirstLineWins
  <2> QED BY <2>1, <2>4 DEF Lookup
<1> QED BY <1>3, <1>4, <1>5 DEF Said, Lookup

\* And whatever get finds has been said.
LEMMA LookedUpIsSaid ==
  ASSUME IInv, phase \in {"loaded", "testing", "listening"}, NEW key, Lookup(key) # NoValue
  PROVE  Said(key, Lookup(key))
<1>1. /\ i = Len(args) + 1 /\ Len(args) \in Nat /\ options \in OptionSets
      /\ \A n \in DOMAIN values : Knows(n) /\ values[n] # NoValue
  BY Lengths DEF IInv, TypeOK, PhaseInv
<1>2. CASE key \in DOMAIN values
  <2>1. Lookup(key) = values[key]
    BY <1>1, <1>2 DEF Lookup, CliValue
  <2>2. PICK o \in options : o.long = key
    BY <1>2 DEF IInv, OptionInv
  <2>3. i - 1 = Len(args)
    BY <1>1
  <2> QED BY <1>2, <2>1, <2>2, <2>3 DEF IInv, OptionInv, Said
<1>3. CASE key \notin DOMAIN values /\ Knows(key)
  <2>1. /\ Option(key) \in options /\ key \in Names(Option(key))
        /\ Lookup(key) = Option(key).default
    BY <1>1, <1>3, KnownOption DEF Lookup, CliValue
  <2>2. i - 1 = Len(args)
    BY <1>1
  <2>3. Option(key).long = key => \A j \in 1..Len(args) : ~Naming(j, Option(key))
    BY <1>3, <2>1, <2>2 DEF IInv, OptionInv
  <2> QED BY <2>1, <2>3 DEF Said
<1>4. CASE key \notin DOMAIN values /\ ~Knows(key)
  <2>1. Upper(key) \in DOMAIN variables /\ Lookup(key) = variables[Upper(key)]
    BY <1>4 DEF Lookup, CliValue
  <2>2. PICK j \in 1..line - 1 : /\ FirstSetting(j, Upper(key), line - 1)
                                 /\ variables[Upper(key)] = env[j].value
    BY <2>1 DEF IInv, LineInv
  <2>3. env \notin {Missing, Unreadable} /\ line - 1 = Len(env)
    BY <2>2, Lengths DEF IInv, TypeOK, InputInv, PhaseInv
  <2> QED BY <1>4, <2>1, <2>2, <2>3 DEF Said
<1> QED BY <1>2, <1>3, <1>4

\* AppConfig::get finds, of any key, what the command line and the file say of
\* it, and nothing else.
GetFindsWhatIsSaid ==
  phase \in {"loaded", "testing", "listening"} =>
    \A key : /\ \A v : v # NoValue /\ Said(key, v) => Lookup(key) = v
             /\ Lookup(key) # NoValue => Said(key, Lookup(key))

\* Once main has its settings, get finds what was said, under any of a key's
\* names and in any case (CLIParser::get, EnvParser::get, AppConfig::get).
THEOREM GetAlwaysFindsWhatIsSaid == Spec => []GetFindsWhatIsSaid
<1>1. IInv => GetFindsWhatIsSaid
  BY SaidIsLookedUp, LookedUpIsSaid DEF GetFindsWhatIsSaid
<1> QED BY <1>1, InductiveInvariant, PTL

\* The server listens only when its settings, the last word of the command line
\* and the first of the file, say so (main, AppConfig::get, Server::run).
THEOREM ListensOnlyAsTold == Spec => []ListensAsTold
<1>1. ASSUME IInv, phase = "listening"
      PROVE  /\ \A j \in 1..Len(args) :
                  args[j].form \in {"assigned", "long", "short"} => Knows(args[j].name)
             /\ \A v \in {"true", "1"} : ~Said("test", v)
             /\ \E v \in Numerals : Said("SERVER_PORT", v)
             /\ \/ Knows("SERVER_HOST")
                \/ \E j \in 1..Len(env) : Sets(j, Upper("SERVER_HOST"))
  <2>1. i - 1 = Len(args) /\ options \in OptionSets
    BY <1>1, Lengths DEF IInv, TypeOK, PhaseInv
  <2>2. ~TestMode /\ HasHostAndPort
    BY <1>1 DEF IInv, ListenInv
  <2>3. \A j \in 1..Len(args) : args[j].form \in {"assigned", "long", "short"} => Knows(args[j].name)
    BY <1>1, <2>1 DEF IInv, OptionInv, OptionForms
  <2>4. \A v \in {"true", "1"} : ~Said("test", v)
    BY <1>1, <2>2, ValueAssumption, SaidIsLookedUp DEF TestMode, IsTrue
  <2>5. \E v \in Numerals : Said("SERVER_PORT", v)
    BY <1>1, <2>2, ValueAssumption, LookedUpIsSaid DEF HasHostAndPort, HasInteger
  <2>6. Knows("SERVER_HOST") \/ \E j \in 1..Len(env) : Sets(j, Upper("SERVER_HOST"))
    <3>1. Said("SERVER_HOST", Lookup("SERVER_HOST"))
      BY <1>1, <2>2, LookedUpIsSaid DEF HasHostAndPort
    <3> QED BY <2>1, <3>1, LongIsName DEF Said, Knows, FirstSetting
  <2> QED BY <2>3, <2>4, <2>5, <2>6
<1>2. IInv => ListensAsTold
  BY <1>1 DEF ListensAsTold
<1> QED BY <1>2, InductiveInvariant, PTL

\* Whatever a process does before it listens, and in its last save, the agents
\* on disk stay, also when a document that cannot be saved makes saves fail
\* (initialize, conditionalPersist, shutdown, my_terminate, signal_handler).
THEOREM StartsKeepData == Spec => StartKeepsData
<1>1. ASSUME IInv, [Next]_vars, ~(Serving /\ phase' = phase), file = "whole", file' # "torn"
      PROVE  file' = "whole" /\ Agents(saved') = Agents(saved)
  <2>1. CASE UNCHANGED fileVars
    BY <1>1, <2>1 DEF fileVars
  <2>2. CASE Finish
    BY <1>1, <2>1, <2>2, LastSave DEF Finish, IInv, TypeOK, DataInv
  <2>3. CASE Kill
    BY <1>1, <2>1, <2>3 DEF Kill
  <2>4. CASE UNCHANGED vars
    BY <2>1, <2>4 DEF vars
  <2>5. ~PersistAgent /\ ~RemoveAgents
    BY <1>1 DEF PersistAgent, RemoveAgents, configVars
  <2> QED BY <1>1, <2>1, <2>2, <2>3, <2>4, <2>5 DEF Next, Start, Main, Configure, InitializeDatabase, BeginTest,
             Listen, FailToListen, HandleAbort, EndTest, Signal
<1>2. IInv /\ [Next]_vars =>
        [~(Serving /\ phase' = phase) /\ file = "whole" /\ file' # "torn" =>
           file' = "whole" /\ Agents(saved') = Agents(saved)]_vars
  BY <1>1
<1> QED BY <1>2, InductiveInvariant, PTL DEF Spec, StartKeepsData
=============================================================================
