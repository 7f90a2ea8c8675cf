---------------------------- MODULE Configuration ----------------------------
(***************************************************************************)
(* core/configuration.h: CLIParser walks the command line, EnvParser reads *)
(* a file of KEY=value lines, AppConfig looks a key up in both.  Each turn *)
(* of the two loops is a step.                                             *)
(*                                                                         *)
(* An argument is a record: what its dashes make of it, the option it      *)
(* names, and the value it carries, NoValue if it carries none.            *)
(***************************************************************************)
EXTENDS Naturals, Sequences

CONSTANTS OptionSets,     \* what add_options may be given
          ArgumentLists,  \* command lines
          EnvFiles,       \* files of lines
          Missing,        \* there is no such file
          Unreadable,     \* there is one that cannot be opened
          Upper(_),       \* utils::to_upper
          Numerals,       \* the values std::stoi accepts
          NoName, NoValue

Forms == {"word", "dash", "assigned", "long", "short"}
Word(v) == [form |-> "word", name |-> NoName, value |-> v]
Dash == [form |-> "dash", name |-> NoName, value |-> NoValue]
Assigned(n, v) == [form |-> "assigned", name |-> n, value |-> v]  \* --n=v
Long(n) == [form |-> "long", name |-> n, value |-> NoValue]       \* --n
Short(n, v) == [form |-> "short", name |-> n, value |-> v]        \* -n, -nv

\* The long and the short name; an empty one is not entered in option_map_.
Names(o) == {o.long, o.short} \ {NoName}

\* Words and what follows a "=" are strings, if only empty ones.
ASSUME ArgumentAssumption ==
  \A as \in ArgumentLists :
    /\ Len(as) \in Nat
    /\ \A j \in 1..Len(as) :
         /\ as[j].form \in Forms
         /\ as[j].form \in {"word", "assigned"} => as[j].value # NoValue
ASSUME LineAssumption == \A e \in EnvFiles : Len(e) \in Nat

\* As main declares them: with a long name and a default, and no name twice.
ASSUME OptionAssumption ==
  \A os \in OptionSets :
    /\ \A o \in os : o.long # NoName /\ o.default # NoValue
    /\ \A o, p \in os : o # p => Names(o) \cap Names(p) = {}
ASSUME ValueAssumption == NoValue \notin Numerals \cup {"true", "1"}

VARIABLES
  phase,      \* how far the process is
  options,    \* cli_parser_options_
  args,       \* argv without the program's name
  i,          \* the index into it
  values,     \* CLIParser::values_
  env,        \* the file of settings
  line,       \* the next line of it
  variables   \* EnvParser::variables_

cliVars == <<options, args, i, values>>
envVars == <<env, line, variables>>
configVars == <<phase, cliVars, envVars>>

Empty == [k \in {} |-> NoValue]
Put(f, k, v) == [x \in DOMAIN f \cup {k} |-> IF x = k THEN v ELSE f[x]]

-----------------------------------------------------------------------------
(* CLIParser::parse.                                                       *)

Knows(n) == \E o \in options : n \in Names(o)
Option(n) == CHOOSE o \in options : n \in Names(o)
Current == args[i]

Parsing(forms) == phase = "arguments" /\ i <= Len(args) /\ Current.form \in forms

\* validate_and_store; any value will do.
StoreAndSkip(v, n) ==
  /\ values' = Put(values, Option(Current.name).long, v)
  /\ i' = i + n
  /\ UNCHANGED <<phase, options, args, envVars>>

\* Mutant: an argument of a dash alone is looked at again and again.
SkipWordsOnly ==
  /\ Parsing({"word", "dash"})
  /\ i' = IF Current.form = "word" THEN i + 1 ELSE i
  /\ UNCHANGED <<phase, options, args, values, envVars>>

SkipArgument ==
  /\ Parsing({"word", "dash"})
  /\ i' = i + 1
  /\ UNCHANGED <<phase, options, args, values, envVars>>

Assign ==
  /\ Parsing({"assigned"})
  /\ Knows(Current.name)
  /\ StoreAndSkip(Current.value, 1)

\* What follows the letter of a Boolean option is ignored.
SetFlag ==
  /\ Parsing({"long", "short"})
  /\ Knows(Current.name) /\ Option(Current.name).boolean
  /\ StoreAndSkip("true", 1)

\* Mutant: the next argument is taken whatever it begins with.
AnyArgumentFollows == i < Len(args)

ValueFollows == i < Len(args) /\ args[i + 1].form = "word"

NeedsValue == Knows(Current.name) /\ ~Option(Current.name).boolean

TakeRest ==
  /\ Parsing({"short"})
  /\ NeedsValue
  /\ Current.value # NoValue
  /\ StoreAndSkip(Current.value, 1)

TakeNext ==
  /\ Parsing({"long", "short"})
  /\ NeedsValue
  /\ Current.value = NoValue
  /\ ValueFollows
  /\ StoreAndSkip(args[i + 1].value, 2)

\* AppConfig::initialize throws what parse reports, outside main's try block.
Abort ==
  /\ phase' = "aborted"
  /\ UNCHANGED <<cliVars, envVars>>

\* An unknown option, or one whose value is missing.
RefuseArgument ==
  /\ Parsing({"assigned", "long", "short"})
  /\ \/ ~Knows(Current.name)
     \/ /\ Current.form # "assigned"
        /\ NeedsValue /\ Current.value = NoValue /\ ~ValueFollows
  /\ Abort

RequiredMissing == \E o \in options : o.required /\ o.long \notin DOMAIN values

RefuseLine == phase = "arguments" /\ i > Len(args) /\ RequiredMissing /\ Abort

EndOfArguments ==
  /\ phase = "arguments"
  /\ i > Len(args)
  /\ ~RequiredMissing
  /\ phase' = "environment"
  /\ UNCHANGED <<cliVars, envVars>>

-----------------------------------------------------------------------------
(* EnvParser::load, called with the option "config" if it is declared and  *)
(* with ".env" otherwise.                                                  *)

\* A missing file is no error, one that cannot be read is one only if it was
\* asked for.
NoFile ==
  /\ phase = "environment"
  /\ env \in {Missing, Unreadable}
  /\ phase' = IF env = Unreadable /\ Knows("config") THEN "aborted" ELSE "configured"
  /\ UNCHANGED <<cliVars, envVars>>

OpenFile ==
  /\ phase = "environment"
  /\ env \notin {Missing, Unreadable}
  /\ variables' = Empty
  /\ line' = 1
  /\ phase' = "lines"
  /\ UNCHANGED <<cliVars, env>>

\* Mutant: variables_[key] = value.
ReadLineOverwriting ==
  /\ phase = "lines"
  /\ line <= Len(env)
  /\ variables' = IF env[line].key = NoName THEN variables
                  ELSE Put(variables, Upper(env[line].key), env[line].value)
  /\ line' = line + 1
  /\ UNCHANGED <<phase, cliVars, env>>

\* Comments, empty lines and lines that are no setting (key NoName) leave
\* nothing; emplace keeps what is there.
ReadLine ==
  /\ phase = "lines"
  /\ line <= Len(env)
  /\ variables' =
       IF env[line].key = NoName \/ Upper(env[line].key) \in DOMAIN variables
         THEN variables
         ELSE Put(variables, Upper(env[line].key), env[line].value)
  /\ line' = line + 1
  /\ UNCHANGED <<phase, cliVars, env>>

EndOfFile ==
  /\ phase = "lines"
  /\ line > Len(env)
  /\ phase' = "configured"
  /\ UNCHANGED <<cliVars, envVars>>

-----------------------------------------------------------------------------
(* AppConfig::get.                                                         *)

\* CLIParser::get: an option that was declared has its default.
CliValue(key) ==
  IF key \in DOMAIN values THEN values[key]
  ELSE IF Knows(key) THEN Option(key).default ELSE NoValue

\* NoValue: it throws.
Lookup(key) ==
  IF CliValue(key) # NoValue THEN CliValue(key)
  ELSE IF Upper(key) \in DOMAIN variables THEN variables[Upper(key)] ELSE NoValue

IsTrue(v) == v \in {"true", "1"}

\* get<int>: stoi throws on what does not begin with a number.
HasInteger(key) == Lookup(key) \in Numerals

ParseStep ==
  \/ SkipArgument \/ Assign \/ SetFlag \/ TakeRest \/ TakeNext
  \/ RefuseArgument \/ RefuseLine \/ EndOfArguments
LoadStep == NoFile \/ OpenFile \/ ReadLine \/ EndOfFile

-----------------------------------------------------------------------------
(* What the command line and the file say, without walking through them.   *)

Naming(j, o) == args[j].form \in {"assigned", "long", "short"} /\ args[j].name \in Names(o)

\* The value an option is given at position j.
GivenAt(j, o) ==
  IF args[j].form = "assigned" THEN args[j].value
  ELSE IF o.boolean THEN "true"
  ELSE IF args[j].value # NoValue THEN args[j].value
  ELSE args[j + 1].value

\* j is the last of positions 1..n that names o.
LastNaming(j, o, n) == j \in 1..n /\ Naming(j, o) /\ \A k \in j + 1..n : ~Naming(k, o)

\* The last mention of an option counts, under either of its names and in
\* whatever form; a value is never also read as an option.
LastOptionWins ==
  \A o \in options :
    /\ o.long \in DOMAIN values <=> \E j \in 1..i - 1 : Naming(j, o)
    /\ \A j \in 1..i - 1 : LastNaming(j, o, i - 1) => values[o.long] = GivenAt(j, o)

Sets(j, key) == env[j].key # NoName /\ Upper(env[j].key) = key

FirstSetting(j, key, n) == j \in 1..n /\ Sets(j, key) /\ \A k \in 1..j - 1 : ~Sets(k, key)

\* Of a key that is set several times, in whatever case, the first line counts.
FirstLineWins ==
  /\ \A key \in DOMAIN variables : \E j \in 1..line - 1 : Sets(j, key)
  /\ \A j \in 1..line - 1 :
       env[j].key # NoName /\ FirstSetting(j, Upper(env[j].key), line - 1) =>
         LET key == Upper(env[j].key)
         IN  key \in DOMAIN variables /\ variables[key] = env[j].value

\* The two parsers agree, at every step of their loops, with what the command
\* line says (the last mention of an option) and what the file says (the first
\* setting of a key): CLIParser::parse, EnvParser::load.
SettingsAreAsGiven == LastOptionWins /\ (line > 0 => FirstLineWins)
=============================================================================
