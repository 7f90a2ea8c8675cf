------------------------------ MODULE Provider ------------------------------
(***************************************************************************)
(* One LLM provider (provider_manager.h, provider.lua) and the agent that  *)
(* asks it: JSON is handed to Lua, configurations are merged, the handler  *)
(* answers (external: the HTTP round trip), and metadata come back.        *)
(*                                                                         *)
(* A Lua table is a function from all keys to values, Nil where it has no  *)
(* entry, as Lua reads it; Indices stand for the integer keys 1, 2, ...    *)
(* Strings, numbers and Booleans are scalars, of which none is false and a *)
(* scalar api_key is a non-empty string.                                   *)
(***************************************************************************)
EXTENDS Naturals, Sequences

CONSTANTS Names,       \* the keys that are strings
          Indices,     \* the sequence of integer keys
          Contents,    \* what scalars are told apart by
          Depth,       \* how deep arrays, objects and tables are nested
          ApiKey,      \* the key "api_key"
          Defaults,    \* the table the provider was created with
          Files,       \* configuration files, Missing if there may be none
          OptionSets,  \* "provider_options" an agent may have, JSON
          Answers      \* metadata a handler may answer with, Lua tables

IndexSet == {Indices[i] : i \in DOMAIN Indices}
Keys == Names \cup IndexSet

ASSUME KeyAssumption ==
  /\ Indices \in Seq(IndexSet)
  /\ \A i, j \in DOMAIN Indices : Indices[i] = Indices[j] => i = j
  /\ Names \cap IndexSet = {}
  /\ ApiKey \in Names
  /\ Depth \in Nat

-----------------------------------------------------------------------------
(* Values.                                                                 *)

Null == [null |-> TRUE]          \* JSON
Absent == [absent |-> TRUE]      \* no entry of an object
Array(items) == [array |-> items]
Object(fields) == [object |-> fields]
Scalar(v) == [scalar |-> v]      \* JSON and Lua
Nil == [nil |-> TRUE]            \* Lua
Userdata == [userdata |-> TRUE]  \* what cjson decodes null to
Table(f) == [table |-> f]

IsA(kind, value) == kind \in DOMAIN value

\* Decoded JSON has no holes and no tables with both kinds of keys.
IsRecord(t) == \A k \in IndexSet : t[k] = Nil
IsList(t) ==
  /\ \A k \in Names : t[k] = Nil
  /\ \E n \in 0..Len(Indices) : \A i \in DOMAIN Indices : t[Indices[i]] # Nil <=> i <= n

\* The values whose parts are among those below.
Scalars == [scalar : Contents]
Lists(S) == {items \in Seq(S) : Len(items) <= Len(Indices)}
Above(below) ==
  [json    |-> Scalars \cup {Null} \cup [array : Lists(below.json)]
                 \cup [object : [Names -> below.json \cup {Absent}]],
   lua     |-> Scalars \cup {Nil, Userdata} \cup [table : [Keys -> below.lua \cup {Nil}]],
   decoded |-> Scalars \cup {Userdata}
                 \cup {l \in [table : [Keys -> below.decoded \cup {Nil}]] :
                         IsRecord(l.table) \/ IsList(l.table)}]

Nothing == [json |-> {}, lua |-> {}, decoded |-> {}]
Level[n \in 0..Depth] == Above(IF n = 0 THEN Nothing ELSE Level[n - 1])

JsonValues == Level[Depth].json
LuaValues == Level[Depth].lua
LuaTables == {l \in LuaValues : IsA("table", l)}
Decoded == Level[Depth].decoded

EmptyObject == Object([k \in Names |-> Absent])
EmptyTable == Table([k \in Keys |-> Nil])
Missing == [missing |-> TRUE]

\* deep_merge stores the tables of the defaults in its target and then merges
\* into them, so that a table among the defaults would change; neither
\* provider has one.
ASSUME DefaultsAssumption ==
  Defaults \in LuaTables /\ \A k \in Keys : ~IsA("table", Defaults.table[k])
ASSUME FileAssumption ==
  \A f \in Files \ {Missing} :
    /\ f.parameters \in JsonValues \cup {Absent}
    /\ f.metadata \in JsonValues \cup {Absent}
    /\ IsA("object", f.metadata) \/ f.metadata \in {Null, Absent}
ASSUME OptionAssumption == OptionSets \subseteq JsonValues
ASSUME AnswerAssumption ==
  \A m \in Answers : m \in Decoded /\ m \in LuaTables /\ IsRecord(m.table)

-----------------------------------------------------------------------------
(* Conversions.                                                            *)

\* Mutant: Lua's arrays are filled from the second key on.
ElementShifted(j, k) ==
  IF IsA("array", j)
    THEN IF \E i \in DOMAIN Indices : Indices[i] = k /\ i - 1 \in DOMAIN j.array
           THEN j.array[(CHOOSE i \in DOMAIN Indices : Indices[i] = k) - 1] ELSE Absent
    ELSE IF k \in Names THEN j.object[k] ELSE Absent

\* What becomes the entry k of a table: item i goes to key i.
Element(j, k) ==
  IF IsA("array", j)
    THEN IF \E i \in DOMAIN Indices : Indices[i] = k /\ i \in DOMAIN j.array
           THEN j.array[CHOOSE i \in DOMAIN Indices : Indices[i] = k] ELSE Absent
    ELSE IF k \in Names THEN j.object[k] ELSE Absent

\* Assigning nil to a key leaves no entry, so a null in a list leaves a hole.
json_to_lua[j \in JsonValues] ==
  IF IsA("array", j) \/ IsA("object", j)
    THEN Table([k \in Keys |->
                  IF Element(j, k) = Absent THEN Nil ELSE json_to_lua[Element(j, k)]])
  ELSE IF j = Null THEN Nil ELSE j

\* table.size() is a border of the table.
Size(t) ==
  CHOOSE n \in 0..Len(Indices) :
    /\ n = 0 \/ t[Indices[n]] # Nil
    /\ n = Len(Indices) \/ t[Indices[n + 1]] = Nil

\* Any table with an integer key 1 becomes an array, any other an object.
lua_to_json[l \in LuaValues] ==
  IF IsA("table", l) THEN
    IF Size(l.table) > 0
      THEN Array([i \in 1..Size(l.table) |-> lua_to_json[l.table[Indices[i]]]])
      ELSE Object([k \in Names |->
                     IF l.table[k] = Nil THEN Absent ELSE lua_to_json[l.table[k]]])
  ELSE IF IsA("scalar", l) THEN l ELSE Null

-----------------------------------------------------------------------------
(* deep_merge.                                                             *)

\* Mutant: tables are replaced, not merged.
MergeShallow(t, s) ==
  Table([k \in Keys |-> IF s.table[k] = Nil THEN t.table[k] ELSE s.table[k]])

\* deep_merge('force', t, s): pairs(s) are the entries that are not nil.
force[t \in LuaTables] ==
  [s \in LuaTables |->
     Table([k \in Keys |->
              IF s.table[k] = Nil THEN t.table[k]
              ELSE IF IsA("table", t.table[k]) /\ IsA("table", s.table[k])
                THEN force[t.table[k]][s.table[k]]
              ELSE s.table[k]])]
MergeForce(t, s) == force[t][s]

\* deep_merge('keep', t, s)
MergeKeep(t, s) ==
  Table([k \in Keys |-> IF t.table[k] = Nil THEN s.table[k] ELSE t.table[k]])

-----------------------------------------------------------------------------
VARIABLES
  registered,  \* the provider is in providers_
  file,        \* the configuration file it was registered with
  shared,      \* provider.config.metadata, JSON
  kept,        \* provider.metadata, in Lua
  metadata,    \* the asking agent's metadata_, JSON
  params,      \* lua_params of the last request: the file's parameters, the options
  config,      \* the configuration it came down to, Nil if there was none
  answered     \* the metadata it was answered with, Nil if it failed

vars == <<registered, file, shared, kept, metadata, params, config, answered>>

TypeOK ==
  /\ registered \in BOOLEAN
  /\ file \in Files \cup {Missing}
  /\ shared \in JsonValues /\ (IsA("object", shared) \/ shared = Null)
  /\ kept \in LuaTables
  /\ metadata \in JsonValues
  /\ params \in [config : LuaValues, options : LuaValues]
  /\ config \in LuaTables \cup {Nil}
  /\ answered \in Answers \cup {Nil}

Init ==
  /\ registered = FALSE
  /\ file = Missing
  /\ shared = Null
  /\ kept = EmptyTable
  /\ metadata = Null
  /\ params = [config |-> Nil, options |-> Nil]
  /\ config = Nil
  /\ answered = Nil

\* json::value() supplies what a file lacks.
Value(j) == IF j = Absent THEN EmptyObject ELSE j

\* No file, no configuration.
load_provider_config(f) ==
  IF f = Missing THEN [parameters |-> Null, metadata |-> Null]
  ELSE [parameters |-> Value(f.parameters), metadata |-> Value(f.metadata)]

\* load_provider: the script has a function of its name.
Register ==
  /\ ~registered
  /\ registered' = TRUE
  /\ file' \in Files
  /\ shared' = load_provider_config(file').metadata
  /\ UNCHANGED <<kept, metadata, params, config, answered>>

\* params.config or {}, params.options or {}
OrEmpty(l) == IF l = Nil THEN EmptyTable ELSE l

\* What deep_merge is given; the script's own provider.config.parameters is
\* always empty.
Sources(ps) == <<Defaults, OrEmpty(ps.config), OrEmpty(ps.options)>>
Merged(ps) == MergeForce(MergeForce(Sources(ps)[1], Sources(ps)[2]), Sources(ps)[3])

HasApiKey(c) == IsA("scalar", c.table[ApiKey])

Fail ==
  /\ answered' = Nil
  /\ metadata' = Null
  /\ UNCHANGED <<registered, file, shared>>

\* process_request's first test.
NotRegistered ==
  /\ ~registered
  /\ config' = Nil
  /\ Fail
  /\ UNCHANGED <<kept, params>>

Request ==
  /\ registered
  /\ \E o \in OptionSets :
       params' = [config  |-> json_to_lua[load_provider_config(file).parameters],
                  options |-> json_to_lua[o]]

\* deep_merge raises an error: parameters or options that are no table.
SourceInvalid ==
  /\ Request
  /\ \E i \in 2..3 : ~IsA("table", Sources(params')[i])
  /\ config' = Nil
  /\ Fail
  /\ UNCHANGED kept

\* A registered provider merges the agent's options into its configuration.
Ask ==
  /\ Request
  /\ \A i \in 2..3 : IsA("table", Sources(params')[i])
  /\ config' = Merged(params')

\* provider.request refuses before it asks the handler.
Refuse ==
  /\ Ask
  /\ ~HasApiKey(config')
  /\ Fail
  /\ UNCHANGED kept

\* The handler raises an error, or returns one.
HandlerFails ==
  /\ Ask
  /\ HasApiKey(config')
  /\ Fail
  /\ UNCHANGED kept

\* The handler answers with metadata, which the script keeps; the content is
\* no string, and the build checks conversions: the manager sees an exception.
AnswerLost ==
  /\ Ask
  /\ HasApiKey(config')
  /\ \E m \in Answers : kept' = MergeKeep(kept, m)
  /\ Fail

\* json::update; an object comes of null.
Update(j, u) ==
  Object([k \in Names |->
            IF u.object[k] # Absent \/ j = Null THEN u.object[k] ELSE j.object[k]])

\* The handler answers with metadata, which the script keeps, the manager
\* shares and the agent stores.
Answer ==
  /\ Ask
  /\ HasApiKey(config')
  /\ answered' \in Answers
  /\ kept' = MergeKeep(kept, answered')
  /\ metadata' = lua_to_json[answered']
  /\ shared' = Update(shared, metadata')
  /\ UNCHANGED <<registered, file>>

Next ==
  \/ Register \/ NotRegistered \/ SourceInvalid \/ Refuse \/ HandlerFails \/ AnswerLost \/ Answer

Spec == Init /\ [][Next]_vars

-----------------------------------------------------------------------------
(* Properties.                                                             *)

Paths == UNION {[1..n -> Keys] : n \in 1..Depth}

\* What reading t[path[1]][path[2]]... finds on its way.
Field(l, k) == IF IsA("table", l) THEN l.table[k] ELSE Nil
Trail(t, path) ==
  LET at[i \in 0..Len(path)] == IF i = 0 THEN t ELSE Field(at[i - 1], path[i])
  IN  at
At(t, path) == Trail(t, path)[Len(path)]

\* A source that has something at a path, or a value that is no table on the
\* way to it, overrides what sources before it have there.
Overrides(t, path) ==
  \E i \in 1..Len(path) :
    /\ Trail(t, path)[i] # Nil
    /\ i = Len(path) \/ ~IsA("table", Trail(t, path)[i])

Agrees(v, w) == v = w \/ (IsA("table", v) /\ IsA("table", w))

\* "Merge configurations with priority: params.options > params.config >
\* parameters > defaults" (provider.lua), at every depth: what is at a path of
\* the configuration, be it a value, a table or nothing, comes of the last
\* source that says anything about that path.
SettingsHavePriority ==
  config # Nil =>
    \A path \in Paths :
      \/ At(config, path) = Nil /\ \A i \in 1..3 : ~Overrides(Sources(params)[i], path)
      \/ \E i \in 1..3 :
           /\ Overrides(Sources(params)[i], path)
           /\ \A j \in i + 1..3 : ~Overrides(Sources(params)[j], path)
           /\ Agrees(At(config, path), At(Sources(params)[i], path))

WithoutNulls[l \in LuaValues] ==
  IF IsA("table", l)
    THEN Table([k \in Keys |-> IF l.table[k] = Nil THEN Nil ELSE WithoutNulls[l.table[k]]])
  ELSE IF l = Userdata THEN Nil ELSE l

\* The metadata a provider answers with are what the agent hands back to it
\* with the next request, but for nulls (lua_to_json, then json_to_lua).
MetadataReturn ==
  answered # Nil => json_to_lua[metadata] = WithoutNulls[answered]
=============================================================================
