--------------------------- MODULE ProviderProofs ---------------------------
(***************************************************************************)
(* Proofs about Provider.  Values are nested up to Depth; what a recursive *)
(* function does to them is proved level by level.                         *)
(***************************************************************************)
EXTENDS Provider, WellFoundedInduction, SequenceTheorems, TLAPS

Below(n) == IF n = 0 THEN Nothing ELSE Level[n - 1]

-----------------------------------------------------------------------------
(* Induction over the levels.                                              *)

\* A set with 0 and, with each number below a bound, the next has them all.
LEMMA UpTo ==
  ASSUME NEW N \in Nat, NEW S, 0 \in S, \A n \in 0..N : n \in S /\ n < N => n + 1 \in S
  PROVE  0..N \subseteq S
<1> DEFINE Bad == {n \in 0..N : n \notin S}
<1> SUFFICES ASSUME Bad # {} PROVE FALSE
  OBVIOUS
<1>1. PICK n \in Bad : \A k \in Bad : ~(k < n)
  <2>1. Bad \subseteq Nat
    OBVIOUS
  <2> HIDE DEF Bad
  <2>2. PICK n \in Bad : \A k \in Bad : <<k, n>> \notin OpToRel(<, Nat)
    BY <2>1, NatLessThanWellFounded, WFMin
  <2> QED BY <2>1, <2>2 DEF OpToRel
<1>2. n \in Nat /\ n # 0 /\ n <= N
  OBVIOUS
<1>3. n - 1 \in 0..N /\ n - 1 < N /\ n - 1 < n /\ (n - 1) + 1 = n
  BY <1>2
<1>4. n - 1 \in S
  BY <1>1, <1>3
<1> QED BY <1>3, <1>4

\* The same of the levels of values.
LEMMA LevelInduction ==
  ASSUME NEW S, 0 \in S, \A n \in 0..Depth : n \in S /\ n < Depth => n + 1 \in S
  PROVE  0..Depth \subseteq S
BY KeyAssumption, UpTo

\* The recursion of Level has a solution.
LEMMA LevelIs == \A n \in 0..Depth : Level[n] = Above(Below(n))
<1> DEFINE Solves(f, m) == f = [n \in 0..m |-> Above(IF n = 0 THEN Nothing ELSE f[n - 1])]
           S == {m \in 0..Depth : \E f : Solves(f, m)}
<1>1. 0 \in S
  <2> DEFINE f == [n \in 0..0 |-> Above(Nothing)]
  <2>1. Solves(f, 0)
    OBVIOUS
  <2>2. 0 \in 0..Depth
    BY KeyAssumption
  <2> QED BY <2>1, <2>2
<1>2. ASSUME NEW m \in 0..Depth, m \in S, m < Depth
      PROVE  m + 1 \in S
  <2>1. PICK f : Solves(f, m)
    BY <1>2
  <2>2. m \in Nat /\ m + 1 \in 0..Depth
    BY <1>2, KeyAssumption
  <2> DEFINE g == [n \in 0..m + 1 |-> IF n = m + 1 THEN Above(f[m]) ELSE f[n]]
  <2>3. ASSUME NEW n \in 0..m + 1
        PROVE  g[n] = Above(IF n = 0 THEN Nothing ELSE g[n - 1])
    <3>1. CASE n = m + 1
      <4>1. n # 0 /\ n - 1 = m /\ m \in 0..m + 1 /\ m # m + 1
        BY <3>1, <2>2
      <4> QED BY <3>1, <4>1
    <3>2. CASE n # m + 1
      <4>1. n \in 0..m /\ (n # 0 => n - 1 \in 0..m + 1 /\ n - 1 # m + 1)
        BY <3>2, <2>2
      <4>2. f[n] = Above(IF n = 0 THEN Nothing ELSE f[n - 1])
        BY <4>1, <2>1, Zenon
      <4> QED BY <3>2, <4>1, <4>2
    <3> QED BY <3>1, <3>2
  <2>4. Solves(g, m + 1)
    BY <2>3, Zenon
  <2> HIDE DEF g, Solves
  <2> QED BY <2>2, <2>4
<1> HIDE DEF Solves
<1>3. Depth \in S
  <2>1. 0..Depth \subseteq S
    <3> HIDE DEF S
    <3> QED BY <1>1, <1>2, LevelInduction
  <2>2. Depth \in 0..Depth
    BY KeyAssumption
  <2> QED BY <2>1, <2>2
<1>4. Level = CHOOSE f : Solves(f, Depth)
  BY DEF Level, Solves
<1>5. Solves(Level, Depth)
  BY <1>3, <1>4
<1> QED BY <1>5, Zenon DEF Solves, Below

LEMMA LevelValues ==
  ASSUME NEW n \in 0..Depth
  PROVE  /\ Level[n].json = Scalars \cup {Null} \cup [array : Lists(Below(n).json)]
                              \cup [object : [Names -> Below(n).json \cup {Absent}]]
         /\ Level[n].lua = Scalars \cup {Nil, Userdata} \cup [table : [Keys -> Below(n).lua \cup {Nil}]]
<1>1. Level[n] = Above(Below(n))
  BY LevelIs
<1> QED BY <1>1 DEF Above

\* A value with deeper parts below it can be deeper.
LEMMA AboveGrows ==
  ASSUME NEW a, NEW b, a.json \subseteq b.json, a.lua \subseteq b.lua, a.decoded \subseteq b.decoded
  PROVE  /\ Above(a).json \subseteq Above(b).json
         /\ Above(a).lua \subseteq Above(b).lua
         /\ Above(a).decoded \subseteq Above(b).decoded
<1>1. Lists(a.json) \subseteq Lists(b.json)
  <2>1. Seq(a.json) \subseteq Seq(b.json)
    OBVIOUS
  <2> QED BY <2>1 DEF Lists
<1>2. [Names -> a.json \cup {Absent}] \subseteq [Names -> b.json \cup {Absent}]
  OBVIOUS
<1>3. [Keys -> a.lua \cup {Nil}] \subseteq [Keys -> b.lua \cup {Nil}]
  OBVIOUS
<1>4. [Keys -> a.decoded \cup {Nil}] \subseteq [Keys -> b.decoded \cup {Nil}]
  OBVIOUS
<1>5. Above(a).json \subseteq Above(b).json
  BY <1>1, <1>2 DEF Above
<1>6. Above(a).lua \subseteq Above(b).lua
  BY <1>3 DEF Above
<1>7. Above(a).decoded \subseteq Above(b).decoded
  BY <1>4 DEF Above
<1> QED BY <1>5, <1>6, <1>7

\* What is below a level is on it.
LEMMA BelowIsOnLevel ==
  \A n \in 0..Depth : /\ Below(n).json \subseteq Level[n].json
                      /\ Below(n).lua \subseteq Level[n].lua
                      /\ Below(n).decoded \subseteq Level[n].decoded
<1> DEFINE P(n) == /\ Below(n).json \subseteq Level[n].json
                   /\ Below(n).lua \subseteq Level[n].lua
                   /\ Below(n).decoded \subseteq Level[n].decoded
           S == {n \in 0..Depth : P(n)}
<1>1. 0 \in S
  BY KeyAssumption DEF Below, Nothing
<1>2. ASSUME NEW n \in 0..Depth, n \in S, n < Depth
      PROVE  n + 1 \in S
  <2>1. n + 1 \in 0..Depth /\ n + 1 # 0 /\ (n + 1) - 1 = n
    BY <1>2, KeyAssumption
  <2>2. Below(n + 1) = Level[n] /\ Level[n] = Above(Below(n)) /\ Level[n + 1] = Above(Below(n + 1))
    BY <2>1, LevelIs DEF Below
  <2>3. P(n)
    BY <1>2
  <2>4. P(n + 1)
    BY <2>2, <2>3, AboveGrows
  <2> QED BY <2>1, <2>4
<1>3. 0..Depth \subseteq S
  <2> HIDE DEF S
  <2> QED BY <1>1, <1>2, LevelInduction
<1> QED BY <1>3

\* Every level's values are values.
LEMMA LevelsAreValues ==
  \A n \in 0..Depth : /\ Level[n].json \subseteq JsonValues
                      /\ Level[n].lua \subseteq LuaValues
                      /\ Level[n].decoded \subseteq Decoded
<1> DEFINE P(n, m) == /\ Level[n].json \subseteq Level[m].json
                      /\ Level[n].lua \subseteq Level[m].lua
                      /\ Level[n].decoded \subseteq Level[m].decoded
           S == {m \in 0..Depth : \A n \in 0..m : P(n, m)}
<1>1. 0 \in S
  BY KeyAssumption
<1>2. ASSUME NEW m \in 0..Depth, m \in S, m < Depth
      PROVE  m + 1 \in S
  <2>1. m + 1 \in 0..Depth /\ m + 1 # 0 /\ (m + 1) - 1 = m
    BY <1>2, KeyAssumption
  <2>2. P(m, m + 1)
    BY <2>1, BelowIsOnLevel DEF Below
  <2>3. ASSUME NEW n \in 0..m + 1
        PROVE  P(n, m + 1)
    <3>1. CASE n = m + 1
      BY <3>1
    <3>2. CASE n # m + 1
      <4>1. n \in 0..m
        BY <3>2, <2>1
      <4>2. P(n, m)
        BY <1>2, <4>1
      <4> QED BY <4>2, <2>2
    <3> QED BY <3>1, <3>2
  <2> QED BY <2>1, <2>3
<1>3. 0..Depth \subseteq S
  <2> HIDE DEF S
  <2> QED BY <1>1, <1>2, LevelInduction
<1>4. Depth \in S /\ \A n \in 0..Depth : n \in 0..Depth
  <2>1. Depth \in 0..Depth
    BY KeyAssumption
  <2> QED BY <2>1, <1>3
<1> QED BY <1>4 DEF JsonValues, LuaValues, Decoded

\* What the values of a level are.
LEMMA JsonKinds ==
  ASSUME NEW n \in 0..Depth, NEW j \in Level[n].json
  PROVE  \/ /\ j \in Scalars /\ IsA("scalar", j)
            /\ ~IsA("array", j) /\ ~IsA("object", j) /\ j # Null
         \/ /\ j = Null /\ ~IsA("array", j) /\ ~IsA("object", j) /\ ~IsA("scalar", j)
         \/ /\ IsA("array", j) /\ ~IsA("object", j) /\ ~IsA("scalar", j) /\ j # Null
            /\ j = Array(j.array) /\ j.array \in Lists(Below(n).json)
         \/ /\ IsA("object", j) /\ ~IsA("array", j) /\ ~IsA("scalar", j) /\ j # Null
            /\ j = Object(j.object) /\ j.object \in [Names -> Below(n).json \cup {Absent}]
<1>1. Level[n].json = Above(Below(n)).json
  BY LevelIs
<1>2. \/ j \in Scalars \/ j = Null
      \/ j \in [array : Lists(Below(n).json)]
      \/ j \in [object : [Names -> Below(n).json \cup {Absent}]]
  BY <1>1 DEF Above
<1>3. CASE j \in Scalars
  BY <1>3 DEF Scalars, IsA, Null
<1>4. CASE j = Null
  BY <1>4 DEF IsA, Null
<1>5. CASE j \in [array : Lists(Below(n).json)]
  BY <1>5 DEF IsA, Null, Array
<1>6. CASE j \in [object : [Names -> Below(n).json \cup {Absent}]]
  BY <1>6 DEF IsA, Null, Object
<1> QED BY <1>2, <1>3, <1>4, <1>5, <1>6

LEMMA LuaKinds ==
  ASSUME NEW n \in 0..Depth, NEW l \in Level[n].lua
  PROVE  \/ l \in Scalars /\ IsA("scalar", l) /\ ~IsA("table", l) /\ l # Nil /\ l # Userdata
         \/ l = Nil /\ ~IsA("table", l) /\ ~IsA("scalar", l) /\ l # Userdata
         \/ l = Userdata /\ ~IsA("table", l) /\ ~IsA("scalar", l) /\ l # Nil
         \/ /\ IsA("table", l) /\ ~IsA("scalar", l) /\ l # Nil /\ l # Userdata
            /\ l = Table(l.table) /\ l.table \in [Keys -> Below(n).lua \cup {Nil}]
<1>1. Level[n].lua = Above(Below(n)).lua
  BY LevelIs
<1>2. \/ l \in Scalars \/ l = Nil \/ l = Userdata
      \/ l \in [table : [Keys -> Below(n).lua \cup {Nil}]]
  BY <1>1 DEF Above
<1>3. CASE l \in Scalars
  BY <1>3 DEF Scalars, IsA, Nil, Userdata
<1>4. CASE l = Nil
  BY <1>4 DEF IsA, Nil, Userdata
<1>5. CASE l = Userdata
  BY <1>5 DEF IsA, Nil, Userdata
<1>6. CASE l \in [table : [Keys -> Below(n).lua \cup {Nil}]]
  BY <1>6 DEF IsA, Nil, Userdata, Table
<1> QED BY <1>2, <1>3, <1>4, <1>5, <1>6

LEMMA DecodedKinds ==
  ASSUME NEW n \in 0..Depth, NEW l \in Level[n].decoded
  PROVE  \/ l \in Scalars /\ IsA("scalar", l) /\ ~IsA("table", l) /\ l # Nil /\ l # Userdata
         \/ l = Userdata /\ ~IsA("table", l) /\ ~IsA("scalar", l) /\ l # Nil
         \/ /\ IsA("table", l) /\ ~IsA("scalar", l) /\ l # Nil /\ l # Userdata
            /\ l = Table(l.table) /\ l.table \in [Keys -> Below(n).decoded \cup {Nil}]
            /\ IsRecord(l.table) \/ IsList(l.table)
<1>1. Level[n].decoded = Above(Below(n)).decoded
  BY LevelIs
<1>2. \/ l \in Scalars \/ l = Userdata
      \/ /\ l \in [table : [Keys -> Below(n).decoded \cup {Nil}]]
         /\ IsRecord(l.table) \/ IsList(l.table)
  BY <1>1 DEF Above
<1>3. CASE l \in Scalars
  BY <1>3 DEF Scalars, IsA, Nil, Userdata
<1>4. CASE l = Userdata
  BY <1>4 DEF IsA, Nil, Userdata
<1>5. CASE /\ l \in [table : [Keys -> Below(n).decoded \cup {Nil}]]
           /\ IsRecord(l.table) \/ IsList(l.table)
  BY <1>5 DEF IsA, Nil, Userdata, Table
<1> QED BY <1>2, <1>3, <1>4, <1>5

-----------------------------------------------------------------------------
(* The recursions of the conversions and of deep_merge have solutions: what *)
(* a function is on a level depends on what it is below.                   *)

\* What json_to_lua is at a value, by what it is below it.
ToLua(f, j) ==
  IF IsA("array", j) \/ IsA("object", j)
    THEN Table([k \in Keys |-> IF Element(j, k) = Absent THEN Nil ELSE f[Element(j, k)]])
  ELSE IF j = Null THEN Nil ELSE j

\* An element of a value is below it.
LEMMA ElementIsBelow ==
  ASSUME NEW n \in 0..Depth, NEW j \in Level[n].json, IsA("array", j) \/ IsA("object", j),
         NEW k \in Keys, Element(j, k) # Absent
  PROVE  Element(j, k) \in Below(n).json
<1>1. CASE IsA("array", j)
  <2>1. j.array \in Lists(Below(n).json)
    BY <1>1, JsonKinds
  <2> DEFINE i == CHOOSE i \in DOMAIN Indices : Indices[i] = k
  <2>2. \E h \in DOMAIN Indices : Indices[h] = k /\ h \in DOMAIN j.array
    BY <1>1 DEF Element
  <2>3. i \in DOMAIN Indices /\ Indices[i] = k
    BY <2>2
  <2>4. i \in DOMAIN j.array
    BY <2>2, <2>3, KeyAssumption
  <2>5. Element(j, k) = j.array[i]
    BY <1>1, <2>2 DEF Element
  <2> HIDE DEF i
  <2>6. j.array \in Seq(Below(n).json)
    BY <2>1 DEF Lists
  <2>7. j.array[i] \in Below(n).json
    BY <2>4, <2>6
  <2> QED BY <2>5, <2>7
<1>2. CASE IsA("object", j)
  <2>1. j.object \in [Names -> Below(n).json \cup {Absent}] /\ ~IsA("array", j)
    BY <1>2, JsonKinds
  <2>2. k \in Names /\ Element(j, k) = j.object[k]
    BY <2>1 DEF Element
  <2> QED BY <2>1, <2>2
<1> QED BY <1>1, <1>2

LEMMA ToLuaAgrees ==
  ASSUME NEW n \in 0..Depth, NEW j \in Level[n].json,
         NEW f, NEW g, \A c \in Below(n).json : f[c] = g[c]
  PROVE  ToLua(f, j) = ToLua(g, j)
<1>1. CASE IsA("array", j) \/ IsA("object", j)
  <2>1. ASSUME NEW k \in Keys, Element(j, k) # Absent
        PROVE  f[Element(j, k)] = g[Element(j, k)]
    BY <1>1, <2>1, ElementIsBelow
  <2>2. [k \in Keys |-> IF Element(j, k) = Absent THEN Nil ELSE f[Element(j, k)]]
         = [k \in Keys |-> IF Element(j, k) = Absent THEN Nil ELSE g[Element(j, k)]]
    BY <2>1
  <2> QED BY <2>2 DEF ToLua
<1>2. CASE ~(IsA("array", j) \/ IsA("object", j))
  BY <1>2 DEF ToLua
<1> QED BY <1>1, <1>2

LEMMA JsonToLuaIs == \A j \in JsonValues : json_to_lua[j] = ToLua(json_to_lua, j)
<1> DEFINE Solves(f, n) == f = [j \in Level[n].json |-> ToLua(f, j)]
           S == {n \in 0..Depth : \E f : Solves(f, n)}
<1>1. ASSUME NEW n \in 0..Depth, NEW f, \A c \in Below(n).json : f[c] = ToLua(f, c)
      PROVE  n \in S
  <2> DEFINE g == [j \in Level[n].json |-> ToLua(f, j)]
  <2>1. \A c \in Below(n).json : f[c] = g[c]
    BY <1>1, BelowIsOnLevel
  <2>2. \A j \in Level[n].json : g[j] = ToLua(f, j)
    OBVIOUS
  <2> HIDE DEF g
  <2>3. \A j \in Level[n].json : ToLua(f, j) = ToLua(g, j)
    BY <2>1, ToLuaAgrees
  <2>4. g = [j \in Level[n].json |-> ToLua(g, j)]
    BY <2>3 DEF g
  <2> QED BY <2>4
<1>2. 0 \in S
  <2>1. 0 \in 0..Depth /\ Below(0).json = {}
    BY KeyAssumption DEF Below, Nothing
  <2> HIDE DEF S
  <2> QED BY <1>1, <2>1
<1>3. ASSUME NEW n \in 0..Depth, n \in S, n < Depth
      PROVE  n + 1 \in S
  <2>1. n + 1 \in 0..Depth /\ Below(n + 1) = Level[n]
    BY <1>3, KeyAssumption DEF Below
  <2>2. PICK f : Solves(f, n)
    BY <1>3
  <2>3. \A c \in Level[n].json : f[c] = ToLua(f, c)
    BY <2>2
  <2> HIDE DEF S, Solves
  <2> QED BY <1>1, <2>1, <2>3
<1>4. Depth \in S
  <2>1. Depth \in 0..Depth
    BY KeyAssumption
  <2> HIDE DEF S
  <2> QED BY <1>2, <1>3, <2>1, LevelInduction
<1>5. json_to_lua = CHOOSE f : Solves(f, Depth)
  BY Zenon DEF json_to_lua, ToLua, JsonValues
<1> HIDE DEF Solves
<1>6. Solves(json_to_lua, Depth)
  BY <1>4, <1>5
<1> QED BY <1>6, Zenon DEF Solves, JsonValues

\* The size of a table is one of its borders, and there is one.
LEMMA SizeIsBorder ==
  ASSUME NEW t
  PROVE  /\ Size(t) \in 0..Len(Indices)
         /\ Size(t) = 0 \/ t[Indices[Size(t)]] # Nil
         /\ Size(t) = Len(Indices) \/ t[Indices[Size(t) + 1]] = Nil
<1> DEFINE Border(n) == /\ n = 0 \/ t[Indices[n]] # Nil
                        /\ n = Len(Indices) \/ t[Indices[n + 1]] = Nil
<1>1. Len(Indices) \in Nat
  BY KeyAssumption, LenProperties
<1>2. \E n \in 0..Len(Indices) : Border(n)
  <2> DEFINE Empty == {n \in 0..Len(Indices) : n = Len(Indices) \/ t[Indices[n + 1]] = Nil}
  <2>1. Empty # {} /\ Empty \subseteq Nat
    BY <1>1
  <2> HIDE DEF Empty
  <2>2. PICK n \in Empty : \A k \in Empty : <<k, n>> \notin OpToRel(<, Nat)
    BY <2>1, NatLessThanWellFounded, WFMin
  <2>3. \A k \in Empty : ~(k < n)
    BY <2>1, <2>2 DEF OpToRel
  <2> USE DEF Empty
  <2>4. CASE n = 0
    BY <2>4
  <2>5. CASE n # 0
    <3>1. n - 1 \in 0..Len(Indices) /\ n - 1 < n /\ n - 1 # Len(Indices) /\ (n - 1) + 1 = n
      BY <1>1, <2>5
    <3>2. n - 1 \notin Empty
      BY <2>3, <3>1
    <3> QED BY <3>1, <3>2
  <2> QED BY <2>4, <2>5
<1> HIDE DEF Border
<1>3. Size(t) \in 0..Len(Indices) /\ Border(Size(t))
  BY <1>2, Zenon DEF Size, Border
<1> QED BY <1>3 DEF Border

\* What lua_to_json is at a value, by what it is below it.
ToJson(f, l) ==
  IF IsA("table", l) THEN
    IF Size(l.table) > 0
      THEN Array([i \in 1..Size(l.table) |-> f[l.table[Indices[i]]]])
      ELSE Object([k \in Names |-> IF l.table[k] = Nil THEN Absent ELSE f[l.table[k]]])
  ELSE IF IsA("scalar", l) THEN l ELSE Null

\* So is an item, the holes of a list included.
LEMMA ItemIsBelow ==
  ASSUME NEW n \in 0..Depth, NEW l \in Level[n].lua, IsA("table", l),
         NEW i \in 1..Size(l.table)
  PROVE  Indices[i] \in Keys /\ l.table[Indices[i]] \in Below(n).lua
<1>1. l.table \in [Keys -> Below(n).lua \cup {Nil}]
  BY LuaKinds
<1>2. Size(l.table) \in 1..Len(Indices) /\ i \in 1..Len(Indices) /\ Len(Indices) \in Nat
  BY SizeIsBorder, KeyAssumption, LenProperties
<1>3. DOMAIN Indices = 1..Len(Indices)
  BY KeyAssumption, LenProperties
<1>4. \A h \in 1..Len(Indices) : Indices[h] \in Keys
  BY <1>3 DEF Keys, IndexSet
<1>5. l.table[Indices[Size(l.table)]] \in Below(n).lua
  <2> DEFINE m == Size(l.table)
  <2>1. m \in 1..Len(Indices)
    BY <1>2
  <2>2. m = 0 \/ l.table[Indices[m]] # Nil
    BY SizeIsBorder
  <2> HIDE DEF m
  <2>3. Indices[m] \in Keys /\ l.table[Indices[m]] # Nil
    BY <2>1, <2>2, <1>2, <1>4
  <2>4. l.table[Indices[m]] \in Below(n).lua
    BY <2>3, <1>1
  <2> QED BY <2>4 DEF m
<1>6. n # 0
  BY <1>5 DEF Below, Nothing
<1>7. Nil \in Below(n).lua
  <2>1. n - 1 \in 0..Depth /\ Below(n) = Level[n - 1]
    BY <1>6, KeyAssumption DEF Below
  <2>2. Level[n - 1] = Above(Below(n - 1))
    BY <2>1, LevelIs
  <2> QED BY <2>1, <2>2 DEF Above
<1> QED BY <1>1, <1>2, <1>4, <1>7

LEMMA ToJsonAgrees ==
  ASSUME NEW n \in 0..Depth, NEW l \in Level[n].lua,
         NEW f, NEW g, \A c \in Below(n).lua : f[c] = g[c]
  PROVE  ToJson(f, l) = ToJson(g, l)
<1>1. CASE IsA("table", l)
  <2>1. l.table \in [Keys -> Below(n).lua \cup {Nil}]
    BY <1>1, LuaKinds
  <2>2. \A k \in Names : l.table[k] # Nil => f[l.table[k]] = g[l.table[k]]
    BY <2>1 DEF Keys
  <2>3. \A i \in 1..Size(l.table) : f[l.table[Indices[i]]] = g[l.table[Indices[i]]]
    BY <1>1, ItemIsBelow
  <2>4. [i \in 1..Size(l.table) |-> f[l.table[Indices[i]]]]
          = [i \in 1..Size(l.table) |-> g[l.table[Indices[i]]]]
    BY <2>3
  <2>5. [k \in Names |-> IF l.table[k] = Nil THEN Absent ELSE f[l.table[k]]]
          = [k \in Names |-> IF l.table[k] = Nil THEN Absent ELSE g[l.table[k]]]
    BY <2>2
  <2> QED BY <2>4, <2>5 DEF ToJson
<1>2. CASE ~IsA("table", l)
  BY <1>2 DEF ToJson
<1> QED BY <1>1, <1>2

LEMMA LuaToJsonIs == \A l \in LuaValues : lua_to_json[l] = ToJson(lua_to_json, l)
<1> DEFINE Solves(f, n) == f = [l \in Level[n].lua |-> ToJson(f, l)]
           S == {n \in 0..Depth : \E f : Solves(f, n)}
<1>1. ASSUME NEW n \in 0..Depth, NEW f, \A c \in Below(n).lua : f[c] = ToJson(f, c)
      PROVE  n \in S
  <2> DEFINE g == [l \in Level[n].lua |-> ToJson(f, l)]
  <2>1. \A c \in Below(n).lua : f[c] = g[c]
    BY <1>1, BelowIsOnLevel
  <2>2. \A l \in Level[n].lua : g[l] = ToJson(f, l)
    OBVIOUS
  <2> HIDE DEF g
  <2>3. \A l \in Level[n].lua : ToJson(f, l) = ToJson(g, l)
    BY <2>1, ToJsonAgrees
  <2>4. g = [l \in Level[n].lua |-> ToJson(g, l)]
    BY <2>3 DEF g
  <2> QED BY <2>4
<1>2. 0 \in S
  <2>1. 0 \in 0..Depth /\ Below(0).lua = {}
    BY KeyAssumption DEF Below, Nothing
  <2> HIDE DEF S
  <2> QED BY <1>1, <2>1
<1>3. ASSUME NEW n \in 0..Depth, n \in S, n < Depth
      PROVE  n + 1 \in S
  <2>1. n + 1 \in 0..Depth /\ Below(n + 1) = Level[n]
    BY <1>3, KeyAssumption DEF Below
  <2>2. PICK f : Solves(f, n)
    BY <1>3
  <2>3. \A c \in Level[n].lua : f[c] = ToJson(f, c)
    BY <2>2
  <2> HIDE DEF S, Solves
  <2> QED BY <1>1, <2>1, <2>3
<1>4. Depth \in S
  <2>1. Depth \in 0..Depth
    BY KeyAssumption
  <2> HIDE DEF S
  <2> QED BY <1>2, <1>3, <2>1, LevelInduction
<1>5. lua_to_json = CHOOSE f : Solves(f, Depth)
  BY Zenon DEF lua_to_json, ToJson, LuaValues
<1> HIDE DEF Solves
<1>6. Solves(lua_to_json, Depth)
  BY <1>4, <1>5
<1> QED BY <1>6, Zenon DEF Solves, LuaValues

\* What WithoutNulls is at a value, by what it is below it.
Stripped(f, l) ==
  IF IsA("table", l)
    THEN Table([k \in Keys |-> IF l.table[k] = Nil THEN Nil ELSE f[l.table[k]]])
  ELSE IF l = Userdata THEN Nil ELSE l

LEMMA StrippedAgrees ==
  ASSUME NEW n \in 0..Depth, NEW l \in Level[n].lua,
         NEW f, NEW g, \A c \in Below(n).lua : f[c] = g[c]
  PROVE  Stripped(f, l) = Stripped(g, l)
<1>1. CASE IsA("table", l)
  <2>1. l.table \in [Keys -> Below(n).lua \cup {Nil}]
    BY <1>1, LuaKinds
  <2>2. [k \in Keys |-> IF l.table[k] = Nil THEN Nil ELSE f[l.table[k]]]
          = [k \in Keys |-> IF l.table[k] = Nil THEN Nil ELSE g[l.table[k]]]
    BY <2>1
  <2> QED BY <2>2 DEF Stripped
<1>2. CASE ~IsA("table", l)
  BY <1>2 DEF Stripped
<1> QED BY <1>1, <1>2

LEMMA WithoutNullsIs == \A l \in LuaValues : WithoutNulls[l] = Stripped(WithoutNulls, l)
<1> DEFINE Solves(f, n) == f = [l \in Level[n].lua |-> Stripped(f, l)]
           S == {n \in 0..Depth : \E f : Solves(f, n)}
<1>1. ASSUME NEW n \in 0..Depth, NEW f, \A c \in Below(n).lua : f[c] = Stripped(f, c)
      PROVE  n \in S
  <2> DEFINE g == [l \in Level[n].lua |-> Stripped(f, l)]
  <2>1. \A c \in Below(n).lua : f[c] = g[c]
    BY <1>1, BelowIsOnLevel
  <2>2. \A l \in Level[n].lua : g[l] = Stripped(f, l)
    OBVIOUS
  <2> HIDE DEF g
  <2>3. \A l \in Level[n].lua : Stripped(f, l) = Stripped(g, l)
    BY <2>1, StrippedAgrees
  <2>4. g = [l \in Level[n].lua |-> Stripped(g, l)]
    BY <2>3 DEF g
  <2> QED BY <2>4
<1>2. 0 \in S
  <2>1. 0 \in 0..Depth /\ Below(0).lua = {}
    BY KeyAssumption DEF Below, Nothing
  <2> HIDE DEF S
  <2> QED BY <1>1, <2>1
<1>3. ASSUME NEW n \in 0..Depth, n \in S, n < Depth
      PROVE  n + 1 \in S
  <2>1. n + 1 \in 0..Depth /\ Below(n + 1) = Level[n]
    BY <1>3, KeyAssumption DEF Below
  <2>2. PICK f : Solves(f, n)
    BY <1>3
  <2>3. \A c \in Level[n].lua : f[c] = Stripped(f, c)
    BY <2>2
  <2> HIDE DEF S, Solves
  <2> QED BY <1>1, <2>1, <2>3
<1>4. Depth \in S
  <2>1. Depth \in 0..Depth
    BY KeyAssumption
  <2> HIDE DEF S
  <2> QED BY <1>2, <1>3, <2>1, LevelInduction
<1>5. WithoutNulls = CHOOSE f : Solves(f, Depth)
  BY Zenon DEF WithoutNulls, Stripped, LuaValues
<1> HIDE DEF Solves
<1>6. Solves(WithoutNulls, Depth)
  BY <1>4, <1>5
<1> QED BY <1>6, Zenon DEF Solves, LuaValues

\* What deep_merge makes of two tables, by what it makes of those below them.
MergeAt(f, t, s) ==
  Table([k \in Keys |->
           IF s.table[k] = Nil THEN t.table[k]
           ELSE IF IsA("table", t.table[k]) /\ IsA("table", s.table[k])
             THEN f[t.table[k]][s.table[k]]
           ELSE s.table[k]])

TablesOf(S) == {l \in S : IsA("table", l)}

LEMMA MergeAgrees ==
  ASSUME NEW n \in 0..Depth, NEW t \in TablesOf(Level[n].lua), NEW s \in TablesOf(Level[n].lua),
         NEW f, NEW g, \A c, d \in TablesOf(Below(n).lua) : f[c][d] = g[c][d]
  PROVE  MergeAt(f, t, s) = MergeAt(g, t, s)
<1>1. /\ t.table \in [Keys -> Below(n).lua \cup {Nil}]
      /\ s.table \in [Keys -> Below(n).lua \cup {Nil}]
  BY LuaKinds DEF TablesOf
<1>2. ~IsA("table", Nil)
  BY DEF IsA, Nil
<1>3. ASSUME NEW k \in Keys, IsA("table", t.table[k]), IsA("table", s.table[k])
      PROVE  f[t.table[k]][s.table[k]] = g[t.table[k]][s.table[k]]
  <2>1. t.table[k] \in TablesOf(Below(n).lua) /\ s.table[k] \in TablesOf(Below(n).lua)
    BY <1>1, <1>2, <1>3 DEF TablesOf
  <2> QED BY <2>1
<1> QED BY <1>3 DEF MergeAt

LEMMA ForceIs == \A t, s \in LuaTables : force[t][s] = MergeAt(force, t, s)
<1> DEFINE Solves(f, n) == f = [t \in TablesOf(Level[n].lua) |->
                           [s \in TablesOf(Level[n].lua) |-> MergeAt(f, t, s)]]
           S == {n \in 0..Depth : \E f : Solves(f, n)}
<1>1. ASSUME NEW n \in 0..Depth, NEW f,
             \A c, d \in TablesOf(Below(n).lua) : f[c][d] = MergeAt(f, c, d)
      PROVE  n \in S
  <2> DEFINE g == [t \in TablesOf(Level[n].lua) |-> [s \in TablesOf(Level[n].lua) |-> MergeAt(f, t, s)]]
  <2>1. TablesOf(Below(n).lua) \subseteq TablesOf(Level[n].lua)
    BY BelowIsOnLevel DEF TablesOf
  <2>2. \A t, s \in TablesOf(Level[n].lua) : g[t][s] = MergeAt(f, t, s)
    OBVIOUS
  <2> HIDE DEF g
  <2>3. \A c, d \in TablesOf(Below(n).lua) : f[c][d] = g[c][d]
    BY <1>1, <2>1, <2>2
  <2>4. \A t, s \in TablesOf(Level[n].lua) : MergeAt(f, t, s) = MergeAt(g, t, s)
    BY <2>3, MergeAgrees
  <2>5. g = [t \in TablesOf(Level[n].lua) |-> [s \in TablesOf(Level[n].lua) |-> MergeAt(g, t, s)]]
    BY <2>4 DEF g
  <2> QED BY <2>5
<1>2. 0 \in S
  <2>1. 0 \in 0..Depth /\ TablesOf(Below(0).lua) = {}
    BY KeyAssumption DEF Below, Nothing, TablesOf
  <2> HIDE DEF S
  <2> QED BY <1>1, <2>1
<1>3. ASSUME NEW n \in 0..Depth, n \in S, n < Depth
      PROVE  n + 1 \in S
  <2>1. n + 1 \in 0..Depth /\ Below(n + 1) = Level[n]
    BY <1>3, KeyAssumption DEF Below
  <2>2. PICK f : Solves(f, n)
    BY <1>3
  <2>3. \A c, d \in TablesOf(Level[n].lua) : f[c][d] = MergeAt(f, c, d)
    BY <2>2
  <2> HIDE DEF S, Solves
  <2> QED BY <1>1, <2>1, <2>3
<1>4. Depth \in S
  <2>1. Depth \in 0..Depth
    BY KeyAssumption
  <2> HIDE DEF S
  <2> QED BY <1>2, <1>3, <2>1, LevelInduction
<1>5. force = CHOOSE f : Solves(f, Depth)
  BY Zenon DEF force, MergeAt, LuaTables, LuaValues, TablesOf
<1> HIDE DEF Solves
<1>6. Solves(force, Depth)
  BY <1>4, <1>5
<1>7. \A t, s \in TablesOf(Level[Depth].lua) : force[t][s] = MergeAt(force, t, s)
  <2> DEFINE T == TablesOf(Level[Depth].lua)
  <2>1. force = [t \in T |-> [s \in T |-> MergeAt(force, t, s)]]
    BY <1>6, Zenon DEF Solves
  <2> HIDE DEF T
  <2>2. \A t, s \in T : force[t][s] = MergeAt(force, t, s)
    <3> TAKE t, s \in T
    <3>1. force[t] = [u \in T |-> MergeAt(force, t, u)]
      BY <2>1, Zenon
    <3> QED BY <3>1, Zenon
  <2> QED BY <2>2 DEF T
<1>8. LuaTables = TablesOf(Level[Depth].lua)
  BY Zenon DEF LuaTables, LuaValues, TablesOf
<1> QED BY <1>7, <1>8

-----------------------------------------------------------------------------
(* What the conversions and deep_merge make of a value nests no deeper.    *)

\* The same induction, from what is below a level to the level.
LEMMA BelowInduction ==
  ASSUME NEW S, \A n \in 0..Depth : n = 0 \/ n - 1 \in S => n \in S
  PROVE  0..Depth \subseteq S
<1>1. 0 \in S
  BY KeyAssumption
<1>2. ASSUME NEW n \in 0..Depth, n \in S, n < Depth
      PROVE  n + 1 \in S
  <2>1. n + 1 \in 0..Depth /\ (n + 1) - 1 = n
    BY <1>2, KeyAssumption
  <2> QED BY <2>1, <1>2
<1> QED BY <1>1, <1>2, LevelInduction

LEMMA JsonToLuaTypes == \A n \in 0..Depth : \A j \in Level[n].json : json_to_lua[j] \in Level[n].lua
<1> DEFINE S == {n \in 0..Depth : \A j \in Level[n].json : json_to_lua[j] \in Level[n].lua}
<1>1. ASSUME NEW n \in 0..Depth, n = 0 \/ n - 1 \in S
      PROVE  n \in S
  <2>1. \A c \in Below(n).json : json_to_lua[c] \in Below(n).lua
    BY <1>1 DEF Below, Nothing
  <2>2. ASSUME NEW j \in Level[n].json
        PROVE  json_to_lua[j] \in Level[n].lua
    <3>1. json_to_lua[j] = ToLua(json_to_lua, j)
      BY LevelsAreValues, JsonToLuaIs
    <3>2. Level[n].lua = Scalars \cup {Nil, Userdata} \cup [table : [Keys -> Below(n).lua \cup {Nil}]]
      BY LevelValues
    <3>3. CASE IsA("array", j) \/ IsA("object", j)
      <4> DEFINE f == [k \in Keys |->
                         IF Element(j, k) = Absent THEN Nil ELSE json_to_lua[Element(j, k)]]
      <4>1. f \in [Keys -> Below(n).lua \cup {Nil}]
        BY <2>1, <3>3, ElementIsBelow
      <4>2. json_to_lua[j] = Table(f)
        BY <3>1, <3>3 DEF ToLua
      <4> HIDE DEF f
      <4> QED BY <4>1, <4>2, <3>2 DEF Table
    <3>4. CASE ~(IsA("array", j) \/ IsA("object", j))
      <4>1. j = Null \/ j \in Scalars
        BY <3>4, JsonKinds
      <4>2. json_to_lua[j] = IF j = Null THEN Nil ELSE j
        BY <3>1, <3>4 DEF ToLua
      <4> QED BY <4>1, <4>2, <3>2
    <3> QED BY <3>3, <3>4
  <2> QED BY <2>2
<1>2. 0..Depth \subseteq S
  <2> HIDE DEF S
  <2> QED BY <1>1, BelowInduction
<1> QED BY <1>2

LEMMA LuaToJsonTypes == \A n \in 0..Depth : \A l \in Level[n].lua : lua_to_json[l] \in Level[n].json
<1> DEFINE S == {n \in 0..Depth : \A l \in Level[n].lua : lua_to_json[l] \in Level[n].json}
<1>1. ASSUME NEW n \in 0..Depth, n = 0 \/ n - 1 \in S
      PROVE  n \in S
  <2>1. \A c \in Below(n).lua : lua_to_json[c] \in Below(n).json
    BY <1>1 DEF Below, Nothing
  <2>2. ASSUME NEW l \in Level[n].lua
        PROVE  lua_to_json[l] \in Level[n].json
    <3>1. lua_to_json[l] = ToJson(lua_to_json, l)
      BY LevelsAreValues, LuaToJsonIs
    <3>2. Level[n].json = Scalars \cup {Null} \cup [array : Lists(Below(n).json)]
                            \cup [object : [Names -> Below(n).json \cup {Absent}]]
      BY LevelValues
    <3>3. CASE IsA("table", l) /\ Size(l.table) > 0
      <4> DEFINE items == [i \in 1..Size(l.table) |-> lua_to_json[l.table[Indices[i]]]]
      <4>1. Size(l.table) \in Nat /\ Size(l.table) <= Len(Indices)
        BY SizeIsBorder, KeyAssumption, LenProperties
      <4>2. \A i \in 1..Size(l.table) : lua_to_json[l.table[Indices[i]]] \in Below(n).json
        BY <3>3, <2>1, ItemIsBelow
      <4>3. items \in Seq(Below(n).json) /\ Len(items) = Size(l.table)
        BY <4>1, <4>2
      <4>4. lua_to_json[l] = Array(items)
        BY <3>1, <3>3 DEF ToJson
      <4> HIDE DEF items
      <4>5. items \in Lists(Below(n).json)
        BY <4>1, <4>3 DEF Lists
      <4> QED BY <4>4, <4>5, <3>2 DEF Array
    <3>4. CASE IsA("table", l) /\ ~(Size(l.table) > 0)
      <4> DEFINE fields == [k \in Names |->
                              IF l.table[k] = Nil THEN Absent ELSE lua_to_json[l.table[k]]]
      <4>1. l.table \in [Keys -> Below(n).lua \cup {Nil}]
        BY <3>4, LuaKinds
      <4>2. fields \in [Names -> Below(n).json \cup {Absent}]
        BY <4>1, <2>1 DEF Keys
      <4>3. lua_to_json[l] = Object(fields)
        BY <3>1, <3>4 DEF ToJson
      <4> HIDE DEF fields
      <4> QED BY <4>2, <4>3, <3>2 DEF Object
    <3>5. CASE ~IsA("table", l)
      <4>1. lua_to_json[l] = IF IsA("scalar", l) THEN l ELSE Null
        BY <3>1, <3>5 DEF ToJson
      <4>2. IsA("scalar", l) => l \in Scalars
        BY <3>5, LuaKinds
      <4> QED BY <4>1, <4>2, <3>2
    <3> QED BY <3>3, <3>4, <3>5
  <2> QED BY <2>2
<1>2. 0..Depth \subseteq S
  <2> HIDE DEF S
  <2> QED BY <1>1, BelowInduction
<1> QED BY <1>2

LEMMA ForceTypes ==
  \A n \in 0..Depth : \A t, s \in TablesOf(Level[n].lua) : force[t][s] \in TablesOf(Level[n].lua)
<1> DEFINE S == {n \in 0..Depth :
                   \A t, s \in TablesOf(Level[n].lua) : force[t][s] \in TablesOf(Level[n].lua)}
<1>1. ASSUME NEW n \in 0..Depth, n = 0 \/ n - 1 \in S
      PROVE  n \in S
  <2>1. \A c, d \in TablesOf(Below(n).lua) : force[c][d] \in Below(n).lua
    BY <1>1 DEF Below, Nothing, TablesOf
  <2>2. ASSUME NEW t \in TablesOf(Level[n].lua), NEW s \in TablesOf(Level[n].lua)
        PROVE  force[t][s] \in TablesOf(Level[n].lua)
    <3>1. force[t][s] = MergeAt(force, t, s)
      BY LevelsAreValues, ForceIs DEF TablesOf, LuaTables
    <3>2. [table : [Keys -> Below(n).lua \cup {Nil}]] \subseteq Level[n].lua
      BY LevelValues
    <3>3. /\ t.table \in [Keys -> Below(n).lua \cup {Nil}]
          /\ s.table \in [Keys -> Below(n).lua \cup {Nil}]
      BY LuaKinds DEF TablesOf
    <3>4. ~IsA("table", Nil)
      BY DEF IsA, Nil
    <3> DEFINE f == [k \in Keys |->
                       IF s.table[k] = Nil THEN t.table[k]
                       ELSE IF IsA("table", t.table[k]) /\ IsA("table", s.table[k])
                         THEN force[t.table[k]][s.table[k]]
                       ELSE s.table[k]]
    <3>5. ASSUME NEW k \in Keys, IsA("table", t.table[k]), IsA("table", s.table[k])
          PROVE  force[t.table[k]][s.table[k]] \in Below(n).lua
      <4>1. t.table[k] \in TablesOf(Below(n).lua) /\ s.table[k] \in TablesOf(Below(n).lua)
        BY <3>3, <3>4, <3>5 DEF TablesOf
      <4> QED BY <4>1, <2>1
    <3>6. f \in [Keys -> Below(n).lua \cup {Nil}]
      BY <3>3, <3>5
    <3>7. force[t][s] = Table(f)
      BY <3>1 DEF MergeAt
    <3> HIDE DEF f
    <3> QED BY <3>6, <3>7, <3>2 DEF Table, TablesOf, IsA
  <2> QED BY <2>2
<1>2. 0..Depth \subseteq S
  <2> HIDE DEF S
  <2> QED BY <1>1, BelowInduction
<1> QED BY <1>2

LEMMA MergedIsTable == \A t, s \in LuaTables : force[t][s] \in LuaTables
<1>1. Depth \in 0..Depth
  BY KeyAssumption
<1>2. LuaTables = TablesOf(Level[Depth].lua)
  BY Zenon DEF LuaTables, LuaValues, TablesOf
<1> QED BY <1>1, <1>2, ForceTypes

\* What a table has is a value.
LEMMA FieldTypes == \A l \in LuaTables, k \in Keys : Field(l, k) \in LuaValues
<1> SUFFICES ASSUME NEW l \in LuaTables, NEW k \in Keys
             PROVE  Field(l, k) \in LuaValues
  OBVIOUS
<1>1. Depth \in 0..Depth /\ l \in Level[Depth].lua /\ IsA("table", l)
  BY KeyAssumption DEF LuaTables, LuaValues
<1>2. l.table \in [Keys -> Below(Depth).lua \cup {Nil}]
  BY <1>1, LuaKinds
<1>3. Below(Depth).lua \subseteq LuaValues /\ Nil \in LuaValues
  <2>1. Nil \in Level[Depth].lua
    BY <1>1, LevelValues
  <2> QED BY <2>1, <1>1, BelowIsOnLevel DEF LuaValues
<1> QED BY <1>1, <1>2, <1>3 DEF Field

-----------------------------------------------------------------------------
(* What a merged table has at a path.                                      *)

\* The recursion of Trail has a solution.
LEMMA TrailIs ==
  ASSUME NEW n \in Nat, NEW path \in [1..n -> Keys], NEW t
  PROVE  /\ Len(path) = n
         /\ Trail(t, path)[0] = t
         /\ \A i \in 1..n : Trail(t, path)[i] = Field(Trail(t, path)[i - 1], path[i])
<1>1. Len(path) = n
  <2>1. path \in Seq(Keys)
    OBVIOUS
  <2> QED BY <2>1, LenProperties
<1> DEFINE Solves(f, m) ==
             f = [i \in 0..m |-> IF i = 0 THEN t ELSE Field(f[i - 1], path[i])]
           S == {m \in 0..n : \E f : Solves(f, m)}
<1>2. 0 \in S
  <2> DEFINE f == [i \in 0..0 |-> t]
  <2>1. Solves(f, 0)
    OBVIOUS
  <2> HIDE DEF f, Solves
  <2>2. 0 \in 0..n
    OBVIOUS
  <2> QED BY <2>1, <2>2
<1>3. ASSUME NEW m \in 0..n, m \in S, m < n
      PROVE  m + 1 \in S
  <2>1. PICK f : Solves(f, m)
    BY <1>3
  <2>2. m \in Nat /\ m + 1 \in 0..n
    BY <1>3
  <2> DEFINE g == [i \in 0..m + 1 |-> IF i = m + 1 THEN Field(f[m], path[m + 1]) ELSE f[i]]
  <2>3. ASSUME NEW i \in 0..m + 1
        PROVE  g[i] = IF i = 0 THEN t ELSE Field(g[i - 1], path[i])
    <3>1. CASE i = m + 1
      <4>1. i # 0 /\ i - 1 = m /\ m \in 0..m + 1 /\ m # m + 1
        BY <3>1, <2>2
      <4> QED BY <3>1, <4>1
    <3>2. CASE i # m + 1
      <4>1. i \in 0..m /\ (i # 0 => i - 1 \in 0..m + 1 /\ i - 1 # m + 1)
        BY <3>2, <2>2
      <4>2. f[i] = IF i = 0 THEN t ELSE Field(f[i - 1], path[i])
        BY <4>1, <2>1, Zenon
      <4> QED BY <3>2, <4>1, <4>2
    <3> QED BY <3>1, <3>2
  <2>4. Solves(g, m + 1)
    BY <2>3, Zenon
  <2> HIDE DEF g, Solves
  <2> QED BY <2>2, <2>4
<1> HIDE DEF Solves
<1>4. n \in S
  <2>1. 0..n \subseteq S
    <3> HIDE DEF S
    <3> QED BY <1>2, <1>3, UpTo
  <2> QED BY <2>1
<1>5. Trail(t, path) = CHOOSE f : Solves(f, n)
  BY <1>1, Zenon DEF Trail, Solves
<1>6. Solves(Trail(t, path), n)
  BY <1>4, <1>5
<1> DEFINE at == Trail(t, path)
<1>7. at = [i \in 0..n |-> IF i = 0 THEN t ELSE Field(at[i - 1], path[i])]
  BY <1>6, Zenon DEF Solves
<1> HIDE DEF at
<1>8. at[0] = t /\ \A i \in 1..n : at[i] = Field(at[i - 1], path[i])
  <2>1. at[0] = t
    BY <1>7
  <2>2. ASSUME NEW i \in 1..n PROVE at[i] = Field(at[i - 1], path[i])
    <3>1. i \in 0..n /\ i # 0
      OBVIOUS
    <3> QED BY <1>7, <3>1
  <2> QED BY <2>1, <2>2
<1> QED BY <1>1, <1>8 DEF at

\* A merged table has, at a path of which the second table says something, what
\* that table has there, and otherwise what the first has.
LEMMA MergeAlongPath ==
  ASSUME NEW t \in LuaTables, NEW s \in LuaTables,
         NEW n \in 1..Depth, NEW path \in [1..n -> Keys]
  PROVE  IF Overrides(s, path) THEN Agrees(At(force[t][s], path), At(s, path))
                               ELSE At(force[t][s], path) = At(t, path)
<1> DEFINE T == Trail(t, path)
           S == Trail(s, path)
           F == Trail(force[t][s], path)
           Cut(i) == \E h \in 1..i : S[h] # Nil /\ ~IsA("table", S[h])
           Both(i) == /\ T[i] \in LuaTables /\ S[i] \in LuaTables
                         /\ F[i] = force[T[i]][S[i]] /\ ~Cut(i)
           Second(i) == /\ F[i] = S[i]
                        /\ Cut(i) \/ (S[i] # Nil /\ ~IsA("table", T[i])) \/ T[i] = Nil
           First(i) == S[i] = Nil /\ F[i] = T[i] /\ ~Cut(i)
           Inv(i) == Both(i) \/ Second(i) \/ First(i)
<1>1. n \in Nat /\ 1 <= n /\ Depth \in Nat
  BY KeyAssumption
<1>2. /\ Len(path) = n
      /\ T[0] = t /\ S[0] = s /\ F[0] = force[t][s]
      /\ \A i \in 1..n : /\ T[i] = Field(T[i - 1], path[i])
                         /\ S[i] = Field(S[i - 1], path[i])
                         /\ F[i] = Field(F[i - 1], path[i])
  BY <1>1, TrailIs
<1>3. ~IsA("table", Nil) /\ \A k : Field(Nil, k) = Nil
  BY DEF IsA, Nil, Field
<1> HIDE DEF T, S, F
<1>4. Inv(0)
  <2>1. ~Cut(0)
    OBVIOUS
  <2> QED BY <1>2, <2>1
<1>5. ASSUME NEW m \in 0..n, m < n, Inv(m)
      PROVE  Inv(m + 1)
  <2> DEFINE k == path[m + 1]
  <2>1. m + 1 \in 1..n /\ (m + 1) - 1 = m /\ k \in Keys /\ m \in Nat
    BY <1>1, <1>5
  <2>2. T[m + 1] = Field(T[m], k) /\ S[m + 1] = Field(S[m], k) /\ F[m + 1] = Field(F[m], k)
    BY <1>2, <2>1
  <2>3. Cut(m + 1) <=> Cut(m) \/ (S[m + 1] # Nil /\ ~IsA("table", S[m + 1]))
    <3>1. \A h : h \in 1..m + 1 <=> h \in 1..m \/ h = m + 1
      BY <2>1
    <3> QED BY <3>1
  <2> HIDE DEF k, Cut
  <2>4. CASE Both(m)
    <3>1. T[m] \in LuaTables /\ S[m] \in LuaTables /\ F[m] = force[T[m]][S[m]]
      BY <2>4
    <3>2. F[m] = MergeAt(force, T[m], S[m])
      BY <3>1, ForceIs
    <3>3. F[m + 1] = IF S[m + 1] = Nil THEN T[m + 1]
                     ELSE IF IsA("table", T[m + 1]) /\ IsA("table", S[m + 1])
                       THEN force[T[m + 1]][S[m + 1]]
                     ELSE S[m + 1]
      <4>1. T[m + 1] = T[m].table[k] /\ S[m + 1] = S[m].table[k]
        BY <3>1, <2>2 DEF LuaTables, Field
      <4>2. F[m + 1] = F[m].table[k]
        BY <3>2, <2>2 DEF MergeAt, Table, IsA, Field
      <4> DEFINE entry(c) == IF S[m].table[c] = Nil THEN T[m].table[c]
                             ELSE IF IsA("table", T[m].table[c]) /\ IsA("table", S[m].table[c])
                               THEN force[T[m].table[c]][S[m].table[c]]
                             ELSE S[m].table[c]
      <4>3. F[m].table = [c \in Keys |-> entry(c)]
        BY <3>2 DEF MergeAt, Table
      <4>4. F[m].table[k] = entry(k)
        BY <4>3, <2>1, Zenon
      <4> QED BY <4>1, <4>2, <4>4
    <3>4. T[m + 1] \in LuaValues /\ S[m + 1] \in LuaValues
      BY <3>1, <2>1, <2>2, FieldTypes
    <3>5. CASE S[m + 1] = Nil
      BY <3>3, <3>5, <2>3, <2>4, <1>3
    <3>6. CASE IsA("table", T[m + 1]) /\ IsA("table", S[m + 1])
      <4>1. S[m + 1] # Nil
        BY <3>6, <1>3
      <4> QED BY <3>3, <3>4, <3>6, <4>1, <2>3, <2>4 DEF LuaTables
    <3>7. CASE S[m + 1] # Nil /\ ~(IsA("table", T[m + 1]) /\ IsA("table", S[m + 1]))
      BY <3>3, <3>7, <2>3
    <3> QED BY <3>5, <3>6, <3>7
  <2>5. CASE Second(m)
    <3>1. F[m + 1] = S[m + 1]
      BY <2>2, <2>5
    <3>2. ~IsA("table", T[m]) => T[m + 1] = Nil
      BY <2>2 DEF Field
    <3> QED BY <3>1, <3>2, <2>3, <2>5, <1>3
  <2>6. CASE First(m)
    <3>1. F[m + 1] = T[m + 1] /\ S[m + 1] = Nil
      BY <2>2, <2>6, <1>3
    <3> QED BY <3>1, <2>3, <2>6
  <2> QED BY <1>5, <2>4, <2>5, <2>6
<1>6. Inv(n)
  <2> DEFINE I == {m \in 0..n : Inv(m)}
  <2>1. 0..n \subseteq I
    <3>1. 0 \in I
      BY <1>1, <1>4
    <3>2. ASSUME NEW m \in 0..n, m \in I, m < n
          PROVE  m + 1 \in I
      <4>1. Inv(m)
        BY <3>2
      <4>2. Inv(m + 1)
        BY <3>2, <4>1, <1>5
      <4>3. m + 1 \in 0..n
        BY <3>2, <1>1
      <4> QED BY <4>2, <4>3
    <3> HIDE DEF I
    <3> QED BY <3>1, <3>2, <1>1, UpTo
  <2> QED BY <2>1, <1>1
<1>7. At(t, path) = T[n] /\ At(s, path) = S[n] /\ At(force[t][s], path) = F[n]
  BY <1>2 DEF At, T, S, F
<1>8. Overrides(s, path) <=> Cut(n) \/ S[n] # Nil
  <2>1. Overrides(s, path) <=> \E i \in 1..n : S[i] # Nil /\ (i = n \/ ~IsA("table", S[i]))
    BY <1>2, Zenon DEF Overrides, S
  <2> QED BY <2>1, <1>1
<1> HIDE DEF Cut
<1>9. CASE Both(n)
  <2>1. F[n] \in LuaTables
    BY <1>9, MergedIsTable
  <2> QED BY <2>1, <1>3, <1>7, <1>8, <1>9 DEF Agrees, LuaTables
<1>10. CASE Second(n)
  BY <1>7, <1>8, <1>10 DEF Agrees
<1>11. CASE First(n)
  BY <1>7, <1>8, <1>11
<1> QED BY <1>6, <1>9, <1>10, <1>11

-----------------------------------------------------------------------------
(* There and back: metadata as JSON, and as a table again.                 *)

LEMMA DecodedIsLua == \A n \in 0..Depth : Level[n].decoded \subseteq Level[n].lua
<1> DEFINE S == {n \in 0..Depth : Level[n].decoded \subseteq Level[n].lua}
<1>1. ASSUME NEW n \in 0..Depth, n = 0 \/ n - 1 \in S
      PROVE  n \in S
  <2>1. Below(n).decoded \subseteq Below(n).lua
    BY <1>1 DEF Below, Nothing
  <2>2. ASSUME NEW l \in Level[n].decoded
        PROVE  l \in Level[n].lua
    <3>1. CASE IsA("table", l)
      <4>1. l = Table(l.table) /\ l.table \in [Keys -> Below(n).decoded \cup {Nil}]
        BY <3>1, DecodedKinds
      <4>2. l.table \in [Keys -> Below(n).lua \cup {Nil}]
        BY <4>1, <2>1
      <4>3. Table(l.table) \in [table : [Keys -> Below(n).lua \cup {Nil}]]
        BY <4>2 DEF Table
      <4> QED BY <4>1, <4>3, LevelValues
    <3>2. CASE ~IsA("table", l)
      BY <3>2, DecodedKinds, LevelValues
    <3> QED BY <3>1, <3>2
  <2> QED BY <2>2
<1>2. 0..Depth \subseteq S
  <2> HIDE DEF S
  <2> QED BY <1>1, BelowInduction
<1> QED BY <1>2

\* A value is never taken for a missing one.
LEMMA AbsentIsNoValue == \A n \in 0..Depth : Absent \notin Level[n].json
<1> SUFFICES ASSUME NEW n \in 0..Depth, Absent \in Level[n].json
             PROVE  FALSE
  OBVIOUS
<1>1. ~IsA("scalar", Absent) /\ ~IsA("array", Absent) /\ ~IsA("object", Absent) /\ Absent # Null
  BY DEF IsA, Absent, Null
<1> QED BY <1>1, JsonKinds

\* What json_to_lua finds in an array, and in an object.
LEMMA Elements ==
  /\ \A items : \A i \in DOMAIN Indices :
       Element(Array(items), Indices[i]) = IF i \in DOMAIN items THEN items[i] ELSE Absent
  /\ \A items : \A k \in Names : Element(Array(items), k) = Absent
  /\ \A fields : \A k : Element(Object(fields), k) = IF k \in Names THEN fields[k] ELSE Absent
<1>1. ASSUME NEW items
      PROVE  Array(items).array = items /\ IsA("array", Array(items))
  BY DEF Array, IsA
<1>2. ASSUME NEW fields
      PROVE  Object(fields).object = fields /\ ~IsA("array", Object(fields))
  BY DEF Object, IsA
<1>3. ASSUME NEW items, NEW i \in DOMAIN Indices
      PROVE  Element(Array(items), Indices[i]) = IF i \in DOMAIN items THEN items[i] ELSE Absent
  <2> DEFINE h == CHOOSE h \in DOMAIN Indices : Indices[h] = Indices[i]
  <2>1. h \in DOMAIN Indices /\ Indices[h] = Indices[i]
    OBVIOUS
  <2>2. h = i
    BY <2>1, KeyAssumption
  <2>3. (\E g \in DOMAIN Indices : Indices[g] = Indices[i] /\ g \in DOMAIN items) <=> i \in DOMAIN items
    BY KeyAssumption
  <2>4. Element(Array(items), Indices[i])
          = IF \E g \in DOMAIN Indices : Indices[g] = Indices[i] /\ g \in DOMAIN items
              THEN items[h] ELSE Absent
    BY <1>1 DEF Element
  <2> HIDE DEF h
  <2> QED BY <2>2, <2>3, <2>4
<1>4. ASSUME NEW items, NEW k \in Names
      PROVE  Element(Array(items), k) = Absent
  <2>1. ~ \E i \in DOMAIN Indices : Indices[i] = k
    BY KeyAssumption DEF IndexSet
  <2> QED BY <2>1, <1>1 DEF Element
<1>5. ASSUME NEW fields, NEW k
      PROVE  Element(Object(fields), k) = IF k \in Names THEN fields[k] ELSE Absent
  BY <1>2 DEF Element
<1> QED BY <1>3, <1>4, <1>5

\* A record becomes an object, a list of n items an array of as many.
LEMMA SizeOfRecord == \A t : IsRecord(t) => Size(t) = 0
<1> SUFFICES ASSUME NEW t, IsRecord(t), Size(t) # 0
             PROVE  FALSE
  OBVIOUS
<1>1. Size(t) \in DOMAIN Indices
  BY SizeIsBorder, KeyAssumption, LenProperties
<1>2. Indices[Size(t)] \in IndexSet
  BY <1>1 DEF IndexSet
<1> QED BY <1>2, SizeIsBorder DEF IsRecord

LEMMA SizeOfList ==
  \A t : IsList(t) => \A i \in DOMAIN Indices : t[Indices[i]] # Nil <=> i <= Size(t)
<1> SUFFICES ASSUME NEW t, IsList(t)
             PROVE  \A i \in DOMAIN Indices : t[Indices[i]] # Nil <=> i <= Size(t)
  OBVIOUS
<1>1. PICK n \in 0..Len(Indices) : \A i \in DOMAIN Indices : t[Indices[i]] # Nil <=> i <= n
  BY DEF IsList
<1>2. DOMAIN Indices = 1..Len(Indices) /\ Len(Indices) \in Nat
  BY KeyAssumption, LenProperties
<1> DEFINE m == Size(t)
<1>3. /\ m \in 0..Len(Indices)
      /\ m = 0 \/ t[Indices[m]] # Nil
      /\ m = Len(Indices) \/ t[Indices[m + 1]] = Nil
  BY SizeIsBorder
<1> HIDE DEF m
<1> DEFINE L == Len(Indices)
<1>4. \A i \in 1..L : t[Indices[i]] # Nil <=> i <= n
  BY <1>1, <1>2
<1>5. L \in Nat /\ m \in 0..L /\ n \in 0..L
  BY <1>2, <1>3
<1>6. (m = 0 \/ t[Indices[m]] # Nil) /\ (m = L \/ t[Indices[m + 1]] = Nil)
  BY <1>3
<1> HIDE DEF L
<1>7. m <= n
  <2>1. CASE m = 0
    BY <2>1, <1>5
  <2>2. CASE m # 0
    <3>1. m \in 1..L
      BY <2>2, <1>5
    <3> QED BY <3>1, <2>2, <1>4, <1>6
  <2> QED BY <2>1, <2>2
<1>8. n <= m
  <2>1. CASE m = L
    BY <2>1, <1>5
  <2>2. CASE m # L
    <3>1. m + 1 \in 1..L
      BY <2>2, <1>5
    <3>2. ~(m + 1 <= n)
      BY <3>1, <2>2, <1>4, <1>6
    <3> QED BY <3>2, <1>5
  <2> QED BY <2>1, <2>2
<1>9. m = n
  BY <1>5, <1>7, <1>8
<1> QED BY <1>1, <1>9 DEF m

\* Decoded JSON that goes to JSON and back is what it was, but for nulls.
LEMMA RoundTrip == \A l \in Decoded : json_to_lua[lua_to_json[l]] = WithoutNulls[l]
<1> DEFINE P(l) == json_to_lua[lua_to_json[l]] = WithoutNulls[l]
           S == {n \in 0..Depth : \A l \in Level[n].decoded : P(l)}
<1>1. ASSUME NEW n \in 0..Depth, n = 0 \/ n - 1 \in S
      PROVE  n \in S
  <2>1. ASSUME NEW c \in Below(n).decoded
        PROVE  P(c) /\ lua_to_json[c] # Absent
    <3>1. n # 0 /\ n - 1 \in 0..Depth /\ c \in Level[n - 1].decoded
      BY <2>1, KeyAssumption DEF Below, Nothing
    <3>2. c \in Level[n - 1].lua
      BY <3>1, DecodedIsLua
    <3>3. lua_to_json[c] \in Level[n - 1].json
      BY <3>1, <3>2, LuaToJsonTypes
    <3> QED BY <1>1, <3>1, <3>3, AbsentIsNoValue
  <2> HIDE DEF P
  <2>2. ASSUME NEW l \in Level[n].decoded
        PROVE  P(l)
    <3> DEFINE t == l.table
               j == lua_to_json[l]
    <3>1. j = ToJson(lua_to_json, l) /\ WithoutNulls[l] = Stripped(WithoutNulls, l)
      <4>1. l \in LuaValues
        BY DecodedIsLua, LevelsAreValues
      <4> QED BY <4>1, LuaToJsonIs, WithoutNullsIs
    <3>2. json_to_lua[j] = ToLua(json_to_lua, j)
      <4>1. j \in JsonValues
        BY DecodedIsLua, LuaToJsonTypes, LevelsAreValues
      <4> QED BY <4>1, JsonToLuaIs
    <3> HIDE DEF j
    <3>3. CASE IsA("table", l)
      <4>1. t \in [Keys -> Below(n).decoded \cup {Nil}] /\ (IsRecord(t) \/ IsList(t))
        BY <3>3, DecodedKinds
      <4>2. WithoutNulls[l] = Table([k \in Keys |-> IF t[k] = Nil THEN Nil ELSE WithoutNulls[t[k]]])
        BY <3>1, <3>3 DEF Stripped
      <4> HIDE DEF t
      <4>3. ASSUME NEW k \in Keys, t[k] # Nil
            PROVE  json_to_lua[lua_to_json[t[k]]] = WithoutNulls[t[k]] /\ lua_to_json[t[k]] # Absent
        BY <4>1, <4>3, <2>1 DEF P
      <4>4. ASSUME IsA("array", j) \/ IsA("object", j),
                   \A k \in Keys :
                     Element(j, k) = IF t[k] = Nil THEN Absent ELSE lua_to_json[t[k]]
            PROVE  P(l)
        <5>1. json_to_lua[j]
                = Table([k \in Keys |-> IF Element(j, k) = Absent THEN Nil
                                        ELSE json_to_lua[Element(j, k)]])
          BY <3>2, <4>4 DEF ToLua
        <5>2. ASSUME NEW k \in Keys
              PROVE  (IF Element(j, k) = Absent THEN Nil ELSE json_to_lua[Element(j, k)])
                       = IF t[k] = Nil THEN Nil ELSE WithoutNulls[t[k]]
          BY <4>3, <4>4
        <5>3. json_to_lua[j] = WithoutNulls[l]
          BY <5>1, <5>2, <4>2
        <5> QED BY <5>3 DEF P, j
      <4>5. CASE IsRecord(t)
        <5> DEFINE fields == [k \in Names |-> IF t[k] = Nil THEN Absent ELSE lua_to_json[t[k]]]
        <5>1. j = Object(fields)
          <6>1. ~(Size(t) > 0)
            BY <4>5, SizeOfRecord
          <6> QED BY <6>1, <3>1, <3>3 DEF ToJson, t
        <5>2. IsA("object", j)
          BY <5>1 DEF IsA, Object
        <5>3. ASSUME NEW k \in Keys
              PROVE  Element(j, k) = IF t[k] = Nil THEN Absent ELSE lua_to_json[t[k]]
          <6>1. Element(j, k) = IF k \in Names THEN fields[k] ELSE Absent
            BY <5>1, Elements
          <6>2. k \notin Names => t[k] = Nil
            BY <4>5 DEF IsRecord, Keys
          <6> QED BY <6>1, <6>2
        <5> QED BY <5>2, <5>3, <4>4
      <4>6. CASE IsList(t) /\ Size(t) > 0
        <5> DEFINE items == [i \in 1..Size(t) |-> lua_to_json[t[Indices[i]]]]
        <5>1. j = Array(items)
          BY <4>6, <3>1, <3>3 DEF ToJson, t
        <5>2. IsA("array", j)
          BY <5>1 DEF IsA, Array
        <5>3. ASSUME NEW k \in Names
              PROVE  t[k] = Nil /\ Element(j, k) = Absent
          BY <5>1, <4>6, Elements DEF IsList
        <5>4. ASSUME NEW i \in DOMAIN Indices
              PROVE  Element(j, Indices[i])
                       = IF t[Indices[i]] = Nil THEN Absent ELSE lua_to_json[t[Indices[i]]]
          <6>1. Element(j, Indices[i]) = IF i \in DOMAIN items THEN items[i] ELSE Absent
            BY <5>1, Elements
          <6>2. i \in DOMAIN items <=> t[Indices[i]] # Nil
            <7>1. i \in Nat \ {0} /\ Size(t) \in Nat
              BY SizeIsBorder, KeyAssumption, LenProperties
            <7>2. t[Indices[i]] # Nil <=> i <= Size(t)
              BY <4>6, SizeOfList
            <7> QED BY <7>1, <7>2
          <6> QED BY <6>1, <6>2
        <5>5. ASSUME NEW k \in Keys
              PROVE  Element(j, k) = IF t[k] = Nil THEN Absent ELSE lua_to_json[t[k]]
          <6>1. CASE k \in Names
            BY <6>1, <5>3
          <6>2. CASE k \in IndexSet
            <7>1. PICK i \in DOMAIN Indices : k = Indices[i]
              BY <6>2 DEF IndexSet
            <7> QED BY <7>1, <5>4
          <6> QED BY <6>1, <6>2 DEF Keys
        <5> QED BY <5>2, <5>5, <4>4
      <4>7. CASE IsList(t) /\ ~(Size(t) > 0)
        <5>1. ASSUME NEW k \in IndexSet
              PROVE  t[k] = Nil
          <6>1. PICK i \in DOMAIN Indices : k = Indices[i]
            BY DEF IndexSet
          <6>2. i \in Nat \ {0} /\ Size(t) \in Nat
            BY SizeIsBorder, KeyAssumption, LenProperties
          <6>3. t[Indices[i]] # Nil <=> i <= Size(t)
            BY <4>7, SizeOfList
          <6> QED BY <6>1, <6>2, <6>3, <4>7
        <5> QED BY <5>1, <4>5 DEF IsRecord
      <4> QED BY <4>1, <4>5, <4>6, <4>7
    <3>4. CASE IsA("scalar", l)
      <4>1. l \in Scalars /\ l # Userdata /\ ~IsA("table", l)
        BY <3>4, DecodedKinds
      <4>2. ~IsA("array", l) /\ ~IsA("object", l) /\ l # Null
        BY <4>1, LevelValues, JsonKinds DEF Scalars, IsA
      <4>3. j = l
        BY <3>1, <3>4, <4>1 DEF ToJson
      <4> QED BY <3>1, <3>2, <4>1, <4>2, <4>3 DEF ToLua, Stripped, P, j
    <3>5. CASE ~IsA("table", l) /\ ~IsA("scalar", l)
      <4>1. l = Userdata
        BY <3>5, DecodedKinds
      <4>2. j = Null
        BY <3>1, <3>5 DEF ToJson
      <4>3. ~IsA("array", Null) /\ ~IsA("object", Null)
        BY DEF IsA, Null
      <4> QED BY <3>1, <3>2, <3>5, <4>1, <4>2, <4>3 DEF ToLua, Stripped, P, j
    <3> QED BY <3>3, <3>4, <3>5
  <2> QED BY <2>2
<1>2. 0..Depth \subseteq S
  <2> HIDE DEF S
  <2> QED BY <1>1, BelowInduction
<1>3. Depth \in S
  BY <1>2, KeyAssumption
<1> QED BY <1>3 DEF Decoded

-----------------------------------------------------------------------------
(* The invariant: what the last request left behind is what it came of.    *)

ConfigIsMerged ==
  config # Nil => /\ \A i \in 2..3 : IsA("table", Sources(params)[i])
                  /\ config = Merged(params)

MetadataIsAnswer == answered # Nil => metadata = lua_to_json[answered]

IInv == TypeOK /\ ConfigIsMerged /\ MetadataIsAnswer

\* The deepest level is that of all values.
LEMMA TopLevel ==
  /\ Depth \in 0..Depth
  /\ JsonValues = Level[Depth].json /\ LuaValues = Level[Depth].lua
  /\ Decoded = Level[Depth].decoded
  /\ Null \in JsonValues /\ EmptyObject \in JsonValues
  /\ Nil \in LuaValues /\ EmptyTable \in LuaTables
  /\ Answers \subseteq LuaTables
<1>1. Depth \in 0..Depth
  BY KeyAssumption
<1>2. JsonValues = Level[Depth].json /\ LuaValues = Level[Depth].lua /\ Decoded = Level[Depth].decoded
  BY DEF JsonValues, LuaValues, Decoded
<1>3. Null \in Level[Depth].json /\ Nil \in Level[Depth].lua
  BY <1>1, LevelValues
<1>4. EmptyObject \in Level[Depth].json
  <2>1. EmptyObject \in [object : [Names -> Below(Depth).json \cup {Absent}]]
    BY DEF EmptyObject, Object
  <2> QED BY <1>1, <2>1, LevelValues
<1>5. EmptyTable \in Level[Depth].lua /\ IsA("table", EmptyTable)
  <2>1. EmptyTable \in [table : [Keys -> Below(Depth).lua \cup {Nil}]]
    BY DEF EmptyTable, Table
  <2>2. IsA("table", EmptyTable)
    BY DEF EmptyTable, Table, IsA
  <2> QED BY <1>1, <2>1, <2>2, LevelValues
<1>6. Answers \subseteq LuaTables
  BY AnswerAssumption
<1> QED BY <1>1, <1>2, <1>3, <1>4, <1>5, <1>6 DEF LuaTables

LEMMA ConversionsStay ==
  /\ \A j \in JsonValues : json_to_lua[j] \in LuaValues
  /\ \A l \in LuaValues : lua_to_json[l] \in JsonValues
<1>1. \A j \in Level[Depth].json : json_to_lua[j] \in Level[Depth].lua
  BY TopLevel, JsonToLuaTypes
<1>2. \A l \in Level[Depth].lua : lua_to_json[l] \in Level[Depth].json
  BY TopLevel, LuaToJsonTypes
<1> QED BY <1>1, <1>2, TopLevel

\* A table of the script's stays one when it keeps an answer.
LEMMA KeepTypes == \A t, s \in LuaTables : MergeKeep(t, s) \in LuaTables
<1> SUFFICES ASSUME NEW t \in LuaTables, NEW s \in LuaTables
             PROVE  MergeKeep(t, s) \in LuaTables
  OBVIOUS
<1>1. /\ t.table \in [Keys -> Below(Depth).lua \cup {Nil}]
      /\ s.table \in [Keys -> Below(Depth).lua \cup {Nil}]
  BY TopLevel, LuaKinds DEF LuaTables
<1> DEFINE f == [k \in Keys |-> IF t.table[k] = Nil THEN s.table[k] ELSE t.table[k]]
<1>2. f \in [Keys -> Below(Depth).lua \cup {Nil}]
  BY <1>1
<1>3. MergeKeep(t, s) = Table(f)
  BY DEF MergeKeep
<1> HIDE DEF f
<1>4. Table(f) \in [table : [Keys -> Below(Depth).lua \cup {Nil}]] /\ IsA("table", Table(f))
  BY <1>2 DEF Table, IsA
<1>5. Table(f) \in LuaValues
  BY <1>4, TopLevel, LevelValues
<1> QED BY <1>3, <1>4, <1>5 DEF LuaTables

\* The metadata of an answer are an object, and what they update remains one.
LEMMA UpdateTypes ==
  ASSUME NEW j \in JsonValues, IsA("object", j) \/ j = Null, NEW m \in Answers
  PROVE  Update(j, lua_to_json[m]) \in JsonValues /\ IsA("object", Update(j, lua_to_json[m]))
<1> DEFINE u == lua_to_json[m]
<1>1. u \in JsonValues /\ IsA("object", u)
  <2>1. m \in LuaValues /\ IsA("table", m) /\ IsRecord(m.table)
    BY AnswerAssumption DEF LuaTables
  <2>2. ~(Size(m.table) > 0)
    BY <2>1, SizeOfRecord
  <2>3. u = ToJson(lua_to_json, m)
    BY <2>1, LuaToJsonIs
  <2>4. IsA("object", u)
    BY <2>1, <2>2, <2>3 DEF ToJson, Object, IsA
  <2> QED BY <2>1, <2>4, ConversionsStay
<1> HIDE DEF u
<1>2. u.object \in [Names -> Below(Depth).json \cup {Absent}]
  BY <1>1, TopLevel, JsonKinds
<1>3. j # Null => j.object \in [Names -> Below(Depth).json \cup {Absent}]
  BY TopLevel, JsonKinds
<1> DEFINE f == [k \in Names |->
                   IF u.object[k] # Absent \/ j = Null THEN u.object[k] ELSE j.object[k]]
<1>4. f \in [Names -> Below(Depth).json \cup {Absent}]
  BY <1>2, <1>3
<1>5. Update(j, u) = Object(f)
  BY DEF Update
<1> HIDE DEF f
<1>6. Object(f) \in [object : [Names -> Below(Depth).json \cup {Absent}]] /\ IsA("object", Object(f))
  BY <1>4 DEF Object, IsA
<1>7. Object(f) \in JsonValues
  BY <1>6, TopLevel, LevelValues
<1> QED BY <1>5, <1>6, <1>7 DEF u

\* What a provider is registered with are JSON values.
LEMMA LoadedTypes ==
  ASSUME NEW f \in Files \cup {Missing}
  PROVE  /\ load_provider_config(f).parameters \in JsonValues
         /\ load_provider_config(f).metadata \in JsonValues
         /\ \/ IsA("object", load_provider_config(f).metadata)
            \/ load_provider_config(f).metadata = Null
<1>1. CASE f = Missing
  BY <1>1, TopLevel DEF load_provider_config
<1>2. CASE f # Missing
  <2>1. /\ f.parameters \in JsonValues \cup {Absent}
        /\ f.metadata \in JsonValues \cup {Absent}
        /\ IsA("object", f.metadata) \/ f.metadata \in {Null, Absent}
    BY <1>2, FileAssumption
  <2>2. IsA("object", EmptyObject)
    BY DEF EmptyObject, Object, IsA
  <2> QED BY <1>2, <2>1, <2>2, TopLevel DEF load_provider_config, Value
<1> QED BY <1>1, <1>2

\* Tables are merged into a table.
LEMMA MergedTypes ==
  ASSUME NEW ps \in [config : LuaValues, options : LuaValues],
         \A i \in 2..3 : IsA("table", Sources(ps)[i])
  PROVE  /\ \A i \in 1..3 : Sources(ps)[i] \in LuaTables
         /\ Merged(ps) \in LuaTables
<1>1. /\ Sources(ps)[1] = Defaults
      /\ Sources(ps)[2] = OrEmpty(ps.config)
      /\ Sources(ps)[3] = OrEmpty(ps.options)
  BY DEF Sources
<1>2. OrEmpty(ps.config) \in LuaValues /\ OrEmpty(ps.options) \in LuaValues
  BY TopLevel DEF OrEmpty, LuaTables
<1>3. Sources(ps)[1] \in LuaTables
  BY <1>1, DefaultsAssumption
<1>4. Sources(ps)[2] \in LuaTables /\ Sources(ps)[3] \in LuaTables
  BY <1>1, <1>2 DEF LuaTables
<1>5. Merged(ps) \in LuaTables
  <2>1. force[Sources(ps)[1]][Sources(ps)[2]] \in LuaTables
    BY <1>3, <1>4, MergedIsTable
  <2>2. force[force[Sources(ps)[1]][Sources(ps)[2]]][Sources(ps)[3]] \in LuaTables
    BY <2>1, <1>4, MergedIsTable
  <2> QED BY <2>2 DEF Merged, MergeForce
<1>6. \A i \in 1..3 : i = 1 \/ i = 2 \/ i = 3
  OBVIOUS
<1> QED BY <1>3, <1>4, <1>5, <1>6

LEMMA RequestTypes ==
  ASSUME TypeOK, Request
  PROVE  params' \in [config : LuaValues, options : LuaValues]
<1>1. PICK o \in OptionSets :
        params' = [config  |-> json_to_lua[load_provider_config(file).parameters],
                   options |-> json_to_lua[o]]
  BY DEF Request
<1>2. load_provider_config(file).parameters \in JsonValues /\ o \in JsonValues
  BY LoadedTypes, OptionAssumption DEF TypeOK
<1> QED BY <1>1, <1>2, ConversionsStay

\* A failed request leaves no answer.
LEMMA FailTypes ==
  ASSUME TypeOK, Fail
  PROVE  /\ registered' \in BOOLEAN /\ file' \in Files \cup {Missing}
         /\ shared' \in JsonValues /\ (IsA("object", shared') \/ shared' = Null)
         /\ metadata' \in JsonValues
         /\ answered' \in Answers \cup {Nil}
         /\ MetadataIsAnswer'
BY TopLevel DEF TypeOK, Fail, MetadataIsAnswer

\* A request that gets as far as the handler has merged its tables.
LEMMA AskTypes ==
  ASSUME TypeOK, Ask
  PROVE  /\ params' \in [config : LuaValues, options : LuaValues]
         /\ config' \in LuaTables
         /\ ConfigIsMerged'
<1>1. params' \in [config : LuaValues, options : LuaValues]
  BY RequestTypes DEF Ask
<1>2. /\ \A i \in 2..3 : IsA("table", Sources(params')[i])
      /\ config' = Merged(params')
  BY DEF Ask
<1>3. config' \in LuaTables
  BY <1>1, <1>2, MergedTypes
<1>4. ConfigIsMerged'
  BY <1>2 DEF ConfigIsMerged
<1> QED BY <1>1, <1>3, <1>4

LEMMA InvInit == Init => IInv
<1> SUFFICES ASSUME Init PROVE IInv
  OBVIOUS
<1>1. TypeOK
  BY TopLevel DEF Init, TypeOK
<1> QED BY <1>1 DEF Init, IInv, ConfigIsMerged, MetadataIsAnswer

LEMMA InvNext == IInv /\ [Next]_vars => IInv'
<1> SUFFICES ASSUME IInv, [Next]_vars PROVE IInv'
  OBVIOUS
<1> USE DEF IInv
<1>1. TypeOK /\ ConfigIsMerged /\ MetadataIsAnswer
  OBVIOUS
<1>2. CASE Register
  <2>1. file' \in Files \cup {Missing}
    BY <1>2 DEF Register
  <2>2. shared' \in JsonValues /\ (IsA("object", shared') \/ shared' = Null)
    BY <1>2, <2>1, LoadedTypes DEF Register
  <2>3. TypeOK'
    BY <1>1, <1>2, <2>1, <2>2 DEF Register, TypeOK
  <2>4. ConfigIsMerged' /\ MetadataIsAnswer'
    BY <1>1, <1>2 DEF Register, ConfigIsMerged, MetadataIsAnswer
  <2> QED BY <2>3, <2>4
<1>3. CASE NotRegistered
  <2>1. Fail /\ config' = Nil /\ kept' = kept /\ params' = params
    BY <1>3 DEF NotRegistered
  <2>2. TypeOK' /\ MetadataIsAnswer'
    BY <1>1, <2>1, FailTypes DEF TypeOK
  <2> QED BY <2>1, <2>2 DEF ConfigIsMerged
<1>4. CASE SourceInvalid
  <2>1. Request /\ Fail /\ config' = Nil /\ kept' = kept
    BY <1>4 DEF SourceInvalid
  <2>2. TypeOK' /\ MetadataIsAnswer'
    BY <1>1, <2>1, FailTypes, RequestTypes DEF TypeOK
  <2> QED BY <2>1, <2>2 DEF ConfigIsMerged
<1>5. ASSUME Ask, Fail, kept' \in LuaTables
      PROVE  IInv'
  <2>1. TypeOK' /\ MetadataIsAnswer'
    BY <1>1, <1>5, FailTypes, AskTypes DEF TypeOK
  <2> QED BY <1>1, <1>5, <2>1, AskTypes
<1>6. CASE Refuse
  <2>1. Ask /\ Fail /\ kept' = kept
    BY <1>6 DEF Refuse
  <2> QED BY <2>1, <1>1, <1>5 DEF TypeOK
<1>7. CASE HandlerFails
  <2>1. Ask /\ Fail /\ kept' = kept
    BY <1>7 DEF HandlerFails
  <2> QED BY <2>1, <1>1, <1>5 DEF TypeOK
<1>8. CASE AnswerLost
  <2>1. PICK m \in Answers : kept' = MergeKeep(kept, m)
    BY <1>8 DEF AnswerLost
  <2>2. Ask /\ Fail
    BY <1>8 DEF AnswerLost
  <2>3. kept' \in LuaTables
    BY <2>1, <1>1, TopLevel, KeepTypes DEF TypeOK
  <2> QED BY <2>2, <2>3, <1>5
<1>9. CASE Answer
  <2>1. /\ Ask /\ answered' \in Answers /\ metadata' = lua_to_json[answered']
        /\ kept' = MergeKeep(kept, answered') /\ shared' = Update(shared, metadata')
        /\ registered' = registered /\ file' = file
    BY <1>9 DEF Answer
  <2>2. answered' \in LuaTables /\ answered' \in LuaValues
    BY <2>1, TopLevel DEF LuaTables
  <2>3. metadata' \in JsonValues
    BY <2>1, <2>2, ConversionsStay
  <2>4. kept' \in LuaTables
    BY <2>1, <2>2, <1>1, KeepTypes DEF TypeOK
  <2>5. shared' \in JsonValues /\ IsA("object", shared')
    BY <2>1, <1>1, UpdateTypes DEF TypeOK
  <2>6. TypeOK'
    BY <1>1, <2>1, <2>3, <2>4, <2>5, AskTypes DEF TypeOK
  <2>7. MetadataIsAnswer'
    BY <2>1 DEF MetadataIsAnswer
  <2> QED BY <1>1, <2>1, <2>6, <2>7, AskTypes
<1>10. CASE UNCHANGED vars
  BY <1>1, <1>10 DEF vars, TypeOK, ConfigIsMerged, MetadataIsAnswer
<1> QED BY <1>2, <1>3, <1>4, <1>6, <1>7, <1>8, <1>9, <1>10 DEF Next

LEMMA Invariant == Spec => []IInv
<1>1. Init => IInv
  BY InvInit
<1>2. IInv /\ [Next]_vars => IInv'
  BY InvNext
<1> QED BY <1>1, <1>2, PTL DEF Spec

-----------------------------------------------------------------------------
(* Theorems.                                                               *)

\* The state keeps its types: conversions and merges of provider_manager.h and
\* provider.lua never nest deeper than what they are given.
THEOREM TypeCorrect == Spec => []TypeOK
<1>1. IInv => TypeOK
  BY DEF IInv
<1> QED BY <1>1, Invariant, PTL

\* Whatever the defaults, the file and an agent's options are, what is at a path
\* of the configuration comes of the last of them that says anything about it.
THEOREM SettingsAlwaysHavePriority == Spec => []SettingsHavePriority
<1>1. IInv => SettingsHavePriority
  <2> SUFFICES ASSUME IInv, config # Nil, NEW path \in Paths
               PROVE  \/ /\ At(config, path) = Nil
                         /\ \A i \in 1..3 : ~Overrides(Sources(params)[i], path)
                      \/ \E i \in 1..3 :
                           /\ Overrides(Sources(params)[i], path)
                           /\ \A j \in i + 1..3 : ~Overrides(Sources(params)[j], path)
                           /\ Agrees(At(config, path), At(Sources(params)[i], path))
    BY DEF SettingsHavePriority
  <2> DEFINE src == Sources(params)
             first == force[src[1]][src[2]]
  <2>1. PICK n \in 1..Depth : path \in [1..n -> Keys]
    BY DEF Paths
  <2>2. /\ params \in [config : LuaValues, options : LuaValues]
        /\ \A i \in 2..3 : IsA("table", src[i])
        /\ config = Merged(params)
    BY DEF IInv, TypeOK, ConfigIsMerged
  <2>3. src[1] \in LuaTables /\ src[2] \in LuaTables /\ src[3] \in LuaTables
    BY <2>2, MergedTypes
  <2>4. config = force[first][src[3]]
    BY <2>2 DEF Merged, MergeForce
  <2>5. first \in LuaTables
    BY <2>3, MergedIsTable
  <2> HIDE DEF src
  <2>6. IF Overrides(src[2], path) THEN Agrees(At(first, path), At(src[2], path))
                                   ELSE At(first, path) = At(src[1], path)
    BY <2>1, <2>3, MergeAlongPath
  <2> HIDE DEF first
  <2>7. IF Overrides(src[3], path) THEN Agrees(At(config, path), At(src[3], path))
                                   ELSE At(config, path) = At(first, path)
    BY <2>1, <2>3, <2>4, <2>5, MergeAlongPath
  <2>8. Overrides(src[1], path) \/ At(src[1], path) = Nil
    <3>1. Len(path) = n /\ n \in 1..n
      BY <2>1, KeyAssumption, TrailIs
    <3> QED BY <3>1 DEF Overrides, At
  <2>9. CASE Overrides(src[3], path)
    <3>1. 3 \in 1..3 /\ \A j \in 3 + 1..3 : FALSE
      OBVIOUS
    <3> QED BY <2>7, <2>9, <3>1 DEF src
  <2>10. CASE ~Overrides(src[3], path) /\ Overrides(src[2], path)
    <3>1. 2 \in 1..3 /\ \A j \in 2 + 1..3 : j = 3
      OBVIOUS
    <3>2. Agrees(At(config, path), At(src[2], path))
      BY <2>6, <2>7, <2>10
    <3> QED BY <2>10, <3>1, <3>2 DEF src
  <2>11. CASE ~Overrides(src[3], path) /\ ~Overrides(src[2], path)
    <3>1. At(config, path) = At(src[1], path)
      BY <2>6, <2>7, <2>11
    <3>2. CASE Overrides(src[1], path)
      <4>1. 1 \in 1..3 /\ \A j \in 1 + 1..3 : j = 2 \/ j = 3
        OBVIOUS
      <4>2. Agrees(At(config, path), At(src[1], path))
        BY <3>1 DEF Agrees
      <4> QED BY <2>11, <3>2, <4>1, <4>2 DEF src
    <3>3. CASE ~Overrides(src[1], path)
      <4>1. At(config, path) = Nil
        BY <2>8, <3>1, <3>3
      <4>2. \A i \in 1..3 : i = 1 \/ i = 2 \/ i = 3
        OBVIOUS
      <4> QED BY <2>11, <3>3, <4>1, <4>2 DEF src
    <3> QED BY <3>2, <3>3
  <2> QED BY <2>9, <2>10, <2>11
<1> QED BY <1>1, Invariant, PTL

\* An answer's metadata, stored by the agent as JSON, reach the provider again
\* with the next request as they were, but for nulls, however deep they are.
THEOREM MetadataAlwaysReturn == Spec => []MetadataReturn
<1>1. IInv => MetadataReturn
  <2> SUFFICES ASSUME IInv, answered # Nil
               PROVE  json_to_lua[metadata] = WithoutNulls[answered]
    BY DEF MetadataReturn
  <2>1. metadata = lua_to_json[answered] /\ answered \in Answers
    BY DEF IInv, TypeOK, MetadataIsAnswer
  <2>2. answered \in Decoded
    BY <2>1, AnswerAssumption
  <2> QED BY <2>1, <2>2, RoundTrip
<1> QED BY <1>1, Invariant, PTL

=============================================================================
