----------------------------- MODULE MCProvider -----------------------------
(* Provider for TLC.                                                       *)
EXTENDS Provider

Idx == <<"[1]", "[2]">>
Strings == {"api_key", "stop", "model", "usage"}
Values == {"secret", "file", "agent", "m", "x"}

Obj(f) == Object([k \in Strings |-> IF k \in DOMAIN f THEN f[k] ELSE Absent])
Tab(f) == Table([k \in Strings \cup {Idx[i] : i \in DOMAIN Idx} |-> IF k \in DOMAIN f THEN f[k] ELSE Nil])
List(s) == Tab([k \in {Idx[i] : i \in DOMAIN s} |-> s[CHOOSE i \in DOMAIN s : Idx[i] = k]])
NoFields == [k \in {} |-> Nil]

\* Settings as a configuration has them: scalars, lists and one level below.
Shapes(name) ==
  {Scalar(name), Null, Array(<<>>), Array(<<Scalar(name), Scalar("x")>>),
   Obj([model |-> Scalar(name)]), Obj([usage |-> Array(<<Null, Scalar(name)>>)])}

Settings(name) ==
  {Obj([stop |-> v]) : v \in Shapes(name)}
  \cup {Obj([api_key |-> Scalar("secret"), stop |-> v]) : v \in Shapes(name)}
  \cup {Obj(NoFields), Null, Scalar(name)}

DefaultTable == Tab([model |-> Scalar("m"), stop |-> Scalar("x")])
FileSet ==
  {Missing, [parameters |-> Absent, metadata |-> Obj([model |-> Scalar("x")])]}
  \cup [parameters : Settings("file"), metadata : {Absent}]
OptionSet == Settings("agent")

AnswerSet ==
  {Tab([usage |-> List(<<Scalar("x"), Userdata>>)]),
   Tab([usage |-> Tab([stop |-> Userdata, model |-> Scalar("m")])]), Tab(NoFields)}
=============================================================================
