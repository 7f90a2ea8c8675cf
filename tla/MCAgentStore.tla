---------------------------- MODULE MCAgentStore ----------------------------
(* AgentStore for TLC.                                                     *)
EXTENDS AgentStore, TLC

CONSTANTS r1, r2, r3, a, b, x, y, z

Symmetry == Permutations(Requests)

Input(kind, id, cfg) == [kind |-> kind, id |-> id, config |-> cfg]

Writes(kinds, ids) ==
  {Input(k, i, c) : k \in kinds, i \in ids, c \in Configs \cup {NotObject}}
Deletes(ids) == {Input("delete", i, NotObject) : i \in ids}

AnyInput == Writes({"post", "put"}, {a, b}) \cup Deletes({a, b})
NoDeleteInput == Writes({"post", "put"}, {a, b})
DeleteOtherInput == {Input("post", a, x), Input("post", b, x)} \cup Deletes({b})
=============================================================================
