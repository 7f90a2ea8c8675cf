---------------------------- MODULE MCSipManager ----------------------------
(* SipManager for TLC.                                                     *)
EXTENDS SipManager, TLC

CONSTANTS r1, r2, r3, r4, i1, i2, c1, c2, a1, a2

Symmetry == Permutations(Requests) \cup Permutations(SipIds)

Input(kind, key, agent) == [kind |-> kind, key |-> key, agent |-> agent]

\* Everything that may be asked of one account id and one call id, and accounts
\* with and without an agent.
AnyInput ==
  {Input(k, i1, TRUE) : k \in {"post", "put", "badput", "delete", "make"}}
  \cup {Input("post", i1, FALSE), Input("hangup", c1, TRUE)}

\* One account with an agent, and its calls: enough for ids to be reused.
CallInputs ==
  {Input("post", i1, TRUE), Input("delete", i1, TRUE), Input("make", i1, TRUE),
   Input("hangup", c1, TRUE)}

\* An account without agent, and a call made from it.
NoAgentInputs == {Input("post", i1, FALSE), Input("make", i1, TRUE)}
=============================================================================
