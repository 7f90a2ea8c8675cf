SPECIFICATION Spec
CONSTANTS
  r1 = r1
  r2 = r2
  r3 = r3
  r4 = r4
  i1 = i1
  i2 = i2
  c1 = c1
  c2 = c2
  a1 = a1
  a2 = a2
  Requests = {r1, r2, r3, r4}
  AccountIds = {i1}
  CallIds = {c1}
  SipIds = {a1, a2}
  Inputs <- CallInputs
  PjErrors = {"shutdown", "hangup", "callback"}
  NoReq = NoReq
  NoTask = NoTask
  NoInput = NoInput
  NoCall = NoCall
  NoSipId = NoSipId
INVARIANTS
  OutgoingCallsTracked
  ReleasedForGood
SYMMETRY Symmetry
