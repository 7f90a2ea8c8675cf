SPECIFICATION Spec
CONSTANTS
  r1 = r1
  r2 = r2
  r3 = r3
  a = a
  b = b
  x = x
  y = y
  z = z
  Requests = {r1, r2}
  AgentIds = {a, b}
  Configs = {x}
  NotObject = NotObject
  Unsaveable = {}
  Inputs <- NoDeleteInput
  CrashInWrite = FALSE
  NoObject = NoObject
  NoDoc = NoDoc
  NoInput = NoInput
  Nobody = Nobody
  Exiter = Exiter
INVARIANT
  UpdateIsAccepted
