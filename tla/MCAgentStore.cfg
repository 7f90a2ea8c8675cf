SPECIFICATION Spec
CONSTANTS
  r1 = r1
  r2 = r2
  r3 = r3
  a = a
  b = b
  x = x
  y = y
  z = z
  Requests = {r1, r2}
  AgentIds = {a, b}
  Configs = {x, y, z}
  NotObject = NotObject
  Unsaveable = {z}
  Inputs <- AnyInput
  CrashInWrite = TRUE
  NoObject = NoObject
  NoDoc = NoDoc
  NoInput = NoInput
  Nobody = Nobody
  Exiter = Exiter
INVARIANTS
  TypeOK
  FileIsDatabase
  DivergenceIsTold
PROPERTIES
  ImplementsDocs
  CreatedSurvives
  HandlersAnswer
