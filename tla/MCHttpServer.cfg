SPECIFICATION ServerSpec
CONSTANTS
  t1 = t1
  t2 = t2
  e1 = e1
  e2 = e2
  Tasks = {t1, t2}
  Streams = {e1, e2}
  PoolSize = 2
  NoTask = NoTask
  Worker = Worker
  Stopper = Stopper
  Nobody = Nobody
INVARIANTS
  ServerTypeOK
  NoLostWakeup
  OnlyAcceptedRuns
PROPERTIES
  NobodyIsStuck
  CallersAreAnswered
  ImplementsExecutor
