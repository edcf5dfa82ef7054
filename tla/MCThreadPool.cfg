\* Two threads share the pool: submissions and shutdowns race.
CONSTANTS
  worker_count = 3
  Callers = {c1, c2}
  Tasks = {t1, t2, t3}
  NoTask = NoTask
SPECIFICATION FairSpec
INVARIANTS
  TypeOK
  EveryTaskInOnePlace
  DrainBeforeExit
  NoLostWakeup
  JoinedMeansDrained
PROPERTIES
  ImplementsContract
  EveryTaskCompletes
  ShutdownReturns
