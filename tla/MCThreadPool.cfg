SPECIFICATION Spec
CONSTANTS
  Workers = {w1, w2, w3}
  Offerers = {o1, o2}
  Tasks = {t1, t2, t3}
  NoTask = NoTask
  Free = Free
INVARIANTS
  TypeOK
  TasksStartInOrder
  OneTaskAtATime
  NoLostWakeup
  NobodySleepsThroughShutdown
  GoneMeansQuiet
PROPERTIES
  NothingStartsAfterDone
  ImplementsSafeExecutor
  ImplementsExecutor
  DestructorReturns
