SPECIFICATION SlowSpec
CONSTANTS
  Workers = {w1, w2}
  Offerers = {o1}
  Tasks = {t1, t2}
  NoTask = NoTask
  Free = Free
  SlowTask = t1
PROPERTIES
  WorkersRunInParallel
