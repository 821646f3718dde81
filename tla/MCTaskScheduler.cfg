SPECIFICATION Spec
CONSTANTS
  t1 = t1
  t2 = t2
  c1 = c1
  c2 = c2
  sched = sched
  Tasks <- TwoTasks
  Callers <- TwoCallers
  Scheduler = sched
  Capacity = 6
  MaxRuns = 2
  MaxStops = 1
  MaxRestarts = 1
  MaxImports = 1
INVARIANTS
  PoolSuffices
  NoWaitBuildup
 
CHECK_DEADLOCK FALSE
