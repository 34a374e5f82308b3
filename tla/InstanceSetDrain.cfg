\* One delivery that is running when drain is asked for.
SPECIFICATION Spec
CONSTANTS
  t1 = t1
  t2 = t2
  t3 = t3
  t4 = t4
  Threads = {t1, t2}
  MaxConcurrent = 2
  MaxQueued = 1
  CounterSize = 4
INVARIANTS DrainWaitsForDeliveries
