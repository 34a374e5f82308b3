\* Four threads that call again and again, over two slots and a queue of one: a queue
\* that is full, waiters that are overtaken and refused, close with sleepers.
SPECIFICATION FairSpec
CONSTANTS
  t1 = t1
  t2 = t2
  t3 = t3
  t4 = t4
  Threads = {t1, t2, t3, t4}
  MaxConcurrent = 2
  MaxQueued = 1
  CounterSize = 4
INVARIANTS OneCallPerSlot NoLostWakeup
PROPERTIES ClosedGrantsNothing WaitsEnd CloseEndsWaits
