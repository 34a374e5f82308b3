SPECIFICATION Spec
CONSTANTS
  i1 = i1
  Installations = {i1}
  MaxTaskId = 2
  Triggers <- MCTriggers
  MaxTasksPerInstallation = 1
  MaxTotalTasks = 2
  DeliveryQueueCapacity = 1
  MinPeriodicInterval = 1
  MaxTime = 3
  MaxSkew = 1
  MaxClockFailures = 1
INVARIANTS EveryFireAccounted OnTheGrid
PROPERTIES NoFireAfterStop ImplementsLedger
CHECK_DEADLOCK FALSE
