SPECIFICATION FairSpec
CONSTANTS
  i1 = i1
  Installations = {i1}
  MaxTaskId = 2
  Triggers <- MCTriggers
  MaxTasksPerInstallation = 2
  MaxTotalTasks = 2
  DeliveryQueueCapacity = 2
  MinPeriodicInterval = 1
  MaxTime = 2
  MaxSkew = 0
  MaxClockFailures = 0
PROPERTIES InOrder DueFiresAreHandled IdleStopEnds
CHECK_DEADLOCK FALSE
