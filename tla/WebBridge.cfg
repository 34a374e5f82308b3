\* Three requests of any kinds, an upgrade, the rollback and the removal.  Every
\* limit is reached: the gate lets two in, and one call may be queued.
SPECIFICATION Spec
CONSTANTS
  r1 = r1
  r2 = r2
  r3 = r3
  d1 = d1
  d2 = d2
  Requests = {r1, r2, r3}
  Mixes <- MCMixes
  Digest <- MCUpgradeAndBack
  GuardedPage = {d2}
  MaxConcurrent = 1
  GateInFlight = 2
  QuotaConcurrent = 2
  QuotaQueued = 1
  CacheEntries = 1
INVARIANTS ServedWasActive SlotsComeBack
CHECK_DEADLOCK FALSE
