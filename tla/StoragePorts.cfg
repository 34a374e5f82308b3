\* Two callers over one installation: one inserts it, activates it or upgrades it while
\* the other reads, disables, upgrades or removes it, or puts its config or a secret.
\* Three versions and two seconds, so that the rollback target can be a tie and can be
\* none of the last served.
CONSTANTS
  Installations = {i1}
  Versions = {1, 2, 3}
  Callers = {c1, c2}
  LastSecond = 1
  MaxCalls = 5

SPECIFICATION Spec
INVARIANTS AnswersWereTrue PromisedIsKept
PROPERTY ImplementsInstallations
CHECK_DEADLOCK FALSE
