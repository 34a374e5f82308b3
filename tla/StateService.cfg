\* One guest and one upgrade over fair threads, with a cancelled request of somebody
\* else and a restart at any point: enough for a migration to begin, commit or be rolled
\* back between any two commands of a guest's call, and for either to hold the handle of
\* a transaction that was rolled back while the other begins one.  Two keys, so that a
\* migration can rewrite one row and leave the other; the guest's migrate may end its
\* own transaction.  One value: a row is told apart by its presence and its version.
CONSTANTS
  Installations = {s1}
  Keys = {k1, k2}
  Values = {w1}
  Versions = {0, 1, 2}
  MaxTx = 3
  Guests = {g1}
  Upgrades = {u1}
  GuestOps = {"get", "cas", "tx"}
  SeedVersion = 1
  MaxTxOps = 2
  MaxCancels = 1
  MaxRestarts = 1
  AuditInStore = FALSE
  ParallelUpgrades = FALSE
  MigrationEndsTx = TRUE
SPECIFICATION FairSpec
INVARIANTS TransactionIsHeld OutcomeMatchesStore
PROPERTIES OnlyOwnerWrites CallsReturn
CHECK_DEADLOCK FALSE
