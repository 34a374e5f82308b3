\* Two installations, so that a transaction of one meets commands of the other;
\* two keys, so that a migration can rewrite one row and leave the other; three
\* versions, so that a version can be skipped and a downgrade asked for.
CONSTANTS
  Installations = {s1, s2}
  Keys = {k1, k2}
  Values = {w}
  Versions = {0, 1, 2}
  MaxTx = 2
SYMMETRY KeySymmetry
SPECIFICATION StoreSpec
INVARIANT VersionCoversRows
PROPERTY DurableStore
CHECK_DEADLOCK TRUE
