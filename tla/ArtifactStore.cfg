\* Two digests: both may claim one version, or one may follow the other.  Two
\* uploads, so that both may bring the same bytes.  Versions 2 and 10 sort
\* differently as numbers and as text.  Four markers: an abandoned switch, one
\* over it, a rollback, and one more.
CONSTANTS
  Digests = {d1, d2}
  Installations = {i1}
  Versions = {2, 10}
  Uploads = {u1, u2}
  MaxMarkers = 4
SYMMETRY Interchangeable
SPECIFICATION Spec
INVARIANTS CommittedBytesSurvive RecoveryDecides ActiveIsLastCommitted ActiveIsServable
PROPERTY RecoveryReconciles
CHECK_DEADLOCK TRUE
