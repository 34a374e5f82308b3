\* Four calls of two administrators on three installations, with a restart: libraries
\* that compete, a binding and an exclusion that decide, layers, cycles, a policy that is lost.
SPECIFICATION ServiceSpec
CONSTANTS
  a1 = a1
  a2 = a2
  Admins = {a1, a2}
  Installations = {1, 2, 3}
  Interfaces = {1, 2}
  Versions = {1, 2}
  Faces <- MCFaces
  Policies <- MCPolicies
  MaxCalls = 4
  MaxStarts = 1
SYMMETRY AdminSymmetry
INVARIANTS VerdictIsRight SnapshotServesTheRecords ReverseOrderDeactivates AnalysisAgrees
CHECK_DEADLOCK FALSE
