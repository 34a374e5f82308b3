\* Four operations on two installations of a library and its application.
SPECIFICATION Spec
CONSTANTS
  none = none
  l1 = l1
  l2 = l2
  x2 = x2
  ap = ap
  cap = cap
  NoDigest = none
  Digests = {l1, l2, x2, ap}
  Capabilities = {cap}
  Installations = {1, 2}
  Interfaces = {1}
  Versions = {1, 2}
  Product <- MCProduct
  Version <- MCVersion
  FaceOf <- MCFaceOf
  Uses <- MCUses
  SchemaOf <- MCSchemaOf
  Policies <- MCPolicies
  MaxOps = 4
INVARIANTS ServedIsRecorded RollbackTargetIsPrevious ServedCanBeLeft
 
CHECK_DEADLOCK FALSE
