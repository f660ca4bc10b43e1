SPECIFICATION Spec
CONSTANTS
  r1 = r1
  r2 = r2
  r3 = r3
  r4 = r4
  r5 = r5
  r6 = r6
  r7 = r7
  p = p
  q = q
  None = None
  Request = {r1, r2, r3, r4, r5, r6, r7}
  Kind <- AllKinds
  Payload = {p, q}
  MaxRows = 2
  PruneBatch = 1
  MaxCalls = 3
  MaxRestarts = 2
SYMMETRY PayloadSymmetry
CHECK_DEADLOCK FALSE
INVARIANTS AtMostOneEffect LedgerBounded SuccessMeansEffect 
