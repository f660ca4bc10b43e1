SPECIFICATION Spec
CONSTANTS
  r1 = r1
  r2 = r2
  r3 = r3
  r4 = r4
  r5 = r5
  r6 = r6
  r7 = r7
  p = p
  q = q
  None = None
  Request = {r3}
  Kind <- OneStart
  Payload = {p}
  MaxRows = 1
  PruneBatch = 1
  MaxCalls = 2
  MaxRestarts = 0
CHECK_DEADLOCK FALSE
INVARIANT NeverDuplicated
