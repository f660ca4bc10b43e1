SPECIFICATION Spec
CONSTANTS
  t1 = t1
  tm1 = tm1
  g1 = g1
  None = None
  Task = {t1}
  Terminal = {tm1}
  Gate = {g1}
  Placements = {"local"}
  MaxDispatches = 2
  Deps <- NoDeps
INVARIANT ReblockRestoresGate
