SPECIFICATION Spec
CONSTANTS
  t1 = t1
  tm1 = tm1
  g1 = g1
  None = None
  Task = {t1}
  Terminal = {tm1}
  Gate = {}
  Placements = {"local"}
  MaxDispatches = 3
  Deps <- NoDeps
INVARIANT ThreeFailuresBreakCircuit
