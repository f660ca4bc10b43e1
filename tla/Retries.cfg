SPECIFICATION Spec
CONSTANTS
  t1 = t1
  t2 = t2
  tm1 = tm1
  tm2 = tm2
  g1 = g1
  None = None
  Task = {t1}
  Terminal = {tm1}
  Gate = {g1}
  Placements = {"local", "federated"}
  MaxDispatches = 3
  Deps <- NoDeps
INVARIANTS TypeOK TaskMirrorsDispatch ActiveDispatchIsNewest CircuitNeedsThreeFailures BlockedMeansUncertain SupervisionMatchesDispatch
PROPERTIES CompletedTaskIsSticky SettledDispatchIsFinal
