SPECIFICATION Spec
CONSTANTS
  t1 = t1
  t2 = t2
  tm1 = tm1
  tm2 = tm2
  g1 = g1
  None = None
  Task = {t1, t2}
  Terminal = {tm1, tm2}
  Gate = {}
  Placements = {"local", "federated"}
  MaxDispatches = 2
  Deps <- ChainDeps
SYMMETRY TerminalSymmetry
INVARIANTS
  OneActiveDispatchPerTerminal
  CapabilityEndsWithDispatch
  IInv
PROPERTIES NoStrandedChild SupervisedOwnership OwnershipSpec
