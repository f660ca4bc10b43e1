SPECIFICATION Spec
CONSTANTS
  c1 = c1
  c2 = c2
  p1 = p1
  p2 = p2
  p3 = p3
  Panes = {p1, p2}
  Calls = {c1, c2}
  NoPane = NoPane
  Kinds = {TRUE, FALSE}
  PageLimit = 1
  MaxMail = 1
  MaxChanges = 1
CHECK_DEADLOCK FALSE
INVARIANTS AcknowledgedOnce OutstandingIsCurrent RunWaiterIsCurrent ErrorMeansNothingAcknowledged
PROPERTIES WaiterIsWoken
