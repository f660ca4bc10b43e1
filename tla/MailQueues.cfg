SPECIFICATION Spec
CONSTANTS
  c1 = c1
  c2 = c2
  p1 = p1
  p2 = p2
  p3 = p3
  Panes = {p1, p2, p3}
  Calls = {c1}
  NoPane = NoPane
  Kinds = {TRUE}
  PageLimit = 2
  MaxMail = 3
  MaxChanges = 1
SYMMETRY Symmetry
CHECK_DEADLOCK FALSE
INVARIANTS TypeOK MailInv
PROPERTIES RunQueue DispatchQueue
