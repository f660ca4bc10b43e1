SPECIFICATION Spec
CONSTANTS
  Protocols = {3}
  Supports <- Always
  PageSize = 2
  MaxPages = 2
  Quota = 4
  Kinds = {"status", "succeeded"}
  MaxSent = 2
  MaxDown = 0
  MaxFaults = 0
  MaxEpoch = 2
  MaxRestarts = 0
CHECK_DEADLOCK FALSE
PROPERTIES RelayRests
