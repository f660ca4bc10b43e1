SPECIFICATION Spec
CONSTANTS
  Protocols = {3}
  Supports <- Always
  PageSize = 2
  MaxPages = 1
  Quota = 2
  Kinds = {"status", "heartbeat", "succeeded"}
  MaxSent = 4
  MaxDown = 0
  MaxFaults = 1
  MaxEpoch = 1
  MaxRestarts = 0
CHECK_DEADLOCK FALSE
INVARIANTS CommittedWithItsMessage
