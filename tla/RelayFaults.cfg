SPECIFICATION Spec
CONSTANTS
  Protocols = {3}
  Supports <- Sometimes
  PageSize = 2
  MaxPages = 1
  Quota = 2
  Kinds = {"heartbeat", "succeeded", "failed"}
  MaxSent = 3
  MaxDown = 1
  MaxFaults = 1
  MaxEpoch = 2
  MaxRestarts = 1
CHECK_DEADLOCK FALSE
INVARIANTS AckedMeansImported WatermarkIsAcked HomeDecides DownAckedMeansImported TypeOK RelayInv
