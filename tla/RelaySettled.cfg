SPECIFICATION Spec
CONSTANTS
  Protocols = {2, 3}
  Supports <- Always
  PageSize = 2
  MaxPages = 2
  Quota = 4
  Kinds = {"status", "succeeded"}
  MaxSent = 2
  MaxDown = 2
  MaxFaults = 1
  MaxEpoch = 1
  MaxRestarts = 1
CHECK_DEADLOCK FALSE
INVARIANTS ChannelInv
PROPERTIES OrderedChannel ImportedIsAcked DownMailArrives PlainRelayRests
