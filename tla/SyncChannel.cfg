SPECIFICATION SyncSpec
CONSTANTS
  Senders = {"s1", "s2", "s3"}
  First = "s1"
  Rx = "rx"
  Caps = {0, 1}
  MaxMsgs <- MCMaxMsgs
INVARIANTS
  SyncAsserts
  HandedOver
  HungUpIsFinal
PROPERTIES
  SyncProgress
