CONSTANTS
  Senders = {"s1", "s2"}
  First = "s1"
  Rx = "rx"
  MaxMsgs <- MCMaxMsgs
  MaxTimeouts = 1
  MAX_STEALS = 5
  FUDGE = 9
  Calls = {"try", "recv", "deadline"}
SPECIFICATION Spec
PROPERTIES RecvIsNeverEmpty
