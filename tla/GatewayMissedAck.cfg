SPECIFICATION FairSpec
CONSTANTS
  Users = {u1}
  Faults <- AnyFault
  MaxFaults = 0
  MaxSeq = 2
  MaxInbox = 2
  HandshakeYields = FALSE
CHECK_DEADLOCK FALSE
PROPERTIES Recovers
