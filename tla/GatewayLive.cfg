SPECIFICATION FairSpec
CONSTANTS
  Users = {u1, u2}
  Faults <- Recoverable
  MaxFaults = 2
  MaxSeq = 2
  MaxInbox = 2
  HandshakeYields = FALSE
CHECK_DEADLOCK FALSE
INVARIANTS HeartbeatSurvives
PROPERTIES Recovers BeatsForever IsFairEventStream
