SPECIFICATION Spec
CONSTANTS
  Users = {u1}
  Faults <- AnyFault
  MaxFaults = 2
  MaxSeq = 2
  MaxInbox = 2
  HandshakeYields = TRUE
CHECK_DEADLOCK FALSE
INVARIANTS TypeOK Inv GateOpensOnSession PacketsFollowHandshake
PROPERTIES EventsInOrder IsEventStream
