SPECIFICATION Spec
CONSTANTS
  Users = {u1, u2, u3, u4}
  MaxPackets = 2
  Period = 3
  MaxTime = 13
CHECK_DEADLOCK FALSE
SYMMETRY Symmetry
INVARIANTS TypeOK WindowQuota HeartbeatDelay
PROPERTIES WindowsApart
