SPECIFICATION FairSpec
CONSTANTS
  None = None
  Gone = Gone
  r1 = r1
  r2 = r2
  m1 = m1
  m2 = m2
  x = x
  y = y
  Records = {r1, r2}
  Initial = {r1}
  Bodies = {x, y}
  Managers = {m1, m2}
  Ops <- Everything
INVARIANTS
  AuditExplainsStatus
  UnackedUntilAck
PROPERTIES
  NothingComesBack
  ExpiredIsPurged
CHECK_DEADLOCK FALSE
