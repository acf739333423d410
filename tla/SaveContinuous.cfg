SPECIFICATION FairSpec
CONSTANTS
  None = None
  Absent = Absent
  t1 = t1
  t2 = t2
  a1 = a1
  a2 = a2
  a3 = a3
  k1 = k1
  k2 = k2
  k3 = k3
  Tabs = {t1}
  Screen <- OneContinuous
  Attempts = {a1, a2}
  RequestIds = {k1, k2}
  Forms <- LotForms
  MaxApprovals = 1
INVARIANTS
  LotsNeverReused
PROPERTIES
  EveryRequestAnswered
CHECK_DEADLOCK FALSE
