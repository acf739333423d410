SPECIFICATION Spec
CONSTANTS
  None = None
  Absent = Absent
  t1 = t1
  t2 = t2
  a1 = a1
  a2 = a2
  a3 = a3
  k1 = k1
  k2 = k2
  k3 = k3
  Tabs = {t1, t2}
  Screen <- TwoSingle
  Attempts = {a1, a2}
  RequestIds = {k1, k2}
  Forms <- RaisedForms
  MaxApprovals = 2
SYMMETRY Symmetry
INVARIANTS
  ApprovalSpentOnce
CHECK_DEADLOCK FALSE
