SPECIFICATION Spec
CONSTANTS
  None = None
  Absent = Absent
  t1 = t1
  t2 = t2
  a1 = a1
  a2 = a2
  a3 = a3
  k1 = k1
  k2 = k2
  k3 = k3
  Tabs = {t1}
  Screen <- OneSingle
  Attempts = {a1, a2, a3}
  RequestIds = {k1, k2}
  Forms <- PlainForms
  MaxApprovals = 0
SYMMETRY Symmetry
INVARIANTS
  TypeOK
  OneSavePerKey
  SuccessIsOwnSave
  LaterChangeRefused
PROPERTIES
  ImplementsLedger
CHECK_DEADLOCK FALSE
