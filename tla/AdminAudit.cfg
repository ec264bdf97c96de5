SPECIFICATION Spec
CONSTANTS
  Governors = {"ledger", "finance", "insurance", "cybersecurity"}
  Admins = {a1, a2}
  Reconciler = r1
  MaxRows = 4
  MaxFaults = 1
SYMMETRY MCAdminSymmetry
INVARIANTS
  QuietActionsStayOnChain
  ClearsAreAudited
CHECK_DEADLOCK FALSE
