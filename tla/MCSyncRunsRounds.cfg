SPECIFICATION Spec
CONSTANTS
  Stages = {"stock_names"}
  Procs = {p1}
  Admins = {a1}
  NoProc = NoProc
  MaxRows = 4
  MaxAge = 2
  RecoverAfter = 1
  Budget <- MCBudget
INVARIANT
  EarlierRequestsFulfilled
PROPERTY
  ImplementsLedger
