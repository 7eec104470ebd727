SPECIFICATION Spec
CONSTANTS
  Stages = {"futu", "prediction"}
  Procs = {p1, p2}
  Admins = {a1}
  NoProc = NoProc
  MaxRows = 2
  MaxAge = 2
  RecoverAfter = 1
  Budget <- MCBudget
SYMMETRY Symmetry
INVARIANTS
  TypeOK
  OneWorkerPerLock
  ScheduledRunKeepsVerdict
  CancelledRunStops
