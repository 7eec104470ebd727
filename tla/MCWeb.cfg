SPECIFICATION FairWebSpec
CONSTANTS
  Parts = {"pool", "universe", "cache", "sync"}
  Callers = {1, 2, 3}
  Diallers = {3}
  NoCaller = 0
  MaxConn = 2
  MinConn = 1
  MaxUses = 4
  MaxOutages = 2
  m1 = m1
  m2 = m2
  u1 = u1
  f1 = f1
  LocalCodes = {m1, m2}
  UpstreamCodes = {u1}
  FallbackCodes = {f1}
  Loaders = {1, 2}
  NoLoader = 0
  MaxChanges = 2
  MaxFailedReads = 1
CHECK_DEADLOCK FALSE
INVARIANTS WebTypeOK SlotsConserved QuietChangeIsVisible
PROPERTIES CallsEnd UniverseOfWebConverges SlotIsReleased StrandedRunIsRecovered
