SPECIFICATION Spec
CONSTANTS
  Keys = {k1, k2}
  k1 = k1
  k2 = k2
  Callers = {c1, c2}
  c1 = c1
  c2 = c2
  NoOne = NoOne
  MaxEntries = 1
  MaxRequests = 3
  MaxWrites = 1
CHECK_DEADLOCK FALSE
SYMMETRY Symmetry
INVARIANTS TypeOK OneProducer IdleInvalidationIsVisible
PROPERTIES OrderedSnapshots LiveKeyKeepsEntry ImplementsReads
