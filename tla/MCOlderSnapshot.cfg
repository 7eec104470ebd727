SPECIFICATION Spec
CONSTANTS
  Keys = {k1}
  k1 = k1
  Callers = {c1, c2}
  c1 = c1
  c2 = c2
  NoOne = NoOne
  MaxEntries = 1
  MaxRequests = 4
  MaxWrites = 1
CHECK_DEADLOCK FALSE
SYMMETRY Symmetry
PROPERTY NeverOlderSnapshot
