SPECIFICATION MCSpec
CONSTANTS
  o1 = o1
  o2 = o2
  o3 = o3
  o4 = o4
  o5 = o5
  Block <- MCOrphans
  Height <- MCHeight
  MaxOrphans = 3
  MaxIndex = 3
  ta = ta
  tb = tb
  tc = tc
  td = td
  te = te
  g = g
  a1 = a1
  a2 = a2
  f1 = f1
  f2 = f2
  n1 = n1
  n2 = n2
  n3 = n3
  w1 = w1
  Workers <- MCWorkers
  Fees = {0, 1}
  MaxBlocks = 1
  MaxBuilds = 1
  MaxSubmits = 2
INVARIANTS IndexExact  SuppressedHas WorkCounts
PROPERTIES ImplementsOrphanSet ReconcileExact RelayReaches 
CHECK_DEADLOCK FALSE
