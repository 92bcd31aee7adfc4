SPECIFICATION Spec
CONSTANTS
  c3 = c3
  g = g
  a1 = a1
  a2 = a2
  a3 = a3
  b1 = b1
  b2 = b2
  x2 = x2
  Genesis = g
  NoBlock = NoBlock
  Block <- MCBlock
  Path <- MCPath
  Work <- MCWork
  ValidHeader <- MCBlock
  ValidBody <- MCValidBody
  Deliver <- MCDeliver
  Thread = {t1, t2}
  MaxOrphans = 2
  Horizon = 2
  CompactSlack = 1
  ArchiveLag = 1
  ArchiveInterval = 1
  Ops = {}
  Deniable = {}
INVARIANTS NoStuckOrphan
