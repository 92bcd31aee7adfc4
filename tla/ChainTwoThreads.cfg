SPECIFICATION Spec
CONSTANTS
  c3 = c3
  g = g
  a1 = a1
  a2 = a2
  a3 = a3
  b1 = b1
  b2 = b2
  x2 = x2
  Genesis = g
  NoBlock = NoBlock
  Block <- TwoBlock
  Path <- TwoPath
  Work <- TwoWork
  ValidHeader <- TwoBlock
  ValidBody <- TwoBlock
  Deliver <- TwoDeliver
  Thread = {t1, t2}
  MaxOrphans = 1
  Horizon = 1
  CompactSlack = 0
  ArchiveLag = 0
  ArchiveInterval = 1
  Ops = {"reset", "compact"}
  Deniable = {}
SYMMETRY Threads
INVARIANTS HeaderMmrIsPath BodyMmrAtHead RewindReady HeadsInOrder
