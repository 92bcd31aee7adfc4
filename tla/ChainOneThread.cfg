SPECIFICATION FairSpec
CONSTANTS
  c3 = c3
  g = g
  a1 = a1
  a2 = a2
  a3 = a3
  b1 = b1
  b2 = b2
  x2 = x2
  Genesis = g
  NoBlock = NoBlock
  Block <- MCBlock
  Path <- MCPath
  Work <- MCWork
  ValidHeader <- MCBlock
  ValidBody <- MCValidBody
  Deliver <- MCDeliver
  Thread = {t1}
  MaxOrphans = 2
  Horizon = 1
  CompactSlack = 0
  ArchiveLag = 0
  ArchiveInterval = 1
  Ops = {"header", "sync", "compact"}
  Deniable = {a2}
INVARIANTS ForksConsistent NoOrphanLeft CompactionKeepsBlocks
PROPERTIES DeniedNeverJoinsHeaderChain ProcessBlockReturns
