SPECIFICATION MCSpec
CONSTANTS
    g = g
    a1 = a1
    a2 = a2
    a3 = a3
    b2 = b2
    b3 = b3
    b4 = b4
    c2 = c2
    og = og
    ox = ox
    oy = oy
    oz = oz
    ow = ow
    d1 = d1
    c3 = c3
    coinbase = coinbase
    plain = plain
    th1 = th1
    th2 = th2
    th3 = th3
    Zero = Zero
    Header <- MCHeader
    Genesis = g
    ChainOf <- MCChainOf
    Work <- MCHeaderWork
    Resets = {g, a2, d1}
    MaxCrashes = 2
    Thread <- MCThread
    Op <- MCOp
    ChunkSize = 40
    InitialMap = 40
    InitialUsed = 37
    MaxOps = 3
    Stores <- MCStores
    OldRecords = {1, 2}
    Record = {2, 3}
    MaxStarts = 3
INVARIANTS   NrdIndexExact PmmrIsTree HeaderFilesRecover ResizeSafe MigrationKeepsRecords
PROPERTIES StorageProgress
CHECK_DEADLOCK FALSE
