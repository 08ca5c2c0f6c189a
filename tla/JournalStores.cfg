CONSTANTS
    p1 = p1
    p2 = p2
    c1 = c1
    Nobody = Nobody
    Garbled = Garbled
    NoRow = NoRow
    NoRef = NoRef
    NoNote = NoNote
    JunkNote = JunkNote
    Processes <- TwoProcesses
    Contents <- OneContent
    Legacy <- AsFound
    LegacyIds = {1, 2}
    MaxId = 3

SPECIFICATION Spec
SYMMETRY ProcessSymmetry
INVARIANT TypeOK
INVARIANT StoreChainVerifies
INVARIANT MigratedOnce
INVARIANT OnlyGarbledRowsRefuse
PROPERTY IsRecordLog
