CONSTANTS
    p1 = p1
    c1 = c1
    c2 = c2
    Nobody = Nobody
    Garbled = Garbled
    Forged = Forged
    NoRow = NoRow
    NoRef = NoRef
    NoNote = NoNote
    JunkNote = JunkNote
    NoHead = NoHead
    Processes <- OneProcess
    Contents <- TwoContents
    Legacy <- TwoContents
    LegacyIds = {1}
    MaxId = 1
    Edits = {"row", "drop", "add", "field", "unlink", "insert", "swap", "wipe", "cut", "rechain"}
    MaxEdits = 2
    HeadsKept = TRUE

SPECIFICATION EditedSpec
SYMMETRY ContentSymmetry
INVARIANT HeadVouches
PROPERTY EditsReported
PROPERTY BreaksNamed
PROPERTY BreakStays
