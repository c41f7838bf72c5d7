CONSTANTS
    Names = {"a", "d"}
    Root = "/"
    Dirs = {"d"}
    NBlocks = 2
    DevBlocks = 3
    NEntries = 1
    NSlots = 1
    d1 = d1
    d2 = d2
    Data = {d1, d2}
    Files = {f1, f2}
    f1 = f1
    f2 = f2
    h1 = h1
    h2 = h2
    Handles = {h1, h2}
    Flags <- MCFlags
    Seeks = {1}
    MaxRefs = 2
    NULL = NULL
    DELETED = DELETED
SPECIFICATION Spec
SYMMETRY Symmetry
CHECK_DEADLOCK FALSE
INVARIANTS
    ChainsSound
    WrittenIsKept
    SyncSound
