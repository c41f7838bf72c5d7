CONSTANTS
    i1 = i1
    s1 = s1
    Ide = {i1}
    Ahci = {s1}
    Machines <- MCMachines
    NBlocks = 3
    BlockSize = 2
    NSlots = 2
    Lba28 = 4
    Lba32 = 4
    Data = {0, 1}
    Zero = 0
    Ranges <- MCRanges
    Buffers <- MCBuffers
    NoReq = NoReq
SPECIFICATION Spec
INVARIANTS
    CacheSound
PROPERTIES
    ImplementsDisk
