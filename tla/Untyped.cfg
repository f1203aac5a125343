SPECIFICATION Spec
CONSTANTS
    SLOTS = 4
    Bytes <- MCBytes
    Boot <- RamAndDevice
    BitSize = {1, 2, 3}
    MIN_BIT_SIZE = 2
    CNODE_ENTRY_BIT_SZ = 1
    PAGE_BITS_4K = 2
    TCB_BITS = 1
    FrameBits = {2, 3}
    MAX_BITS = 3
    CNODE_DEPTH = 32
    WORD_BITS = 64
    ASIDS = 4
INVARIANTS Exclusive ObjectsAligned KernelObjectsInRam
CHECK_DEADLOCK FALSE
