SPECIFICATION WordsSpec
CONSTANTS
    Asids = {1, 2, 65535}
    Vaddrs = {0, 4096, 2097152}
    Offsets = {0, 1, 63, 64, 4097}
    UntypedBits = {4, 12, 62, 63}
    CNodeBits = {0, 1, 5, 31, 32, 63, 64}
    Guards = {0, 1, 64}
    CNODE_DEPTH = 32
PROPERTIES KeepsFields
CHECK_DEADLOCK FALSE
