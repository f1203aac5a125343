SPECIFICATION Spec
CONSTANTS
    a = a
    b = b
    CNode = {a, b}
    Radix <- Mixed
    Guard <- Guards
    Roots <- AtA
    CNODE_DEPTH = 3
    WORD_RADIX = 2
    Other = Other
INVARIANTS LookupTypeOK ResolvesAddress
PROPERTIES LookupEnds
