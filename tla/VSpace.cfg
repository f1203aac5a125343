SPECIFICATION Spec
CONSTANTS
    Table = {root, t1, t2, t3}
    Root = root
    FANOUT = 2
    Pml4Index = {0}
    Named <- MCNamed
    FrameCap <- MCFrameCap
    None = None
INVARIANTS TlbCoherent TablesReachable
PROPERTIES MapsRegions
SYMMETRY TableSymmetry
