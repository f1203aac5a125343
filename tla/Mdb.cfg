SPECIFICATION FairSpec
CONSTANTS
    Entry = {s1, s2, s3, s4, s5}
    ObjType = {cap}
    NullObj = NullObj
    None = None
INVARIANTS AdjacentLinked Acyclic NullIsolated
PROPERTIES RevokeExact RevokeEnds
