SPECIFICATION OnceFairSpec
CONSTANTS
    Context = {c1, c2, h}
    TickHandler = h
    Underneath = c1
    None = None
INVARIANTS RaceFree
PROPERTIES WrittenOnce CallsReturn
CHECK_DEADLOCK FALSE
