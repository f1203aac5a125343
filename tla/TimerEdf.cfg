SPECIFICATION TimerFairSpec
CONSTANTS
    Tcb = {1, 2, 3}
    None = None
    SchedContext <- MCSchedContext
    MaxDeadline = 5
    MAX_TCB_PER_CORE = 4
    TICK_MOD = 2
PROPERTIES EdfServed
