SPECIFICATION Spec
CONSTANTS
    Tcb = {1, 2, 3}
    None = None
    SchedContext <- MCSchedContext
    MaxDeadline = 5
    MAX_TCB_PER_CORE = 4
    TICK_MOD = 1
    EP = {e1, e2}
    Kind <- MCCalls
    Badge = {1}
    Idlers = {3}
    Word = {0}
    debug_assertions = FALSE
INVARIANTS TypeOK CallerWaits NoPanic QueueHoldsBlocked
PROPERTIES ScheduledOnce
SYMMETRY EPSymmetry
