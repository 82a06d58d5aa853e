SPECIFICATION Spec
CONSTANTS
    Turns = {t1, t2}
    Count = 2
    Readers = {r1}
    RingSize = 2
    QueueSize = 1
    FetchSize = 1
    ReplayLimit = 2
    MaxEvents = 3
    MaxRestarts = 1
    Faults <- AllFaults
    None = None
\* A workspace whose turns are over has nothing left to do.
CHECK_DEADLOCK FALSE
INVARIANTS InOrder NumbersAreFresh
