SPECIFICATION FairSpec
CONSTANTS
    Turns = {t1}
    Count = 4
    Readers = {r1, r2}
    RingSize = 2
    QueueSize = 4
    FetchSize = 1
    ReplayLimit = 2
    MaxEvents = 4
    MaxRestarts = 0
    Faults <- ReaderFaults
    None = None
\* A workspace whose turns are over has nothing left to do.
CHECK_DEADLOCK FALSE
INVARIANTS NothingMissed NeverBackwards
PROPERTIES CaughtUp
