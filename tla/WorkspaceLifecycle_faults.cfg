SPECIFICATION Spec
CONSTANTS
    Prompts = {p1, p2}
    Pauses = {pause}
    Resumes = {resume}
    Stops = {}
    Destroys = {destroy}
    Retries = {retry}
    Creator = creator
    Timer = timer
    NoTask = NoTask
    AutoPause = TRUE
    ColdStart = TRUE
    Faults <- AllFaults
    MaxRestarts = 1
\* A pause may wait forever for a turn that was leaked.
CHECK_DEADLOCK FALSE
INVARIANTS LockOwner DrainOwned ActiveHasSandbox PauseDrainsTurns TurnsAccounted
PROPERTIES TransitionsLegal
