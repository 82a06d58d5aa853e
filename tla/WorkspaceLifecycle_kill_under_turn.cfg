SPECIFICATION Spec
CONSTANTS
    Prompts = {p1}
    Pauses = {}
    Resumes = {}
    Stops = {}
    Destroys = {destroy}
    Retries = {}
    Creator = creator
    Timer = timer
    NoTask = NoTask
    AutoPause = FALSE
    ColdStart = FALSE
    Faults <- NoFaults
    MaxRestarts = 0
CHECK_DEADLOCK FALSE
INVARIANTS KillDrainsTurns
