SPECIFICATION FairSpec
CONSTANTS
    Prompts = {p1, p2}
    Pauses = {}
    Resumes = {resume}
    Stops = {stop}
    Destroys = {}
    Retries = {}
    Creator = creator
    Timer = timer
    NoTask = NoTask
    AutoPause = TRUE
    ColdStart = FALSE
    Faults <- ResumeFaults
    MaxRestarts = 0
INVARIANTS IdleTimerArmed RecordsAgree SessionAgrees
PROPERTIES EventuallyPaused RuntimeContract EveryTaskSettles
