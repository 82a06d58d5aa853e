SPECIFICATION FairSpec
CONSTANTS
    Repls = {r1}
    MaxWorkspaces = 2
    Branches = {}
    MaxTrouble = 2
    MaxRestarts = 1
    Main = main
    NoRepo = NoRepo
    None = None
CHECK_DEADLOCK FALSE
PROPERTIES AnsweredUnlessOvertaken TextGetsThrough
