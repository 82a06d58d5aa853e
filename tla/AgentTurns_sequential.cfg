SPECIFICATION FairSpec
CONSTANTS
    t1 = t1
    t2 = t2
    t3 = t3
    t4 = t4
    c1 = c1
    c2 = c2
    None = None
    Turns = {t1, t2, t3}
    Conversations = {c1, c2}
    Conv <- TwoAndOne
    Shutdowns = {s1}
    Warm = {}
    Sequential = TRUE
    Faults <- SequentialFaults
INVARIANT OwnAnswer
PROPERTY EveryTurnEnds
