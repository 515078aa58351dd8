SPECIFICATION FairSpec
CONSTANTS
    Msgs = {m1, m2}
    Outcomes = {"dispatch"}
    MaxRepeats = 0
    MaxLost = 0
PROPERTIES EveryTurnEnds
CHECK_DEADLOCK FALSE
