SPECIFICATION FairSpec
CONSTANTS
    Runs = {r1, r2}
    NoRun = NoRun
    MaxOperations = 1
    Mixed = FALSE
INVARIANTS RunsOnceAndApproved CallerHearsTheOutcome ProfileFollowsItsRun 
PROPERTY RequestsSettle
CHECK_DEADLOCK FALSE
