SPECIFICATION FairSpec
CONSTANTS
    r1 = r1
    r2 = r2
    k1 = k1
    Procs = {p1, p2}
    Runs = {r1}
    Keys = {}
    NoKey = NoKey
    NoProc = NoProc
    NoRun = NoRun
    Prio <- PrioOne
    Sends <- PlainSends
    MaxAttempts = 2
    MaxWork = 1
    MaxDbErrors = 1
    HeartbeatsTimely = TRUE
INVARIANTS ExclusiveExecution 
PROPERTIES EveryRunSettles
CHECK_DEADLOCK FALSE
