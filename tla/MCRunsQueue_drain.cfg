SPECIFICATION Spec
CONSTANTS
    r1 = r1
    r2 = r2
    k1 = k1
    Procs = {p1, p2}
    Runs = {r1}
    Keys = {}
    NoKey = NoKey
    NoProc = NoProc
    NoRun = NoRun
    Prio <- PrioOne
    Sends <- PlainSends
    MaxAttempts = 2
    MaxWork = 2
    MaxDbErrors = 0
    HeartbeatsTimely = TRUE
PROPERTIES DrainWaitsForHandlers
CHECK_DEADLOCK FALSE
