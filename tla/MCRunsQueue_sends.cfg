SPECIFICATION Spec
CONSTANTS
    r1 = r1
    r2 = r2
    k1 = k1
    Procs = {p1}
    Runs = {r1, r2}
    Keys = {k1}
    NoKey = NoKey
    NoProc = NoProc
    NoRun = NoRun
    Prio <- PrioTwo
    Sends <- KeyedSends
    MaxAttempts = 1
    MaxWork = 2
    MaxDbErrors = 0
    HeartbeatsTimely = TRUE
SYMMETRY Symmetry
INVARIANTS  ReceiptStandsForRun 
CHECK_DEADLOCK FALSE
