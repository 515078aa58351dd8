SPECIFICATION Spec
CONSTANTS
    j1 = j1
    j2 = j2
    Jobs = {j1, j2}
    Conns = {c1, c2}
    NoJob = NoJob
    NoConn = NoConn
    MaxAttempts = 2
    Identity <- Apart
SYMMETRY Symmetry
INVARIANTS OpenConnectionServed IdleQueueIsPaused NothingHeldIsForgotten
PROPERTIES OneBatchAtATime OnlyAThrowStrands ImplementsLedger
CHECK_DEADLOCK FALSE
