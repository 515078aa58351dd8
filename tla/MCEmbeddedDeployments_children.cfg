SPECIFICATION Spec
CONSTANTS
    Pods = {p1, p2}
    Names = {n1, n2}
    Keys = {k1, k2}
    None = None
    MaxChildren = 3
    MaxReserved = 2
    MaxLost = 1
SYMMETRY Symmetry
INVARIANTS OneWriterPerConversation LivingWorkersAreKnown ReservationsAreCounted
    
PROPERTIES CrashesAreTold
CHECK_DEADLOCK FALSE
