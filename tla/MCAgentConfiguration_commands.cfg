SPECIFICATION Spec
CONSTANTS
    soul = soul
    network = network
    verbose = verbose
    c1 = c1
    c2 = c2
    b1 = b1
    b2 = b2
    f1 = f1
    f2 = f2
    e1 = e1
    stable = stable
    canary = canary
    d1 = d1
    d2 = d2
    d3 = d3
    d4 = d4
    LegacyFields = {soul}
    BaselineFields = {network}
    OperatorFields = {verbose}
    Values = {0, 1}
    Default = 0
    Patches <- PatchesMC
    Bootstraps <- BootstrapsMC
    Enrollments <- EnrollmentsMC
    Releases <- ReleasesMC
    Channels = {stable, canary}
    None = None
    MaxRevision = 4
    MaxBypasses = 2
INVARIANTS ReleasedSettingsHold ReceiptAtCursor RollbacksHold RepairsNeverCollide
PROPERTIES ImplementsLedger
CHECK_DEADLOCK FALSE
