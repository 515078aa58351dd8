SPECIFICATION Spec
CONSTANTS
    Runs = {r1, r2}
    Feeds = {f1}
    NoRun = NoRun
    NoFeed = NoFeed
    BatchSize = 2
    MaxItems = 2
SYMMETRY Symmetry
INVARIANTS OneActiveRunPerFeed  DeletedFeedIsQuiet
PROPERTIES  DecidedRunsStay
CHECK_DEADLOCK FALSE
