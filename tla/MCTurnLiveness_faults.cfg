SPECIFICATION SweepSpec
CONSTANTS
    Msgs = {m1, m2}
    Outcomes = {"dispatch", "rejected", "clarification_required"}
    MaxRepeats = 1
    MaxLost = 1
INVARIANTS OneTerminalUnlessRepeated DeliverableIsCovered 
PROPERTIES NoTurnForgotten SilenceEndsTurns
CHECK_DEADLOCK FALSE
