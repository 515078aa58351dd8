SPECIFICATION Spec
CONSTANTS
    Msgs = {m1, m2}
    Outcomes = {"dispatch"}
    MaxRepeats = 1
    MaxLost = 0
INVARIANTS ExactlyOneTerminal
CHECK_DEADLOCK FALSE
