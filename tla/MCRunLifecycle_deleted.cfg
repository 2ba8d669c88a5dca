\* A source is deleted while a second session has its gate open.
CONSTANTS
    GateChoices = { {"gate_0", "gate_chunks", "gate_1", "gate_2"} }
    MaxAttempts = 1
    Analysts = {a1, a2}
    Tasks = {t1, t2}
    AssistGates = {}
    AutoGates = {}
    MaxGateAutoSkips = 12
    MaxAutoRewindPasses = 1
    CountMayFail = FALSE
    Overlap = FALSE
    EagerRetry = FALSE
    MaxRejects = 0
    MaxRaises = 0
    MaxCrashes = 0
SPECIFICATION Spec
INVARIANT NothingRunsForDeleted
SYMMETRY Symmetry
CHECK_DEADLOCK FALSE
