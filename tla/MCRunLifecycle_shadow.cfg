\* A run dies between a submission and its gate, and is retried.
CONSTANTS
    GateChoices = { {"gate_2"} }
    MaxAttempts = 2
    Analysts = {a1}
    Tasks = {t1, t2}
    AssistGates = {}
    AutoGates = {}
    MaxGateAutoSkips = 12
    MaxAutoRewindPasses = 1
    CountMayFail = FALSE
    Overlap = FALSE
    EagerRetry = FALSE
    MaxRejects = 1
    MaxRaises = 1
    MaxCrashes = 0
SPECIFICATION Spec
INVARIANT BatchIsNotShadowed
SYMMETRY Symmetry
CHECK_DEADLOCK FALSE
