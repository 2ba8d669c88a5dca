\* Two sessions submit from the same gate.
CONSTANTS
    GateChoices = { {"gate_0", "gate_chunks", "gate_1", "gate_2"} }
    MaxAttempts = 1
    Analysts = {a1, a2}
    Tasks = {t1, t2}
    AssistGates = {}
    AutoGates = {}
    MaxGateAutoSkips = 12
    MaxAutoRewindPasses = 1
    CountMayFail = FALSE
    Overlap = TRUE
    EagerRetry = FALSE
    MaxRejects = 0
    MaxRaises = 0
    MaxCrashes = 0
SPECIFICATION Spec
INVARIANT SubmitsAreFresh
SYMMETRY Symmetry
CHECK_DEADLOCK FALSE
