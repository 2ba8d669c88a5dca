\* Retry pressed while the failed run is still being torn down.
CONSTANTS
    GateChoices = { {} }
    MaxAttempts = 2
    Analysts = {a1}
    Tasks = {t1, t2}
    AssistGates = {"gate_2"}
    AutoGates = {"gate_chunks", "gate_1"}
    MaxGateAutoSkips = 12
    MaxAutoRewindPasses = 1
    CountMayFail = FALSE
    Overlap = FALSE
    EagerRetry = TRUE
    MaxRejects = 0
    MaxRaises = 0
    MaxCrashes = 0
SPECIFICATION Spec
INVARIANT OneDriver
SYMMETRY Symmetry
CHECK_DEADLOCK FALSE
