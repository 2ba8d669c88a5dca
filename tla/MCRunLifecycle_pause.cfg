\* A restart while a run is pausing at a gate.
CONSTANTS
    GateChoices = { {"gate_0", "gate_chunks", "gate_1", "gate_2"} }
    MaxAttempts = 1
    Analysts = {a1}
    Tasks = {t1, t2}
    AssistGates = {}
    AutoGates = {}
    MaxGateAutoSkips = 12
    MaxAutoRewindPasses = 1
    CountMayFail = FALSE
    Overlap = FALSE
    EagerRetry = FALSE
    MaxRejects = 0
    MaxRaises = 0
    MaxCrashes = 1
SPECIFICATION Spec
INVARIANT PauseSurvivesRestart
SYMMETRY Symmetry
CHECK_DEADLOCK FALSE
