\* The API process restarts once at any point of a run.
CONSTANTS
    GateChoices = { {"gate_0", "gate_chunks", "gate_1", "gate_2"} }
    MaxAttempts = 1
    Analysts = {a1, a2}
    Tasks = {t1, t2}
    AssistGates = {}
    AutoGates = {"gate_1"}
    MaxGateAutoSkips = 12
    MaxAutoRewindPasses = 1
    CountMayFail = FALSE
    Overlap = FALSE
    EagerRetry = FALSE
    MaxRejects = 1
    MaxRaises = 0
    MaxCrashes = 1
SPECIFICATION Spec
INVARIANTS
    SubmitsAreFresh
    GateCardIsReviewable
SYMMETRY Symmetry
CHECK_DEADLOCK FALSE
