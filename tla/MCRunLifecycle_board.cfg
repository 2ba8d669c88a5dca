\* The board's promise under fair scheduling: gates off, assisted by nobody and
\* unattended with pass counts that may be lost.
CONSTANTS
    GateChoices = { {}, {"gate_chunks", "gate_1"} }
    MaxAttempts = 2
    Analysts = {a1}
    Tasks = {t1, t2}
    AssistGates = {}
    AutoGates = {"gate_chunks"}
    MaxGateAutoSkips = 12
    MaxAutoRewindPasses = 1
    CountMayFail = TRUE
    Overlap = FALSE
    EagerRetry = FALSE
    MaxRejects = 0
    MaxRaises = 1
    MaxCrashes = 0
SPECIFICATION FairSpec
PROPERTY BoardPromise
CHECK_DEADLOCK FALSE
