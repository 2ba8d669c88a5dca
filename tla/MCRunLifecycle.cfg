\* One analyst, one driver slot more than the code should ever use, one retry.
\* Every gate is on; the chunk and procedure gates run unattended, the
\* relationship gate is assisted.  Both limits have the values of the code.
CONSTANTS
    GateChoices = { {"gate_0", "gate_chunks", "gate_1", "gate_2"} }
    MaxAttempts = 2
    Analysts = {a1}
    Tasks = {t1, t2}
    AssistGates = {"gate_2"}
    AutoGates = {"gate_chunks", "gate_1"}
    MaxGateAutoSkips = 12
    MaxAutoRewindPasses = 1
    CountMayFail = FALSE
    Overlap = FALSE
    EagerRetry = FALSE
    MaxRejects = 1
    MaxRaises = 1
    MaxCrashes = 0
SPECIFICATION Spec
INVARIANTS
    OneDriver
    CardMatchesThread
    CompletedIsDone
    NeverStalls
    AutoRewindsBounded
SYMMETRY Symmetry
CHECK_DEADLOCK FALSE
