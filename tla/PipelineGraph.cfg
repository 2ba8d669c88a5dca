\* All four gates on, two of them, or none; two attempts; up to three rejections.
CONSTANTS
    GateChoices = { {}, {"gate_chunks", "gate_2"},
                    {"gate_0", "gate_chunks", "gate_1", "gate_2"} }
    MaxAttempts = 2
    MaxRejects = 3
SPECIFICATION FairSpec
INVARIANTS
    NoWorkAfterFailure
    ShippedIsSignedOff
    TechniqueGuidanceIsFresh
    GuidanceConsumed
PROPERTIES
    FailureSticks
    DecisionHonoured
    RunsSettle
CHECK_DEADLOCK FALSE
