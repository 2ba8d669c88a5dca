\* Every acyclic flow over up to four chunks, each kind of review in a scope of its own.
CONSTANT Scopes <- AllScopes
SPECIFICATION Spec
INVARIANTS
    FlowIsKept
    BranchReachesItsEffects
PROPERTIES
    GateLeavesOneGraph
    GateKeepsOrder
    MergeKeepsText
    LedgerExplainsTheDiff
CHECK_DEADLOCK FALSE
