\* A branch that the chunker listed among its own predecessors.
CONSTANT Scopes <- BranchScopes
SPECIFICATION Spec
INVARIANT BranchReachesAllEffects
CHECK_DEADLOCK FALSE
