\* A draft discarded in the middle of a chain.
CONSTANT Scopes <- DiscardScopes
SPECIFICATION Spec
INVARIANT PreviewMatchesSerializer
CHECK_DEADLOCK FALSE
