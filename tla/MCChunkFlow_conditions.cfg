\* A condition edited at the chunk gate.
CONSTANT Scopes <- ConditionScopes
SPECIFICATION Spec
PROPERTY ConditionEditsSurvive
CHECK_DEADLOCK FALSE
