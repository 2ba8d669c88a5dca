\* An operator's kind overridden and nothing approved.
CONSTANT Scopes <- OverrideScopes
SPECIFICATION Spec
INVARIANT SerializeSucceeds
CHECK_DEADLOCK FALSE
