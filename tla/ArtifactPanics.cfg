\* A missing artifact field panics instead of returning an error.
SPECIFICATION Spec
INVARIANT NoPanic
CHECK_DEADLOCK FALSE
