\* The artifact file is still open when the call returns.
SPECIFICATION Spec
INVARIANT FileClosedOnReturn
CHECK_DEADLOCK FALSE
