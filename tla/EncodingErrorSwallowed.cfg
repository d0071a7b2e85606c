\* A failed constructor encoding still yields an account.
SPECIFICATION Spec
INVARIANT NoAccountFromFailedEncoding
CHECK_DEADLOCK FALSE
