CONSTANTS
    None = None
    Chunks = 2
    MaxAttempts = 2
    AuthMayFail = FALSE
SPECIFICATION Spec
INVARIANT EncodedAsDeclared
