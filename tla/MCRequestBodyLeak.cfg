CONSTANTS
    None = None
    Chunks = 2
    MaxAttempts = 1
    AuthMayFail = TRUE
SPECIFICATION FairSpec
PROPERTY GzipGoroutineEnds
