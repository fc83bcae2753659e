CONSTANTS
    None = None
    Chunks = 3
    MaxAttempts = 2
    AuthMayFail = TRUE
SPECIFICATION FairSpec
INVARIANTS TypeOK CompleteOrBroken
PROPERTIES DoReqReturns NoneStaysBehind
