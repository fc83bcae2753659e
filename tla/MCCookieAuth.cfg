CONSTANTS
    w1 = w1
    w2 = w2
    None = None
    Workers = {w1, w2}
    MaxCalls = 3
    MaxSessions = 3
    CookiePathMatches = TRUE
    JarShowsExpires = TRUE
SPECIFICATION FairSpec
INVARIANTS TypeOK LoginsJustified RefusedForgotten
PROPERTIES CallsComplete SharesSession
