CONSTANTS
    w1 = w1
    w2 = w2
    None = None
    Workers = {w1, w2}
    MaxCalls = 3
    MaxSessions = 3
    CookiePathMatches = FALSE
    JarShowsExpires = FALSE
SPECIFICATION Spec
INVARIANT RefusedForgotten
