CONSTANTS
    w1 = w1
    w2 = w2
    None = None
    Workers = {w1, w2}
    MaxCalls = 3
    MaxVersions = 4
    MaxBugs = 1
SPECIFICATION FairSpec
INVARIANTS TypeOK SameAnswer ReadsOneVersion
PROPERTY CallsReturn
