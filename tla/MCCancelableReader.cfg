CONSTANTS
    c1 = c1
    c2 = c2
    reader = reader
    None = None
    Closers = {c1, c2}
    Reader = reader
    Chunks = 3
SPECIFICATION FairSpec
INVARIANTS TypeOK OneReadOfBody EOFMeansAll
PROPERTIES IsByteStream ReadReturns OrphansEnd
