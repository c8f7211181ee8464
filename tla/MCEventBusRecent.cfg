CONSTANTS
    owed = owed
    hidden = hidden
    other = other
    Streams = {}
    Pollers = {p1}
    Topics = {owed, hidden}
    matches <- MCMatches
    readable <- MCReadable
    Classes = {"ordinary"}
    classOf <- MCClassOf
    ceiling <- MCNoCeiling
    Buffer = 3
    RingCap = 2
    PageLimit = 1
    MaxSeq = 4
    MaxEpoch = 2
    MaxLeaving = 1
SPECIFICATION Spec
INVARIANT PollerMissesOnlyLost
PROPERTY CursorAscends
