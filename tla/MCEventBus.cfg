CONSTANTS
    owed = owed
    hidden = hidden
    other = other
    Streams = {s1}
    Pollers = {}
    Topics = {owed, hidden, other}
    matches <- MCMatches
    readable <- MCReadable
    Classes = {"ordinary"}
    classOf <- MCClassOf
    ceiling <- MCOneStream
    Buffer = 3
    RingCap = 2
    PageLimit = 1
    MaxSeq = 4
    MaxEpoch = 2
    MaxLeaving = 1
SPECIFICATION FairSpec
INVARIANTS TypeOK StreamHasNoHole IdleIsCurrent QueueAscends
PROPERTY StreamCatchesUp
