SPECIFICATION Spec
CONSTANTS
    Threads = {t1, t2}
    Keys = {ann, bob}
    Values = {old}
    NoKey = NoKey
    NoCopy = NoCopy
    LostReplies = TRUE
    MaxRows <- TwoPending
SYMMETRY Symmetric
INVARIANTS
    TypeOK
    NoGaps
PROPERTIES
    ImplementsRequests
