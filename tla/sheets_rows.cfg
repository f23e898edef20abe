SPECIFICATION Spec
CONSTANTS
    Threads = {t1, t2}
    Keys = {ann, bob}
    Values = {old, new}
    NoKey = NoKey
    NoCopy = NoCopy
    LostReplies = FALSE
    MaxRows <- ThreeRows
SYMMETRY Symmetric
INVARIANTS
    FreshReads
    OneRow
PROPERTY
    ImplementsTables
