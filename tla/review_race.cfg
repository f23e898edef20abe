SPECIFICATION Spec
CONSTANTS
    r1 = r1
    r1lower = r1lower
    Requests = {r1}
    Ids = {r1}
    Upper <- OneSpelling
    Workers = {w1, w2}
    Actors = {ann, bob}
    Changes = {old, new}
    NoActor = NoActor
    NoChange = NoChange
    AtomicSequence = FALSE
    MayFail = TRUE
    RejectRequiresReason = TRUE
    MaxRevision = 2
    MaxEvents = 3
SYMMETRY Symmetric
INVARIANTS
    TypeOK
    RowsWhole
    RowsExplained
    NoGaps
PROPERTIES
    ImplementsJournal
    SettledIsFinal
