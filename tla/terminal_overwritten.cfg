SPECIFICATION Spec
CONSTANTS
    r1 = r1
    r1lower = r1lower
    Requests = {r1}
    Ids = {r1}
    Upper <- OneSpelling
    Workers = {w1, w2}
    Actors = {ann}
    Changes = {old}
    NoActor = NoActor
    NoChange = NoChange
    AtomicSequence = FALSE
    MayFail = FALSE
    RejectRequiresReason = TRUE
    MaxRevision = 2
    MaxEvents = 4
PROPERTIES
    TerminalIsFinal
