SPECIFICATION Spec
CONSTANTS
    r1 = r1
    r1lower = r1lower
    Requests = {r1}
    Ids = {r1, r1lower}
    Upper <- TwoSpellings
    Workers = {w1}
    Actors = {ann, bob}
    Changes = {old, new}
    NoActor = NoActor
    NoChange = NoChange
    AtomicSequence = TRUE
    MayFail = FALSE
    RejectRequiresReason = TRUE
    MaxRevision = 3
    MaxEvents = 3
PROPERTIES
    ImplementsLifecycle
