SPECIFICATION Spec
CONSTANTS
    Handles = {ann}
    Drafts = {d1, d2}
    Requests = {r1, r2}
    Texts = {t1}
    None = None
    MayFail = TRUE
    MayExpire = TRUE
    MaxThreads = 2
SYMMETRY Symmetric
INVARIANTS
    TypeOK
    RowsFollow
PROPERTIES
    TakenStaysTaken
