SPECIFICATION Spec
CONSTANTS
    Workers = {w1, w2}
    Handles = {ann, bob}
    Drafts = {d1, d2}
    Requests = {r1, r2}
    None = None
    Form = Form
    Assistant = TRUE
    Vague = TRUE
    MayFail = TRUE
    MayExpire = TRUE
SYMMETRY Symmetric
INVARIANTS
    TypeOK
    HintsOwn
PROPERTIES
    ImplementsDraftLife
    HintsGoStale
