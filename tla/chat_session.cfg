SPECIFICATION FairSpec
CONSTANTS
    Conns = {k1, k2}
    Actions = {a1, a2}
    Inputs = {i1}
    None = None
    MaxPushes = 1
    MaxUnread = 1
CHECK_DEADLOCK FALSE
INVARIANTS
    TypeOK
    PendingHasCause
    OneAction
    FallbackUnseen
PROPERTIES
    ActionOnce
    ActionEnds
    AnswersCome
    Released
