SPECIFICATION FairSpec
CONSTANTS
    Handlers = {h1, h2}
    Threads = 2
    Blank = ""
    Targets = {"", "t", "long"}
    Short = {"", "t"}
    Summaries <- MCSummaries
    Fold <- MCFold
    Approvers <- MCApprovers
    Normal <- MCNormal
    Valid = {"@ann"}
    Answers <- MCAnswers
    Patterns <- MCPatterns
    Operations = {"cancel", "confirm", "approve", "new_request"}
CHECK_DEADLOCK FALSE
INVARIANTS
    TypeOK
    DraftSound
PROPERTIES
    TextsAnswered
