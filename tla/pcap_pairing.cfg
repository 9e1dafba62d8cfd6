SPECIFICATION Spec
CONSTANTS
    Remotes = {r1, r2}
    Server = srv
    Calls = {c1, c2}
    NoCall = nocall
    Answers <- MCAnswers
    RejectCodes = {}
    RejectPhrases <- MCRejectPhrases
    MaxEntries = 3
    Batch = 1
    KeepFor = 3
    ChanCap = 1
    MaxTime = 5
SYMMETRY Symmetry
INVARIANTS
    TypeOK
    OutcomeOfOwnRequest
    JudgedByLatestRequest
    RecentRequestsKnown
CHECK_DEADLOCK FALSE
