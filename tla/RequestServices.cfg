CONSTANTS
    NumAccounts = 3
    Selectors = {p1, p2}
    StickyLimit = 2
    Watched = 3
    ComboRequests = {q1, q2}
    Targets = {t1, t2}
    ComboAccounts = {c1, c2}
    NoAnchor = NoAnchor
    PanelSize = 4
    QuorumSetting = 1
    Tools = {0, 1}
    MaxBlocks = 6
SPECIFICATION RequestServicesSpec
INVARIANTS
    RequestServicesTypeOK
    SelectionIsExclusive RotationIsFair
    AnchorIsLatestAnswer ActiveIsExact
    AnswersReachTheJudge
    StreamIsWellFormed EndIsOrderly
PROPERTIES
    EveryAskIsAnswered
    ComboAnswers
    PanelConcludes
CHECK_DEADLOCK FALSE
