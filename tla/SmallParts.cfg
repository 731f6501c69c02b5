SPECIFICATION PartsSpec
CONSTANTS
    n1 = n1
    n2 = n2
    n3 = n3
    personal = personal
    Nodes = {n1, n2, n3}
    Scopes = {personal}
    ScopeOf <- MCScopeOf
    EdgeTypes = {"prerequisite", "encompassing"}
    OrderingTypes = {"prerequisite", "encompassing"}
    MaxRows = 4
    Scores = {0, 49, 50, 84, 85, 100}
    Confidences = {1, 2, 3, 4, 5}
    c1 = c1
    c2 = c2
    c3 = c3
    Calls = {c1, c2, c3}
    Modes = {"practice", "study-coach"}
    ModeCaps <- MCModeCaps
    GlobalCap = 3
    Costs = {1, 2}
    Nobody = Nobody
    MaxDay = 1
    early = early
    late = late
    Attempts <- MCAttempts
    NoAttempt = NoAttempt
    Ordinary = Ordinary
INVARIANTS
    AnswerIsReachability
    RatingTypeOK
    FollowsPolicy
    QueueAgreesWithCard
    TypeOK
    SpendIsLedger
    CapsHeld
    LedgerTypeOK
    RefundLeavesNoReservation
PROPERTIES
    SearchEnds
    SingleUse
CHECK_DEADLOCK FALSE
