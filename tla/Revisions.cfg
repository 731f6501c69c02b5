SPECIFICATION Spec
CONSTANTS
    t1 = t1
    t2 = t2
    Txns = {t1, t2}
    LinkSets <- MCLinkSets
    MaxRequests = 3
    MaxScores = 2
SYMMETRY Symmetry
INVARIANTS
    TypeOK
    OpenBounded
    NewestKept
    AcceptedRevised
    SoleScore
PROPERTIES
    LegalUnlessOvertaken
    RescoredOnRequest
CHECK_DEADLOCK FALSE
