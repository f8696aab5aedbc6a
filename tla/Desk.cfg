SPECIFICATION DeskSpec
CONSTANTS
    Items = {i1, i2}
    Graders = {p1}
    HasExact = {i1, i2}
    HasRubric = {i1, i2}
    Overalls <- MCOveralls
    Labels <- MCLabels
    Null = Null
    DisagreementThreshold = 500
    LowConfidenceMin = 400
    LowConfidenceMax = 600
    Reviewers = {stayer, other}
    Stays = {stayer}
INVARIANTS
    ClaimExclusive
    ListedWithGrades
    RefusalFinal
    StatsAgree
PROPERTIES
    EveryReviewResolved
    
