SPECIFICATION GradingSpec
\* Everything may be graded and resolved.
CHECK_DEADLOCK FALSE
CONSTANTS
    Items = {i1, i2}
    Graders = {p1, p2}
    HasExact = {i1}
    HasRubric = {i1, i2}
    Overalls <- MCOveralls
    Labels <- MCLabels
    Null = Null
    DisagreementThreshold = 500
    LowConfidenceMin = 400
    LowConfidenceMax = 600
SYMMETRY MCSymmetry
INVARIANTS
    GradingTypeOK
    NoFanOut
    
    DisagreementReviewed
PROPERTIES
    ReviewSteps
