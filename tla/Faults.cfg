SPECIFICATION Spec
CONSTANTS
    Items = {i1, i2}
    Workers = {w1, w2}
    Requests = {q1}
    NoItem = NoItem
    NoResult = NoResult
    r1 = r1
    r2 = r2
    Results <- MCResults
    Cost <- MCCost
    SpendLimit = 2
    GradedItems = {i1, i2}
    MaxAttempts = 1
    Crashes = 1
    Raises = 1
    Redeliveries = 1
    Cancels = 0
    Replays = 0
    ApiCrashes = 0
    WorkerFaults <- MCWorkerFaults
    ApiBudget <- MCApiBudget
SYMMETRY MCSymmetry
INVARIANTS
    TypeOK
    ArtifactMatches
    GradedOnce
    OverlapNeedsDuplicate
    QueuedIsAttended
PROPERTIES
    ResultKept
