SPECIFICATION Spec
CONSTANTS
    Items = {i1, i2}
    Workers = {w1, w2}
    Requests = {q1, q2}
    NoItem = NoItem
    NoResult = NoResult
    r1 = r1
    r2 = r2
    Results <- MCResults
    Cost <- MCCost
    SpendLimit = 9
    GradedItems = {i1, i2}
    MaxAttempts = 1
    Crashes = 0
    Raises = 0
    Redeliveries = 0
    Cancels = 0
    Replays = 2
    ApiCrashes = 0
    WorkerFaults <- MCWorkerFaults
    ApiBudget <- MCApiBudget
SYMMETRY MCSymmetry
INVARIANTS
    NeverDoubleCounted
