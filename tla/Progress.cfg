SPECIFICATION FairSpec
CONSTANTS
    Items = {i1, i2}
    Workers = {w1, w2}
    Requests = {q1}
    NoItem = NoItem
    NoResult = NoResult
    r1 = r1
    r2 = r2
    Results <- MCResults
    Cost <- MCCost
    SpendLimit = 2
    GradedItems = {i1, i2}
    MaxAttempts = 2
    Crashes = 0
    Raises = 0
    Redeliveries = 0
    Cancels = 1
    Replays = 1
    ApiCrashes = 0
    WorkerFaults <- MCWorkerFaults
    ApiBudget <- MCApiBudget
INVARIANTS
    NoOverlap

    
