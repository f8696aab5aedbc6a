SPECIFICATION FairSpec
CONSTANTS
    Items = {i1}
    Workers = {w1, w2}
    Requests = {q1}
    NoItem = NoItem
    NoResult = NoResult
    r1 = r1
    r2 = r2
    Results <- MCResults
    Cost <- MCCost
    SpendLimit = 9
    GradedItems = {i1}
    MaxAttempts = 1
    Crashes = 1
    Raises = 0
    Redeliveries = 0
    Cancels = 0
    Replays = 0
    ApiCrashes = 0
    WorkerFaults <- MCWorkerFaults
    ApiBudget <- MCApiBudget
PROPERTIES
    NeverLost
