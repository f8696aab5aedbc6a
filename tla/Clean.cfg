SPECIFICATION MonitoredSpec
CONSTANTS
    Items = {i1, i2, i3}
    Workers = {w1, w2}
    Requests = {q1}
    NoItem = NoItem
    NoResult = NoResult
    r1 = r1
    r2 = r2
    Results <- MCResults
    Cost <- MCCost
    SpendLimit = 1
    GradedItems = {i1, i2, i3}
    MaxAttempts = 1
    Crashes = 0
    Raises = 0
    Redeliveries = 0
    Cancels = 1
    Replays = 0
    ApiCrashes = 0
    WorkerFaults <- MCWorkerFaults
    ApiBudget <- MCApiBudget
SYMMETRY MCSymmetry
INVARIANTS
    CompletedMeansDone
    OvershootBounded
    SettledWhenDone
    ResponseOrdered
    CompletedReportExact
