SPECIFICATION RuntimeSpec
CONSTANTS
    Readers = {r1, r2, r3}
    MaxArrivals = 3
    MaxCommits = 1
    Callers = {c1, c2, c3}
    Runners = {d1, d2}
    MaximumItems = 2
    MaximumBytes = 3
    MaximumQueued = 2
    Sizes = {1, 4}
    MaxTickets = 4
    Requests <- SubmitCalls
    MaximumRequests = 2
    MaximumBatchBytes = 2
    QueueDepth = 2
    MaxFailures = 1
    MaxCancels = 1
INVARIANTS TypeOK LinearizableReads BatcherTypeOK BatcherCorrect SchedulerTypeOK SchedulerSound
PROPERTIES EnsureReturns EverySubmitAnswered EverySubmitReturns
CHECK_DEADLOCK FALSE
