\* One trouble, at any point: a crash, a failed statement or an expired
\* context, or a user who retries.
SPECIFICATION Spec
CONSTANTS
    Tasks <- ForkTasks
    SortOrder <- ForkOrder
    Plans <- ForkPlans
    Spawns <- ForkSpawns
    Entry = "fetch_signals"
    JobIds = {1, 2, 3, 4, 5}
    MaxSpawns = 1
    MaxAttempts = 2
    MaxCrashes = 1
    MaxFaults = 1
    MaxRetries = 1
    MaxTroubles = 1
    MaxCount = 0
INVARIANTS
    TypeOK
    Consistent
PROPERTIES
    KeepsContract
