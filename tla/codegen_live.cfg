\* The whole pipeline; steps fail and River retries them.
SPECIFICATION CodegenFairSpec
CONSTANTS
    Tasks <- CodegenTasks
    SortOrder <- CodegenOrder
    Plans <- CodegenPlans
    Spawns <- NoSpawns
    Entry = "fetch_spec"
    JobIds = {1, 2, 3, 4, 5, 6}
    GenerationSchemas = {TRUE, FALSE}
    Gens = {0, 1, 2}
    RequestedGen = 0
    NoGen = NoGen
    MaxSpawns = 0
    MaxAttempts = 2
    MaxCrashes = 0
    MaxFaults = 0
    MaxRetries = 0
    MaxTroubles = 0
    MaxCount = 1
INVARIANTS
    Synchronised
    OutcomeIsAnnounced
    PRIsAnnounced
PROPERTIES
    NoRunLost
