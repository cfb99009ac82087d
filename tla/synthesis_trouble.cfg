\* One embed job beside the chain and one trouble: a failed statement or an
\* expired context, or a user who retries.
SPECIFICATION SynthesisSpec
CONSTANTS
    Tasks <- SynthesisTasks
    SortOrder <- SynthesisOrder
    Plans <- SynthesisPlans
    Spawns <- SynthesisSpawns
    Entry = "fetch_signals"
    JobIds = {1, 2, 3, 4, 5, 6, 7}
    Chunks = {c1}
    MaxSpawns = 1
    MaxAttempts = 2
    MaxCrashes = 0
    MaxFaults = 1
    MaxRetries = 1
    MaxTroubles = 1
    MaxCount = 0
INVARIANTS
    ChainInOrder
    CandidatesWrittenOnce
    CompletedRunClustered
