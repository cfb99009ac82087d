\* Two embed jobs beside the chain and one crash; every job has one attempt.
SPECIFICATION SynthesisSpec
CONSTANTS
    Tasks <- SynthesisTasks
    SortOrder <- SynthesisOrder
    Plans <- SynthesisPlans
    Spawns <- SynthesisSpawns
    Entry = "fetch_signals"
    JobIds = {1, 2, 3, 4, 5, 6, 7, 8}
    Chunks = {c1, c2}
    MaxSpawns = 2
    MaxAttempts = 1
    MaxCrashes = 1
    MaxFaults = 0
    MaxRetries = 0
    MaxTroubles = 1
    MaxCount = 0
INVARIANTS
    SynthesisTypeOK
    EndedRunIsReported
SYMMETRY Symmetry
