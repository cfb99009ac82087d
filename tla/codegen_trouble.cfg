\* The last three steps with one trouble: a crash, a failed statement or an
\* expired context, or a user who retries.
SPECIFICATION CodegenSpec
CONSTANTS
    Tasks <- LastTasks
    SortOrder <- LastOrder
    Plans <- LastPlans
    Spawns <- NoSpawns
    Entry = "generate_code"
    JobIds = {1, 2, 3, 4, 5, 6}
    GenerationSchemas = {TRUE, FALSE}
    Gens = {0, 1, 2}
    RequestedGen = 0
    NoGen = NoGen
    MaxSpawns = 0
    MaxAttempts = 2
    MaxCrashes = 1
    MaxFaults = 1
    MaxRetries = 1
    MaxTroubles = 1
    MaxCount = 0
INVARIANTS
    CodegenTypeOK
    InOrder
    NoStepTwice
    WorkIsNotRepeated
    PRIsRecorded
    CompletedRunHasGeneration
PROPERTIES
    NoRegress
