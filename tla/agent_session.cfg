\* The whole loop with one trouble, on a schema that admits "provisioned".
SPECIFICATION AgentSpec
CONSTANTS
    Boxes = {1, 2}
    SandboxProviders = {"local", "docker", "e2b"}
    SessionStatuses <- Extended
    GenerationSchemas = {TRUE, FALSE}
    MaxRetries = 1
    MaxAttempts = 2
    JobIds = {1, 2, 3}
    MaxTroubles = 1
CONSTRAINTS
    StopApart
    LoopsApart
INVARIANTS
    AgentTypeOK
    RetriesExact
    GenerationHoldsValidatedWork
    LeaksCounted
PROPERTY
    AgentWorkIsJudged
CHECK_DEADLOCK FALSE
