\* The schema as migration 000017 leaves it.
SPECIFICATION AgentSpec
CONSTANTS
    Boxes = {1, 2}
    SandboxProviders = {"local", "docker", "e2b"}
    SessionStatuses <- Migration000017
    GenerationSchemas = {TRUE, FALSE}
    MaxRetries = 1
    MaxAttempts = 2
    JobIds = {1, 2, 3}
    MaxTroubles = 1
INVARIANT
    ProvisionedIsRecorded
CHECK_DEADLOCK FALSE
