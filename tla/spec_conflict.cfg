\* One generation, executed once, and two users who edit the spec.
SPECIFICATION GuardsSpec
CONSTANTS
    Scenarios = {"specs"}
    Boxes = {1, 2, 3}
    SandboxProviders = {"local", "docker", "e2b"}
    Configs = {c1, c2, c3}
    MaxSandboxes = 2
    MaxFaults = 1
    MaxCleanerFaults = 2
    MaxTracked = 2
    MaxPlanChanges = 2
    Orgs = {o1, o2}
    Sessions = {s1, s2, s3}
    MaxPerOrg = 2
    Lines = 3
    PipeSize = 1
    ChannelSize = 1
    Callers = {k1, k2, k3}
    LLMProviders = {"anthropic", "openai"}
    FailureThreshold = 2
    MaxLLMRetries = 1
    Tiers = {"default"}
    Capacity <- OneTier
    RefillPS <- OneRate
    Routes <- OneRoute
    IdleLimit = 1
    Buckets = {1, 2, 3}
    Clients = {h1, h2}
    MaxSpare = 2
    Persons = {p1}
    Callbacks = {b1, b2}
    UserIDs = {1, 2, 3}
    LoginNullables = {TRUE, FALSE}
    MaxLoginFaults = 1
    Plans = {"starter", "builder"}
    MaxProjects <- PlanLimits
    Deliveries = {w1, w2}
    Creators = {q1, q2}
    MaxEvents = 3
    MaxDisorder = 1
    MaxStrangers = 1
    SpecSchemas = {TRUE}
    Editors = {e1, e2}
    Generators = {g1}
    MaxRows = 3
    NotesPerReview = 2
    MaxSpecAttempts = 1
    MaxSpecTroubles = 0
INVARIANT
    VersionsDistinct
CHECK_DEADLOCK FALSE
