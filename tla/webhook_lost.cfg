\* A webhook whose job cannot be inserted keeps its signal.
SPECIFICATION SyncSpec
CONSTANTS
    RunTypeSchemas = {TRUE, FALSE}
    Contents <- TwoContents
    Near <- AreNear
    Items <- OneItem
    Full <- FullText
    Title <- TitleText
    SignalIds = {1, 2}
    EmbedSlots = {1}
    EmbedLimit = 1
    Runs = {1, 2}
    Providers = {"slack", "intercom", "linear", "jira", "gong"}
    PageSize = 1
    MaxTime = 2
    MaxConnects = 1
    MaxTroubles = 1
CONSTRAINT
    Apart
INVARIANT
    WebhookCreatesJob
