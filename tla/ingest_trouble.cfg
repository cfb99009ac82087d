\* Two runs of any kind side by side, one trouble.
SPECIFICATION SyncSpec
CONSTANTS
    RunTypeSchemas = {TRUE, FALSE}
    Contents <- TwoContents
    Near <- AreNear
    Items <- OneItem
    Full <- FullText
    Title <- TitleText
    SignalIds = {1, 2}
    EmbedSlots = {1}
    EmbedLimit = 1
    Runs = {1, 2}
    Providers = {"slack", "intercom", "linear", "jira", "gong"}
    PageSize = 1
    MaxTime = 2
    MaxConnects = 1
    MaxTroubles = 1
CONSTRAINTS
    Apart
    RefusedApart
    TwinsApart
    GongApart
INVARIANTS
    SyncTypeOK
    OneOriginalPerContent
    DuplicatesPointToRows
    SyncedItemsAreStored
    UnembeddedHasJob
CHECK_DEADLOCK FALSE
