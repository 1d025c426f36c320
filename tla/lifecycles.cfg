SPECIFICATION LSpec
CONSTANTS
    f1 = f1
    f2 = f2
    p1 = p1
    p2 = p2
    Components = {"visio", "ppt"}
    McpProcs = {p1, p2}
    Editions = {1, 2}
    Origins <- MCOrigins
    MaxMcpCalls = 2
    NoText = NoText
    Pins = {"g", "c"}
    GitPins = {"g"}
    Fetchers = {f1, f2}
    Importers = {"m"}
    Cleaners = {"c"}
    MaxPrefetches = 2
    MaxRegistrations = 1
    Kits <- MCKits
    InOrder <- MCInOrder
    PinnedKits = {"kit"}
    PlatformKit = "platform"
    KitProcs = {1}
    MaxVersion = 2
    MaxKitCalls = 3
    MaxFaults = 2
    FactValues <- MCFacts
    CtxProcs = {p1, p2}
    MaxCtxCalls = 3
    MaxChanges = 1
    MaxEdits = 1
    Tracked = {"a", "b"}
    Includes = {{"a"}}
    Exporters = {1, 2}
    Gone = Gone
    Cut = Cut
    MaxExports = 2
    MaxTouches = 2
INVARIANTS
    McpIsSound
    GitPinsAreWhole
    SourceSurvivesOneFault
    ContextIsAccountedFor
    PackagesAreSound
PROPERTIES
    RollbackRestores
    LostPluginIsReported
CHECK_DEADLOCK FALSE
