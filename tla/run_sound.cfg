SPECIFICATION EngineSpec
CONSTANTS
    Paths <- MCPaths
    Versions = {0, 1}
    Nodes = {"go", "repo"}
    Owned <- MCOwned
    Cases = {"build", "links"}
    NodeOf <- MCNodeOf
    Required = {"build"}
    Verdict <- MCVerdict
    Runs = {p1, p2}
    Modes = {"auto", "verify"}
    Origin <- MCOrigin
    EditDuringRun = FALSE
    MaxRuns = 2
    MaxCommits = 2
    None = None
    Registered <- MCRegistered
    Configs <- MCConfigs
    CaseCommands = 2
INVARIANTS
    ReceiptsSound
    ZeroExitIsEarned
PROPERTIES
    PassIsTrue
VIEW EngineView
SYMMETRY Symmetry
