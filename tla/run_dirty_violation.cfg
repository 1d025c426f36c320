SPECIFICATION Spec
CONSTANTS
    Paths <- MCPaths
    Versions = {0, 1}
    Nodes = {"go", "repo"}
    Owned <- MCOwned
    Cases = {"build", "links"}
    NodeOf <- MCNodeOf
    Required = {"build"}
    Verdict <- MCVerdict
    Runs = {p1}
    Modes = {"auto", "verify", "fresh"}
    Origin <- MCOrigin
    EditDuringRun = TRUE
    MaxRuns = 2
    MaxCommits = 2
    None = None
PROPERTIES
    DirtyPublishesNothing
