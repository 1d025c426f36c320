SPECIFICATION MCSpec
CONSTANTS
    q1 = q1
    q2 = q2
    Paths = {"go"}
    Versions = {0, 1}
    Nodes = {"repo"}
    Owned <- MCOwned
    Cases = {"build"}
    NodeOf <- MCNodeOf
    Required = {"build"}
    Verdict <- MCVerdict
    Runs = {p1}
    Modes = {"auto", "fresh"}
    Origin <- MCOrigin
    EditDuringRun = FALSE
    MaxRuns = 1
    MaxCommits = 3
    Refs = {"main", "topic"}
    Protected = {"main"}
    FastForward = {"main"}
    Deletable = {}
    UnmatchedAction = "allow"
    Binders = {b1}
    Commands = {"post-commit", "bind-alias"}
    Pushers = {q1, q2}
    MaxBinds = 1
    MaxPushes = 2
    None = None
INVARIANTS
    ProtectedIsValidated
    AliasNamesOwnTree
PROPERTIES
    PushesObeyPolicy
