SPECIFICATION HouseSpec
CONSTANTS
    o1 = o1
    o2 = o2
    o3 = o3
    c1 = c1
    c2 = c2
    None = None
    Nothing = Nothing
    Owners = {o1, o2, o3}
    Cleaners = {c1, c2}
    Worktrees = {"main", "topic"}
    RepoOf <- MCRepoOf
    CanKeep = {o3}
    Keep = 1
    Adopts = {TRUE, FALSE}
    Scopes = {TRUE, FALSE}
    MaxCleans = 2
    MaxBusy = 2
    Processes = {"p1", "p2"}
    Shells = {"bash", "pwsh"}
    ShellOf <- MCShellOf
    Configs = {"policy"}
    MaxVersion = 2
    Stamps = {1, 2}
    MaxChanges = 2
    MaxIdentities = 3
    Settings <- MCSettings
    Skeleton <- MCSkeleton
    Markers <- MCMarkers
    MaxInits = 3
    MaxHarms = 3
INVARIANTS
    ReleasedIsGone
    IdentityWasTrue
PROPERTIES
    SparesOwners
    KeepsFailures
    SetupIsHonest
SYMMETRY Symmetry
CHECK_DEADLOCK FALSE
