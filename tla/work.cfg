SPECIFICATION BenchSpec
CONSTANTS
    r1 = r1
    r2 = r2
    s1 = s1
    Absent = Absent
    t1 = t1
    Recorders = {r1, r2}
    Gates = {full}
    Specs = {s1, s2}
    Trees = {t1, t2}
    MaxAttempts = 4
    MaxElapsedSeconds = 5
    MaxTotalTokens = 5
    StallThreshold = 3
    MaxRecords = 5
    MCNumbers = {1, 2, 3, 4}
    MCKinds = {"plain", "full", "dear", "late"}
    Attempts <- MCAttempts
    Files = {"changes", "a.ps1", "b.c"}
    PowerShell = {"a.ps1"}
    CSources = {"b.c"}
    RiskPaths = {"a.ps1", "b.c"}
    DocPaths = {"changes"}
    Changelog = "changes"
    Required = {"changes"}
    Evidence = {"a.ps1"}
    Parallel = 2
    MaxEdits = 2
    Processes = {"p1", "p2"}
    FilesOf <- MCFilesOf
    Existing = {}
    MaxRuns = 2
    MaxFaults = 2
    MaxUserFiles = 1
    RepoPaths <- MCGovFiles
    Ext <- MCExt
    TestFiles <- MCTestFiles
    SkillOf <- MCSkillOf
    ContentsOf <- MCContentsOf
    Registrations <- MCRegistrations
    PolicyAtFirst <- MCPolicy
    TreeAtFirst <- MCTree
    RegistryAtFirst <- MCRegistry
    TrackedAtFirst <- MCTracked
    Ranks = {0, 2, 4}
    RootChoices <- MCRootChoices
    Excluded = {"build"}
    ScanExtensions = {".md", ".py", ".json"}
    CodeExtensions = {".go", ".py"}
    DocumentationDirs = {"docs"}
    Versioned = {"v2"}
    UpperIds = {"app"}
    Layout <- MCLayout
    MaxGovEdits = 2
    Nothing = Nothing
INVARIANTS
    LoadsInOrder
    LoadsOneSpec
    AloneWithinLimits
    SatisfiedWasValidated
    GatesKeepTheRules
    InitIsAllOrNothing
PROPERTIES
    CommitIsChecked
CHECK_DEADLOCK FALSE
