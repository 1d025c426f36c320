SPECIFICATION ServicesSpec
CONSTANTS
    None = None
    Batches <- MCBatches
    BadIds = {}
    CatalogOrder <- MCCatalogOrder
    MaxRequests = 2
    Transports = {"stdio", "json", "sse"}
    MaxNoise = 1
    Files = {"code", "doc", "PLAN"}
    Absent = Absent
    MaxEdits = 2
    Rules <- MCRules
    NoticedFrom <- MCNoticedFrom
    DefaultRank = 2
    Needed = {"code"}
    MaxChangeCalls = 2
    Plans = {"PLAN"}
    Unbound = Unbound
    Patterns = {"cli/**", "docs/**"}
    Covers <- MCCovers
    Sensitive = {"code"}
    Exempt = {"PLAN"}
    Initially = {"code"}
    MaxApprovals = 1
    Transport = {"code"}
    MaxClones = 1
    Profiles = {"smoke", "full"}
INVARIANTS
    GreenIsEarned
    ProbeIsOrderly
    PlanIsKept
    GreenIsSound
    TriedAsClaimed
    AnswersAreHonest
PROPERTIES
    EveryServiceEnds
    ApprovalBindsCommittedPlan
CHECK_DEADLOCK FALSE
