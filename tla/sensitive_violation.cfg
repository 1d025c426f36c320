SPECIFICATION PlanSpec
CONSTANTS
    Files = {"code", "doc", "PLAN"}
    Absent = Absent
    MaxEdits = 2
    Plans = {"PLAN"}
    Unbound = Unbound
    Patterns = {"cli/**", "docs/**"}
    Covers <- MCCovers
    Sensitive = {"code"}
    Exempt = {"PLAN"}
    Initially = {"code"}
    MaxApprovals = 1
INVARIANT SensitiveIsCovered
CHECK_DEADLOCK FALSE
