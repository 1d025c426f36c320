SPECIFICATION MCFairSpec
CONSTANTS
    w1 = w1
    w2 = w2
    w3 = w3
    w4 = w4
    w5 = w5
    h1 = h1
    h2 = h2
    h3 = h3
    h4 = h4
    tree = tree
    node = node
    s1 = s1
    s2 = s2
    None = None
    Writers = {w1, w2}
    Readers = {}
    Cleaners = {c1}
    Purgers = {p1}
    Handles = {h1}
    HandleOf <- OneHandle
    Slots = {s1, s2}
    Dirs = {tree, node}
    TreeDir = tree
    DirOf <- TreeAndNode
    Results = {1}
    Together = {w1, w2}
    Conclusion = 1
    PutsInOne = 2
    PutsApart = 3
    Passing = {1}
    N = 1
    MaxPuts = 2
    Crashable = {p1}
PROPERTIES
    PutEnds
    CleanRemovesEvidence
