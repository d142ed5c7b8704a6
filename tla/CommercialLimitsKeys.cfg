CONSTANTS
    k1 = k1  k2 = k2  k3 = k3
    q1 = q1  q2 = q2
    c1 = c1  c2 = c2  r1 = r1  r2 = r2
    Plans = {"free"}
    Keys = {k1, k2}
    Rules = {}
    KeyLimit <- MCKeyLimit
    RuleLimit <- MCRuleLimit
    Quota <- MCQuota
    MaxKeys = 1
    MaxRules = 1
    Creators = {c1, c2}
    Requests = {}
    MaxMonth = 0
    MaxUsage = 3
    MaxLost = 0
SPECIFICATION LimitsSpec
SYMMETRY Symmetry
INVARIANTS
    KeysWithinLimit
CHECK_DEADLOCK FALSE
