SPECIFICATION Spec
CONSTANTS
    p1 = p1
    p2 = p2
    p3 = p3
    mine = mine
    yours = yours
    group = group
    o1 = o1
    o2 = o2
    o3 = o3
    o4 = o4
    None = None
    Placements = {p1, p2, p3}
    Budgets = {mine, yours, group}
    Own <- MCOwn
    Parents <- MCParents
    Unlimited = {yours}
    Quota <- MCQuota
    Opening <- MCOpening
    Tiers <- MCTiers
    PanelLimits = {3, 5}
    Operations = {o1, o2, o3, o4}
    Amounts = {1, 2}
SYMMETRY Symmetry
CHECK_DEADLOCK FALSE
INVARIANTS
    Balanced
    QuotaHolds
    TiersHold
    LedgerExact
