SPECIFICATION Spec
CONSTANTS
    a = a
    b = b
    x = x
    gate = gate
    lane = lane
    lane2 = lane2
    None = None
    Malformed = Malformed
    Cycle = Cycle
    Declarable <- MCDeclarable
    ItemIds <- MCItemIds
    Changes <- JustClean
    Obligations <- Nothing
    GateLabels = {}
    LaneLabels = {lane}
    Worlds <- DayWorlds
    WipCeiling = 1
    InitItems <- BadDateItems
    DepLists <- Nothing
    EnvMoves <- Nothing
    LegacyIds = {}
    Undated = {TRUE}
    MayRetry = FALSE
    MaxCycles = 2
INVARIANTS
    BadDeclarationNeverAborts
