SPECIFICATION Spec
CONSTANTS
    a = a
    b = b
    x = x
    gate = gate
    lane = lane
    lane2 = lane2
    None = None
    Malformed = Malformed
    Cycle = Cycle
    Declarable <- MCDeclarable
    ItemIds = {a}
    Changes <- CleanOrRed
    Obligations <- Nothing
    GateLabels = {}
    LaneLabels = {lane}
    Worlds <- BareWorld
    WipCeiling = 1
    InitItems <- ArmedItems
    DepLists <- Nothing
    EnvMoves <- OnlyChange
    LegacyIds = {}
    Undated = {TRUE}
    MayRetry = FALSE
    MaxCycles = 2
INVARIANTS
    MergesOnlyClean
