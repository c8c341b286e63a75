SPECIFICATION Spec
CONSTANTS
    a = a
    b = b
    x = x
    gate = gate
    lane = lane
    lane2 = lane2
    None = None
    Malformed = Malformed
    Cycle = Cycle
    Declarable <- MCDeclarable
    ItemIds <- MCItemIds
    Changes <- JustClean
    Obligations <- Nothing
    GateLabels = {}
    LaneLabels = {lane}
    Worlds <- ObjectWorlds
    WipCeiling = 1
    InitItems <- QueueItems
    DepLists <- Nothing
    EnvMoves <- QueueMoves
    LegacyIds = {}
    Undated = {TRUE}
    MayRetry = FALSE
    MaxCycles = 2
INVARIANTS
    SaturatedAdmitsNothing
    DenialNeverSticks
