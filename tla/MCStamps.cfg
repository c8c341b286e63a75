SPECIFICATION Spec
CONSTANTS
    a = a
    b = b
    x = x
    gate = gate
    lane = lane
    lane2 = lane2
    None = None
    Malformed = Malformed
    Cycle = Cycle
    Declarable <- MCDeclarable
    ItemIds = {a}
    Changes <- Nothing
    Obligations <- Nothing
    GateLabels = {}
    LaneLabels = {}
    Worlds <- ObjectWorlds
    WipCeiling = 1
    InitItems <- JustBare
    DepLists <- StampDepLists
    EnvMoves <- StampMoves
    LegacyIds = {a}
    Undated = {TRUE, FALSE}
    MayRetry = TRUE
    MaxCycles = 3
PROPERTIES
    StampsNeverMove
    StampsNeedABefore
    IdempotentInGeneration
    StagesImplementLedger
    FlipsImplementLedger
