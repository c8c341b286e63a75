SPECIFICATION Spec
CONSTANTS
    a = a
    b = b
    x = x
    gate = gate
    lane = lane
    lane2 = lane2
    None = None
    Malformed = Malformed
    Cycle = Cycle
    Declarable <- MCDeclarable
    ItemIds <- MCItemIds
    Changes <- Nothing
    Obligations <- Nothing
    GateLabels = {gate}
    LaneLabels = {}
    Worlds <- SkipWorlds
    WipCeiling = 1
    InitItems <- JustBare
    DepLists <- SkipDepLists
    EnvMoves <- SkipMoves
    LegacyIds = {}
    Undated = {TRUE}
    MayRetry = FALSE
    MaxCycles = 2
INVARIANTS
    TypeOK
    SkipIsRederivation
    BlockersAreCurrent
    NeverActsBlocked
