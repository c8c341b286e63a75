SPECIFICATION Spec
CONSTANTS
    a = a
    b = b
    x = x
    gate = gate
    lane = lane
    lane2 = lane2
    None = None
    Malformed = Malformed
    Cycle = Cycle
    Declarable <- MCDeclarable
    ItemIds = {a}
    Changes <- CleanOrRed
    Obligations <- MCObligations
    GateLabels = {gate}
    LaneLabels = {lane}
    Worlds <- LifeWorlds
    WipCeiling = 1
    InitItems <- JustBare
    DepLists <- LifeDepLists
    EnvMoves <- LifeMoves
    LegacyIds = {}
    Undated = {TRUE}
    MayRetry = FALSE
    MaxCycles = 2
INVARIANTS
    TerminalNeverRegresses
    NeverActsBlocked
