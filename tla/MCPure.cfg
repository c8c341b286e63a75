SPECIFICATION Spec
CONSTANTS
    a = a
    b = b
    c = c
    MaxDeps = 2
    x = x
    gate = gate
    lane = lane
    lane2 = lane2
    None = None
    Malformed = Malformed
    Cycle = Cycle
    ItemIds <- MCItemIds
    Declarable <- MCDeclarable
    Worlds <- MCWorlds
    Changes <- MCChanges
    Obligations <- MCObligations
    GateLabels = {gate}
    LaneLabels = {lane, lane2}
INVARIANTS
    ClosureIsReachability
    ChainIffBlocked
    ChainEndsAtRootCause
    ChainRaisesOnlyInCycles
    ChainWithinClosure
    HonestDegradation
    HonestReadiness
    ConfirmedAutomerge
