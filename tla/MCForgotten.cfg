SPECIFICATION FairSpec
CONSTANTS
    gate = gate
    lane = lane
    lane2 = lane2
    None = None
    Malformed = Malformed
    Cycle = Cycle
    Issues = {1, 2}
    Pulls = {3, 4}
    GateLabels = {gate}
    LaneLabels = {lane}
    Starts <- NamedStarts
    Mergeability <- OneTestMerge
    MaxHead = 1
    Moves = {"state"}
    MaxEvents = 1
    Owner = 100
    PageSize = 4
    FaultTypes = {}
    Modes <- KeptStore
    WipCeiling = 1
PROPERTIES
    NothingIsForgotten
