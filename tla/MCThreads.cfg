SPECIFICATION Spec
CONSTANTS
    gate = gate
    lane = lane
    lane2 = lane2
    None = None
    Malformed = Malformed
    Cycle = Cycle
    Issues = {1, 2}
    Pulls = {3, 4}
    GateLabels = {gate}
    LaneLabels = {lane}
    Starts <- ThreadedStarts
    Mergeability <- OneTestMerge
    MaxHead = 1
    Moves = {"state"}
    MaxEvents = 1
    Owner = 100
    PageSize = 4
    FaultTypes = {}
    Modes <- CommandLine
    WipCeiling = 1
PROPERTIES
    MergesWithoutThreads
