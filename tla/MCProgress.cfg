SPECIFICATION FairSpec
CONSTANTS
    gate = gate
    lane = lane
    lane2 = lane2
    None = None
    Malformed = Malformed
    Cycle = Cycle
    Issues = {1, 2}
    Pulls = {3, 4}
    GateLabels = {gate}
    LaneLabels = {lane}
    Starts <- ProgressStarts
    Mergeability <- OneTestMerge
    MaxHead = 1
    Moves = {"state", "file", "branch", "pull", "names", "talk"}
    MaxEvents = 2
    Owner = 100
    PageSize = 2
    FaultTypes = {"call", "crash"}
    Modes <- ProgressModes
    WipCeiling = 1
PROPERTIES
    IssuesAdvance
    ChangesMerge
    BlockedAreTold
