SPECIFICATION HSpec
CONSTANTS
    gate = gate
    lane = lane
    lane2 = lane2
    None = None
    Malformed = Malformed
    Cycle = Cycle
    Issues = {1, 2}
    Pulls = {3, 4}
    GateLabels = {gate}
    LaneLabels = {lane}
    Starts <- GroomStarts
    Mergeability <- OneTestMerge
    MaxHead = 1
    Moves = {"state", "labels", "blockers", "pull", "push", "ci", "draft", "mergeable", "talk"}
    MaxEvents = 2
    Owner = 100
    PageSize = 4
    FaultTypes = {"listing", "detail", "check_runs", "status", "blocked_by", "call", "auth", "crash"}
    Modes <- GroomModes
    WipCeiling = 2
INVARIANTS
    TypeOK
    NothingOpenIsMissed
    OneMarker
PROPERTIES
    CreatesUnblocked
    CreatesOneChange
    MergesConfirmed
