CONSTANTS
    Request = {"r1", "r2"}
SPECIFICATION ShutdownSpec
INVARIANTS
    ProcessTypeOK
    ReleasedAfterUse
    WorkersOutliveTraffic
PROPERTIES
    ShutdownEnds
CHECK_DEADLOCK FALSE
