SPECIFICATION Spec
CONSTANTS
    Watches = {w1}
    Interval <- MCInterval
    Scans = {a, b}
    EmptyScan = empty
    None = none
    MaxTime = 3
    MaxEvents = 4
SYMMETRY MCSymmetry
INVARIANTS
    AuditReplays
    ScheduleFollowsLog
PROPERTIES
    BaselineKept
