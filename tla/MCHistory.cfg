CONSTANTS
    Outcomes <- MCOutcomes
    RetentionPolicies <- MCRetentionPolicies
    Period = 2
    Delays = {1}
    MaxCycles = 3
    MaxRestarts = 1
SPECIFICATION HistorySpec
INVARIANTS
    BaselineStands
    TimelineTellsTheTruth
PROPERTY
    RetentionSpares
