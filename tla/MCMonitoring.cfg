CONSTANTS
    root = root
    extra = extra
    a = a
    b = b
    None = None
    Addresses = {root, extra}
    Values = {a, b}
    Snapshots <- MCSnapshots
    Findings <- MCFindings
    AlertPolicies <- MCAlertPolicies
    Steps = {1, 2}
    MaxCycles = 4
    MaxRestarts = 1
SPECIFICATION Spec
INVARIANTS
    NoSilentChange
    CriticalIsPaged
PROPERTY
    RepeatsAreQuiet
CHECK_DEADLOCK FALSE
