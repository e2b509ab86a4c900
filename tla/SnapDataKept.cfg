SPECIFICATION Spec
CONSTANTS
    Operations = {"Backup"}
    None = None
    FaultKinds = {}
    MaxFaults = 0
INVARIANT DataKept
CHECK_DEADLOCK FALSE
