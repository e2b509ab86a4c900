SPECIFICATION Spec
CONSTANTS
    Operations = {"Backup", "Restore"}
    None = None
    FaultKinds = {"api", "mount", "lvmd", "podCreate", "podLost", "podFails", "restart", "source", "storage"}
    MaxFaults = 1
INVARIANTS
    TypeOK
    BackupBeforeRemoval
    DeleteConditionIsTrue

    
CHECK_DEADLOCK FALSE
