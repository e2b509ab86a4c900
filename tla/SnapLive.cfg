SPECIFICATION FairSpec
CONSTANTS
    Operations = {"Backup", "Restore"}
    None = None
    FaultKinds = {}
    MaxFaults = 0
PROPERTIES
    DeletionCompletes
    
    
CHECK_DEADLOCK FALSE
