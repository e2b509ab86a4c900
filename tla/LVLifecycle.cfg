SPECIFICATION FairSpec
CONSTANTS
    UIDs = {u1, u2}
    Sizes = {1, 2, 3}
    ClaimSize = 1
    None = None
    MaxFaults = 1
    MaxExpands = 2
INVARIANTS TypeOK NoOrphanLV DeletedVolumeIsGone StatusIsBacked
PROPERTIES VolumeIDIsStable ImplementsVolume DeletionCompletes ProvisioningSucceeds ExpansionCatchesUp
CHECK_DEADLOCK FALSE
