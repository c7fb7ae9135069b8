SPECIFICATION FairSpec
CONSTANTS
    indexer = indexer
    admin = admin
    ClientIds <- MCClientIds
    Unset = Unset
    Configs <- MCConfigs
    Addresses = {office, nas}
    MaxFailures = 3
    Window = 3
    Anyone = Anyone
    Nothing = Nothing
INVARIANTS
    GateTypeOK
    NoElevation
    OldConfigsWork
PROPERTY
    LockoutEnds
