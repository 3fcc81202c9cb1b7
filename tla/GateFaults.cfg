SPECIFICATION FairSpec
CONSTANTS
    MaxSubmits = 2
    MaxPosts = 2
    MaxRevisions = 2
    MaxFaults = 3
    MaxPurges = 0
INVARIANTS
    TypeOK
    LiveServerAgreesWithDisk
    AckedVerdictStands
    TurnIsWhole
PROPERTIES
    ImplementsGate
    VerdictReachesDriver
