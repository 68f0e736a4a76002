SPECIFICATION MCSpec
CONSTANTS
    Version = {1, 2, 3}
    None = None
    Process = {bridge, cli}
    Singleton = {bridge}
    Keep = 1
    MaxApprovals = 3
    MaxLaunches = 2
    MaxCrashes = 1
    MaxContent = 2
INVARIANTS
    TypeOK
    DataIsTrue
    AloneInStores
    InstallerOnRecord
    CopiesAreKept
PROPERTIES
    HonestOutcome
    NeverNewer
    StartsAgain
CHECK_DEADLOCK FALSE
