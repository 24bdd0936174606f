\* Every blueprint; two hosts, three swaps over three slot names.
SPECIFICATION Spec
CONSTANTS
    h1 = h1
    h2 = h2
    Free = Free
    Hosts = {h1, h2}
    Offered = {"act", "hooks", "closer"}
    MaxSwaps = 3
SYMMETRY Symmetric
INVARIANTS
    TypeOK
    WiredIsReady
    BootsAreEarned
    ReleasedOnce
    NoOrganLost
CHECK_DEADLOCK FALSE
