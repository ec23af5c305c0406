SPECIFICATION SyncSpec
CONSTANTS
    None = None
    Names = {n1, n2}
    Ids = {i1, i2}
    Foreign = {i2}
    MaxWallets = 2
    NumCards = 3
    MaxGen = 1
    Threshold = 2
SYMMETRY NameSymmetry
INVARIANTS
    SyncTypeOK
    SlotsConsistent
PROPERTIES
    SyncQuorum
    ErasedIsListed
    LockOnlyClearedByUnlock
