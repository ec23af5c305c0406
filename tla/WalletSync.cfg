SPECIFICATION FreshSpec
CONSTANTS
    None = None
    Names = {n1, n2}
    Ids = {i1, i2}
    Foreign = {i2}
    MaxWallets = 2
    NumCards = 3
    MaxGen = 2
    Threshold = 2
SYMMETRY NameSymmetry
INVARIANTS
    SeedRecoverable
PROPERTIES
    ResetLeavesQuorum
