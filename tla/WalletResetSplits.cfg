SPECIFICATION SyncSpec
CONSTANTS
    None = None
    Names = {n1}
    Ids = {i1}
    Foreign = {}
    MaxWallets = 1
    NumCards = 3
    MaxGen = 2
    Threshold = 2
PROPERTIES
    ResetLeavesQuorum
