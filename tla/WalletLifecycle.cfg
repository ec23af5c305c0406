SPECIFICATION Spec
CONSTANTS
    None = None
    Names = {n1, n2}
    Ids = {i1, i2}
    Foreign = {i1}
    MaxWallets = 2
    NumCards = 3
    MaxGen = 2
SYMMETRY NameSymmetry
INVARIANTS
    TypeOK
    ShareTracked
    WrittenCardsHold
    SlotsConsistent
    AssertsHold
    IInv
PROPERTIES
    ForeignSafe
    ValidOnlyIfAllAgree
    LockOnlyClearedByUnlock
    ImplementsLedger
