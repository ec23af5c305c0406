SPECIFICATION Spec
CONSTANTS
    MaxSeq = 3
    MaxChunks = 2
    MaxKeys = 1
    Kinds <- AllKinds
    Duplicates = FALSE
    Aborts = FALSE
INVARIANTS
    EventIntact
    OutputOfItsCommand
PROPERTIES
    StartsOnceInOrder
    ImplementsExchange
