SPECIFICATION FairSpec
CONSTANTS
    MaxSeq = 3
    MaxChunks = 2
    MaxKeys = 1
    Kinds <- AppKinds
    Duplicates = TRUE
    Aborts = TRUE
INVARIANTS
    TypeOK
    NeverStuck
PROPERTIES
    CommandEnds
