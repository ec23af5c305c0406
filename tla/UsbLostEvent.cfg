SPECIFICATION Spec
CONSTANTS
    MaxSeq = 1
    MaxChunks = 1
    MaxKeys = 1
    Kinds <- CoreOnly
    Duplicates = TRUE
    Aborts = FALSE
INVARIANTS
    NeverStuck
