SPECIFICATION Spec
CONSTANTS
    MaxSeq = 1
    MaxChunks = 2
    MaxKeys = 1
    Kinds <- AppOnly
    Duplicates = TRUE
    Aborts = FALSE
PROPERTIES
    DuplicatesIgnored
