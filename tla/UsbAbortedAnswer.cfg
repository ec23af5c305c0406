SPECIFICATION Spec
CONSTANTS
    MaxSeq = 3
    MaxChunks = 1
    MaxKeys = 1
    Kinds <- AppOnly
    Duplicates = FALSE
    Aborts = TRUE
PROPERTIES
    SendsAfterConsuming
