\* Any allocation may fail; both addresses hold trees.
SPECIFICATION Spec
CONSTANTS
    Blobs = {b1, b2}
    NULL = NULL
    BlobIds = {id0}
    Trees <- MCValidTrees
    Queries <- MCQueries
    BootPath <- SwBoot
    Aliases <- MCAliases
    Stem <- MCStem
    Hash <- MCHash
    HashLevels = 3
    MaxPhandle = 2
    MallocFails = TRUE
INVARIANT PhandlesAreRight
