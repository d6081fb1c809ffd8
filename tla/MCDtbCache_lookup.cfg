\* Two addresses, two trees; any allocation may fail.
SPECIFICATION Spec
CONSTANTS
    Blobs = {b1, b2}
    NULL = NULL
    BlobIds = {id0}
    Trees <- MCTrees
    Queries <- MCQueries
    BootPath <- SwBoot
    Aliases <- MCAliases
    Stem <- MCStem
    Hash <- MCHash
    HashLevels = 3
    MaxPhandle = 2
    MallocFails = TRUE
INVARIANTS TypeOK LookupsAreRight PhandlesAreRightIfBuilt TablesAreSound
SYMMETRY Symmetry
