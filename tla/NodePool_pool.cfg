\* Four blocks of two entries.
CONSTANTS
    Blocks = {b1, b2, b3, b4}
    ENTRIES_PER_BLOCK = 2
    NULL = NULL
SPECIFICATION Spec
INVARIANTS TypeOK ListIsSound
PROPERTIES LeaksAreReported ImplementsNodeSet
