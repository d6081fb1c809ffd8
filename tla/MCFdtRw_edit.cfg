\* Trees are built and edited in buffers of which only the last has room.
CONSTANTS
    MemSize = 60
    Buffers <- MCBuffers
    Reservations <- MCReservations
    Names <- MCNames
    PropNames <- MCPropNames
    Values <- MCValues
    Loaded <- MCLoaded
    LEFTOVER = 5
    SLASH = 9
    AT = 8
    FDT_TAGSIZE = 2
SPECIFICATION Spec
INVARIANTS EditedIsReadable
PROPERTIES FailureTakesNothing ImplementsTreeEditor
CONSTRAINT Small
