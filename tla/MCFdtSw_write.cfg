\* Trees are written and moved; words take two cells, so that data is padded.
CONSTANTS
    MemSize = 32
    Buffers <- MCBuffers
    Reservations <- MCReservations
    Names <- MCNames
    PropNames <- MCPropNames
    Values <- MCValues
    Leftovers = {3}
    FDT_TAGSIZE = 2
SPECIFICATION Spec
INVARIANTS TypeOK BlocksAreSound
PROPERTIES FailureChangesNothing NothingIsLost
