\* Entries that compete and entries with faults; images cut short, at the
\* wrong address or up to the end of the addresses; failing allocations.
CONSTANTS
    Images <- AllImages
    Requests <- AllRequests
    ImageSizes = {0, 5, 8}
    Start = 2
    Align = 2
    PtrLimit = 10
    ChipShift = 4
    PlatShift = 4
    MallocFails = TRUE
    Prefixes <- MCPrefixes
    PropNames <- MCPropNames
    PropValues <- MCPropValues
    BadMagic = BadMagic
    BadHeader = BadHeader
    Absent = Absent
    Malformed = Malformed
    EmptyString = EmptyString
    NULL = NULL
    proc = proc
    extra = extra
SPECIFICATION Spec
INVARIANTS TypeOK BaseIsFirst SocIsBest PlatIsBest ScoresMatch ReadDeliversType WalkKeepsToEntries
PROPERTIES NeverDowngrades OpenReturns
