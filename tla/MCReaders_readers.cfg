\* Every call on every node, with buffers asked for and with others.
CONSTANTS
    DeviceTrees <- MCDeviceTrees
    Base = 3
    MemSize = 28
    Sizes = {0, 1, 2, 4, 7, 14}
    Indices <- MCIndices
    Formats <- MCFormats
    Words <- MCWords
    reg <- MCreg
    reg_names <- MCreg_names
    compatible <- MCcompatible
SPECIFICATION Spec
INVARIANTS AskedSizesSuffice ValuesAreAllOrNothing SlicesAreRight RegIsRight HandlesAreRight
