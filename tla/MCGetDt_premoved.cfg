\* PRE mode with the base DTB anywhere in the image.
CONSTANTS
    Images <- MCImages
    Start = 1
    ImageEnd = 8
    ImageSizes = {0, 7}
    Builds <- MCPre
    HeapSlots = {9, 11, 13, 15, 22, 29}
    HandleSize = 1
    HeaderSize = 1
    PageSize = 4
    MallocFails = TRUE
    MaxHeld = 1
SPECIFICATION Spec
INVARIANT ResultIsMerged
