\* Both builds and both modes; blobs of 4 addresses and more are pages for UEFI.
CONSTANTS
    Images <- MCImages
    Start = 1
    ImageEnd = 8
    ImageSizes = {0, 7}
    Builds <- MCBuilds
    HeapSlots = {9, 11, 13, 15, 22, 29}
    HandleSize = 1
    HeaderSize = 1
    PageSize = 4
    MallocFails = TRUE
    MaxHeld = 2
SPECIFICATION Spec
INVARIANTS TypeOK UnmovedIsMerged ReadsFindBlobs BuffersAreGivenBack
PROPERTIES WritesStayInside
