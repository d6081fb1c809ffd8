SPECIFICATION Spec
CONSTANTS
    Bases <- MCBases
    Overlays <- MCOverlays
    Singles <- MCSingles
    Lists <- MCLists
    CellMax = 63
    MaxCalls = 2
INVARIANTS
    TreesAreSound
    PhandlesDoNotCollide
PROPERTY ImplementsOverlayMerge
