\* Three trees, overlays of one or two fragments; two are applied one after the other.
CONSTANTS
    Bases <- MCBases
    Overlays <- MCOverlays
    CellMax = 15
    MaxApplied = 3
SPECIFICATION Spec
INVARIANTS PhandlesFindTheirNodes
PROPERTIES PhandlesAreKept ImplementsOverlayMerge
