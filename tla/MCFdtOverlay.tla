----------------------------- MODULE MCFdtOverlay -----------------------------
(***************************************************************************)
(* Small instances of FdtOverlay: a board, one whose phandles are almost   *)
(* used up and one without phandles or symbols, and overlays of one or two *)
(* fragments.                                                              *)
(***************************************************************************)
EXTENDS FdtOverlay

Cases == INSTANCE OverlayCases

MCBases == {Cases!Board(1, 2), Cases!Board(CellMax - 3, 2), Cases!Bare}

MCOverlays == Cases!OneFragment \cup Cases!WithSymbols \cup Cases!Doubles \cup Cases!Faulty
=============================================================================
