---------------------------- MODULE MCUfdtOverlay ----------------------------
(***************************************************************************)
(* Small instances of UfdtOverlay: two device trees, eight buffers, four   *)
(* of them with overlays that cannot be applied, in lists of up to three.  *)
(***************************************************************************)
EXTENDS UfdtOverlay

Cases == INSTANCE OverlayCases

MCBases == {Cases!Board(1, 2), Cases!Bare}

MCOverlays == Cases!Buffers

MCSingles == {1, 2, 5}

MCLists == {list \in UNION {[1..n -> 1..8] : n \in 1..2} \cup [1..3 -> 1..3] :
               IsInjective(list)}
=============================================================================
