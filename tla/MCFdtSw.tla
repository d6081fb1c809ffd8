------------------------------- MODULE MCFdtSw -------------------------------
(***************************************************************************)
(* A small instance of FdtSw: three overlapping buffers, property names    *)
(* one of which is the end of the other, values of zero and one cell.      *)
(***************************************************************************)
EXTENDS FdtSw

At(a, n) == [addr |-> a, size |-> n]
MCBuffers == {At(0, 7), At(2, 20), At(4, 28)}
MCReservations == {<<7, 1>>}
MCNames == {<< >>}
MCPropNames == {<<5>>, <<6, 5>>}
MCValues == {<< >>, <<4>>}
=============================================================================
