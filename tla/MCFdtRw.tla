------------------------------- MODULE MCFdtRw -------------------------------
(***************************************************************************)
(* A small instance of FdtRw: two overlapping buffers, property names one  *)
(* of which is the end of the other, and two blobs of other tools, one     *)
(* with the strings before the structure and one with room between them.   *)
(***************************************************************************)
EXTENDS FdtRw

Buf(a, n) == [addr |-> a, size |-> n]
MCBuffers == {Buf(0, 16), Buf(0, 30), Buf(4, 56)}
MCReservations == {<<7, 1>>}
MCNames == {<<1>>, <<1, AT>>, <<SLASH>>}
MCPropNames == {<<5>>, <<6, 5>>}
MCValues == {<< >>, <<4>>}

(* A node with the property <<5>> *)
Struct == Word(FDT_BEGIN_NODE) \o Word(0)
          \o Word(FDT_PROP) \o Word(1) \o Word(0) \o Word(4)
          \o Word(FDT_END_NODE) \o Word(FDT_END)

(* Header, reservations, strings, structure *)
StringsFirst ==
    <<FDT_MAGIC, 28, 12, 10, 8, 0, 2, Len(Struct)>> \o <<0, 0>> \o <<5, 0>> \o Struct

(* Room behind the header and before the strings *)
WithRoom ==
    <<FDT_MAGIC, 31, 11, 29, 9, 0, 2, Len(Struct)>> \o <<9>> \o <<0, 0>>
        \o Struct \o <<9, 9>> \o <<5, 0>>

Depths == [o \in {0, 4, 12, 14} |-> IF o \in {4, 12} THEN 1 ELSE 0]

MCLoaded == {[cells |-> blob, depth |-> Depths] : blob \in {StringsFirst, WithRoom}}

(* Bounds what is edited further: the structure block, the length of a     *)
(* value and the reservations *)
MaxStruct == 20
MaxValue == 2
MaxReserved == 1

Small ==
    fdt # NULL =>
        /\ size_dt_struct(mem) <= MaxStruct
        /\ \A k \in DOMAIN pieces : Len(pieces[k].value) <= MaxValue
        /\ Len(reserved) <= MaxReserved
=============================================================================
