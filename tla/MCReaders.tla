----------------------------- MODULE MCReaders -----------------------------
(* Two device trees, of one node and of six, for Readers. *)
EXTENDS Readers

Prop(name, value) == [name |-> name, value |-> value]
Node(depth, name, props) == [depth |-> depth, name |-> name, props |-> props]

(* The names of properties and of nodes, and the strings of lists *)
A == <<1>>
B == <<2, 1>>
C == <<1, 2, 1>>
MCreg == <<2, 2>>
MCreg_names == <<2>>
MCcompatible == <<1, 1>>

Strings(list) == FlattenSeq([k \in DOMAIN list |-> list[k] \o <<NUL>>])

Cell(byte) == <<0, byte, 1, 2>>

(* Lists of strings one of which begins or ends as the other, an empty     *)
(* value, numbers of every width, and reg with cells left over.            *)
Machine == <<
    Node(0, << >>, <<Prop(MCcompatible, Strings(<<A, B>>)), Prop(C, << >>)>>),
    Node(1, B, <<Prop(MCreg, Cell(0) \o Cell(1) \o Cell(2) \o Cell(0) \o Cell(2)),
                 Prop(MCreg_names, Strings(<<C, A>>))>>),
    Node(2, A, <<Prop(A, <<1, 2>>), Prop(B, Cell(2) \o Cell(1)), Prop(C, Cell(1))>>),
    Node(3, C, <<Prop(MCcompatible, Strings(<<B>>))>>),
    Node(2, C, <<Prop(MCcompatible, Strings(<<C, A>>)), Prop(MCreg, Cell(1) \o Cell(2))>>),
    Node(1, A, <<Prop(MCcompatible, Strings(<<B, A>>)), Prop(A, <<2>>)>>)>>

Bare == <<Node(0, << >>, << >>)>>

MCDeviceTrees == {Machine, Bare}
MCWords == {A, B}
MCIndices == -1..3

Letters == {"b", "h", "w", "d", "i", "x"}
MCFormats == {<<>>} \cup {<<a>> : a \in Letters} \cup {<<a, b>> : a, b \in Letters}
             \cup {<<"h", "d", "w">>, <<"b", "w", "w">>, <<"h", "i", "w">>, <<"h", "w", "x">>}
=============================================================================
