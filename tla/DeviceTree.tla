------------------------------ MODULE DeviceTree ------------------------------
(***************************************************************************)
(* Device trees as the overlay code sees them, and the blobs it is given.  *)
(* A tree is a function from the paths of its nodes to their properties,   *)
(* a property a sequence of cells.  The order of the children of a node    *)
(* and the bytes of strings are left out; of the nodes that libfdt finds   *)
(* by their names alone, __symbols__, __fixups__ and __local_fixups__ are  *)
(* fields of the blob, with their paths and offsets taken apart.           *)
(***************************************************************************)
EXTENDS Integers, Sequences, SequencesExt

PhandleProps == {"phandle", "linux,phandle"}

(* A place of a cell in a tree: [path, prop, cell]. *)
At(nodes, loc) == nodes[loc.path][loc.prop][loc.cell]

HasProp(nodes, path, prop) == path \in DOMAIN nodes /\ prop \in DOMAIN nodes[path]

HasCell(nodes, loc) ==
    HasProp(nodes, loc.path, loc.prop) /\ loc.cell \in DOMAIN nodes[loc.path][loc.prop]

(* The tree with a cell at each of the places changed from v to f[v]. *)
Changed(nodes, places, f) ==
    [path \in DOMAIN nodes |->
        [prop \in DOMAIN nodes[path] |->
            [i \in DOMAIN nodes[path][prop] |->
                IF [path |-> path, prop |-> prop, cell |-> i] \in places
                THEN f[nodes[path][prop][i]] ELSE nodes[path][prop][i]]]]

(* The phandle of a node, 0 if it has none: either property, if it is one  *)
(* cell.                                                                   *)
Phandle(node) ==
    LET given == {prop \in PhandleProps \cap DOMAIN node : Len(node[prop]) = 1}
    IN  IF given = {} THEN 0
        ELSE node[IF "phandle" \in given THEN "phandle" ELSE "linux,phandle"][1]

WithPhandle(nodes, phandle) == {p \in DOMAIN nodes : Phandle(nodes[p]) = phandle}

(* The nodes at and below top, by the rest of their paths. *)
Below(nodes, top) ==
    LET rest == {SubSeq(p, Len(top) + 1, Len(p)) :
                    p \in {q \in DOMAIN nodes : IsPrefix(top, q)}}
    IN  [r \in rest |-> nodes[top \o r]]

(* The tree with the content put into the node top: what both have is the  *)
(* content's.                                                              *)
Grafted(nodes, top, content) ==
    LET placed == [p \in {top \o r : r \in DOMAIN content} |->
                      content[SubSeq(p, Len(top) + 1, Len(p))]]
    IN  [p \in DOMAIN nodes \cup DOMAIN placed |->
            IF p \notin DOMAIN placed THEN nodes[p]
            ELSE IF p \notin DOMAIN nodes THEN placed[p]
            ELSE placed[p] @@ nodes[p]]

(* The fragment in front of the path of a node of an overlay, and whether  *)
(* that node is part of what the fragment adds.                            *)
InFragment(o, path) ==
    /\ Len(path) >= 2 /\ path[2] = "__overlay__"
    /\ path[1] \in Range(o.fragments)

Rest(path) == SubSeq(path, 3, Len(path))

Overlay(name) == <<name, "__overlay__">>
=============================================================================
