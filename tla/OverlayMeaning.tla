---------------------------- MODULE OverlayMeaning ----------------------------
(***************************************************************************)
(* What the blobs of trees and overlays mean: their cells as numbers and   *)
(* references, where references are the nodes and labels that the author   *)
(* had, whatever the phandles are by now.  OverlayMerge is about these.    *)
(***************************************************************************)
EXTENDS DeviceTree

(* The subnodes of the root of an overlay that have an __overlay__; the    *)
(* others are not merged.                                                  *)
Fragments(o) == SelectSeq(o.fragments, LAMBDA f : Overlay(f) \in DOMAIN o.nodes)

(* The places of references in an overlay. *)
References(o) == o.local_fixups \cup UNION Range(o.fixups)

ReferenceTo(nodes, phandle) ==
    IF WithPhandle(nodes, phandle) = {} THEN [dangling |-> phandle]
    ELSE [node |-> CHOOSE p \in WithPhandle(nodes, phandle) : TRUE]

(* A tree with the references at refs by the nodes they lead to. *)
Resolved(nodes, refs) ==
    [path \in DOMAIN nodes |->
        [prop \in DOMAIN nodes[path] \ PhandleProps |->
            [i \in DOMAIN nodes[path][prop] |->
                IF [path |-> path, prop |-> prop, cell |-> i] \in refs
                THEN ReferenceTo(nodes, nodes[path][prop][i])
                ELSE [number |-> nodes[path][prop][i]]]]]

Position(o, path) == CHOOSE i \in DOMAIN Fragments(o) : Fragments(o)[i] = path[1]

Own(o, path) == [own |-> <<Position(o, path), Rest(path)>>]

CellMeaning(o, x) ==
    IF x \in o.local_fixups
    THEN Own(o, CHOOSE p \in WithPhandle(o.nodes, At(o.nodes, x)) : TRUE)
    ELSE IF x \in UNION Range(o.fixups)
    THEN [label |-> CHOOSE label \in DOMAIN o.fixups : x \in o.fixups[label]]
    ELSE [number |-> At(o.nodes, x)]

NodeMeaning(o, path) ==
    [prop \in DOMAIN o.nodes[path] \ PhandleProps |->
        [i \in DOMAIN o.nodes[path][prop] |->
            CellMeaning(o, [path |-> path, prop |-> prop, cell |-> i])]]

FragmentMeaning(o, f) ==
    [target  |-> IF HasProp(o.nodes, <<f>>, "target")
                 THEN CellMeaning(o, [path |-> <<f>>, prop |-> "target", cell |-> 1])
                 ELSE [node |-> o.target_path[f]],
     content |-> [r \in DOMAIN Below(o.nodes, Overlay(f)) |-> NodeMeaning(o, Overlay(f) \o r)]]

Meaning(o) ==
    [fragments |-> [i \in DOMAIN Fragments(o) |-> FragmentMeaning(o, Fragments(o)[i])],
     symbols   |-> [label \in {l \in DOMAIN o.symbols : InFragment(o, o.symbols[l])} |->
                       Own(o, o.symbols[label])]]

(* The overlays that mean something: their references are where their      *)
(* tables say, to nodes they add, and each fragment says what it is about. *)
WellFormed(o) ==
    /\ \A x \in References(o) : HasCell(o.nodes, x)
    /\ \A x \in o.local_fixups :
          \E p \in WithPhandle(o.nodes, At(o.nodes, x)) : InFragment(o, p)
    /\ \A p \in DOMAIN o.nodes : \A prop \in PhandleProps \cap DOMAIN o.nodes[p] :
          Len(o.nodes[p][prop]) = 1
    /\ \A f \in Range(Fragments(o)) :
          IF HasProp(o.nodes, <<f>>, "target")
          THEN [path |-> <<f>>, prop |-> "target", cell |-> 1] \in References(o)
          ELSE f \in DOMAIN o.target_path
    /\ \A path \in Range(o.symbols) :
          Len(path) >= 2 /\ path[2] = "__overlay__" =>
             InFragment(o, path) /\ Overlay(path[1]) \in DOMAIN o.nodes
=============================================================================
