------------------------------ MODULE UfdtOverlay ------------------------------
(***************************************************************************)
(* ufdt_apply_overlay and ufdt_apply_multioverlay of                       *)
(* libs/libufdt/ufdt_overlay.c, with the trees of ufdt_node.c and          *)
(* ufdt_convert.c they work on: blobs are unflattened into trees of nodes  *)
(* from a pool, the nodes of the overlays' trees are moved to the tree of  *)
(* the device tree, and that is flattened again.                           *)
(*                                                                         *)
(* A node of a tree, or a property, is a slot: <<path, name>>, with the    *)
(* name "" for the node itself.  What is in a slot is a node of the pool,  *)
(* and data is where its fdt_tag_ptr points: the blob and the path of the  *)
(* node there.  Cells are read from the blobs, and references of overlays  *)
(* are changed there, in the buffers of the client.                        *)
(*                                                                         *)
(* The pool is that of NodePool.tla: here, the nodes it has handed out.    *)
(***************************************************************************)
EXTENDS OverlayMeaning, FiniteSetsExt

CONSTANTS
    Bases,      \* the device trees to begin with: nodes, symbols, references
    Overlays,   \* the overlays in the buffers of a client, a sequence
    Singles,    \* the buffers given to ufdt_apply_overlay
    Lists,      \* the sequences of buffers given to ufdt_apply_multioverlay
    CellMax,    \* the largest cell
    MaxCalls    \* bound: calls made

(* The nodes of a blob: finitely many, with finitely many properties *)
IsContent(content) ==
    /\ IsFiniteSet(DOMAIN content) /\ DOMAIN content \subseteq Seq(STRING)
    /\ \A path \in DOMAIN content : /\ IsFiniteSet(DOMAIN content[path])
                                    /\ DOMAIN content[path] \subseteq STRING

ASSUME ConstantsAreTyped ==
    /\ CellMax \in Nat /\ MaxCalls \in Nat
    /\ \A b \in Bases : IsContent(b.nodes)
    /\ DOMAIN Overlays \subseteq Nat \ {0}
    /\ \A b \in DOMAIN Overlays :
          /\ "magic" \in DOMAIN Overlays[b]
          /\ Overlays[b].magic =>
                "nodes" \in DOMAIN Overlays[b] /\ IsContent(Overlays[b].nodes)
    /\ Singles \subseteq DOMAIN Overlays
    /\ Lists \subseteq Seq(DOMAIN Overlays) \ {<< >>}
    /\ \A list \in Lists : IsInjective(list)

VARIABLES
    fdt,           \* the device tree: nodes, symbols; references is history
    buffers,       \* what is in the buffers of the overlays
    multi,         \* whether it is ufdt_apply_multioverlay that runs
    overlays, i,   \* its overlays, and the one whose turn it is
    main_tree, overlay_tree,
    phandle_table, \* of main_tree
    fdtps,         \* of main_tree: the blobs whose strings it needs
    nodes,         \* of the pool: those handed out and not freed
    fragment,      \* the next fragment of the overlay
    pc, ret,
    calls, applied \* history: the calls, and those that succeeded

vars == <<fdt, buffers, multi, overlays, i, main_tree, overlay_tree, phandle_table,
          fdtps, nodes, fragment, pc, ret, calls, applied>>

----------------------------------------------------------------------------
(* Trees *)

Main == 0   \* the blob of the device tree; the others are the buffers

NodesOf(blob) == IF blob = Main THEN fdt.nodes ELSE buffers[blob].nodes

NULL == [slot \in {} |-> 0]

ufdt_from_fdt(blob) ==
    LET content == NodesOf(blob)
        slots   == UNION {{<<path, name>> : name \in DOMAIN content[path] \cup {""}} :
                             path \in DOMAIN content}
    IN  [slot \in slots |-> [node |-> <<blob, slot>>, data |-> <<blob, slot[1]>>]]

NodesIn(tree) == {tree[slot].node : slot \in DOMAIN tree}

Paths(tree) == {slot[1] : slot \in DOMAIN tree}

Props(tree, path) == {slot[2] : slot \in {s \in DOMAIN tree : s[1] = path}} \ {""}

(* The device tree that a tree stands for. *)
Flattened(tree) ==
    [path \in Paths(tree) |->
        [prop \in Props(tree, path) |->
            LET data == tree[<<path, prop>>].data IN NodesOf(data[1])[data[2]][prop]]]

(* The places of references in it: a property has those it has in the blob *)
(* it comes from.                                                          *)
ReferencesOf(blob) ==
    IF blob = Main THEN fdt.references ELSE References(buffers[blob])

FlattenedReferences(tree) ==
    UNION {LET data == tree[slot].data
           IN  {[x EXCEPT !.path = slot[1]] :
                   x \in {y \in ReferencesOf(data[1]) :
                             y.path = data[2] /\ y.prop = slot[2]}} :
           slot \in DOMAIN tree}

build_phandle_table(tree) ==
    LET content == Flattened(tree)
    IN  {[phandle |-> Phandle(content[path]), node |-> tree[<<path, "">>].node] :
            path \in {p \in DOMAIN content : Phandle(content[p]) # 0}}

ufdt_get_max_phandle == Max({0} \cup {entry.phandle : entry \in phandle_table})

Found(path) == [found |-> TRUE, path |-> path]
NotFound    == [found |-> FALSE]

ufdt_get_node_by_path(tree, path) ==
    IF path \in Paths(tree) THEN Found(path) ELSE NotFound

(* The nodes that the table has under a phandle, by their places now. *)
ufdt_get_node_by_phandle(phandle) ==
    LET entries == {entry \in phandle_table : entry.phandle = phandle}
    IN  IF entries = {} THEN NotFound
        ELSE Found((CHOOSE slot \in DOMAIN main_tree :
                       main_tree[slot].node \in {entry.node : entry \in entries})[1])

----------------------------------------------------------------------------
(* A call *)

Init ==
    /\ fdt \in Bases /\ buffers = Overlays
    /\ multi = FALSE /\ overlays = << >> /\ i = 1
    /\ main_tree = NULL /\ overlay_tree = NULL /\ phandle_table = {}
    /\ fdtps = << >> /\ nodes = {} /\ fragment = 1
    /\ pc = "idle" /\ ret = 0 /\ calls = 0 /\ applied = 0

(* The tree of the device tree is built, from nodes of the pool. *)
Begin(list) ==
    /\ pc = "idle" /\ calls < MaxCalls
    /\ overlays' = list /\ i' = 1
    /\ main_tree' = ufdt_from_fdt(Main)
    /\ phandle_table' = build_phandle_table(main_tree')
    /\ fdtps' = <<Main>> /\ nodes' = nodes \cup NodesIn(main_tree')
    /\ pc' = "overlay" /\ calls' = calls + 1
    /\ UNCHANGED <<fdt, buffers, overlay_tree, fragment, ret, applied>>

(* A client checks the headers with ufdt_install_blob. *)
ufdt_apply_overlay(b) ==
    /\ buffers[b].magic
    /\ multi' = FALSE
    /\ Begin(<<b>>)

(* A size is not that of the blob, or dto_malloc returns NULL for the result. *)
Refused ==
    /\ pc = "idle" /\ ret' = -1
    /\ UNCHANGED <<fdt, buffers, multi, overlays, i, main_tree, overlay_tree,
                   phandle_table, fdtps, nodes, fragment, pc, calls, applied>>

ufdt_apply_multioverlay(list) ==
    /\ multi' = TRUE
    /\ Begin(list)

(* Both trees are destructed, and all else is forgotten. *)
Return(value) ==
    /\ pc' = "idle" /\ ret' = value
    /\ nodes' = nodes \ (NodesIn(main_tree) \cup NodesIn(overlay_tree))
    /\ main_tree' = NULL /\ overlay_tree' = NULL /\ phandle_table' = {}
    /\ fdtps' = << >> /\ overlays' = << >> /\ i' = 1 /\ fragment' = 1
    /\ multi' = FALSE
    /\ UNCHANGED calls

Fail == Return(-1) /\ UNCHANGED <<fdt, applied>>

(* Mutated form of MainTable: it is not rebuilt. *)
MainTable_FirstOnly(n) == phandle_table

(* The phandle table of the main tree for the n-th overlay. *)
MainTable(n) == IF n = 1 THEN phandle_table ELSE build_phandle_table(main_tree)

ufdt_add_fdt(blob) == Append(fdtps, blob)

(* The room for fdtps is two, and then doubled whenever it is used up. *)
FdtpsAreFull == Len(fdtps) >= 2 /\ \E k \in 1..Len(fdtps) : Len(fdtps) = 2^k

(* The tree of the next overlay is built. *)
NextOverlay ==
    /\ pc = "overlay"
    /\ \/ /\ buffers[overlays[i]].magic
          /\ phandle_table' = MainTable(i)
          /\ overlay_tree' = ufdt_from_fdt(overlays[i])
          /\ nodes' = nodes \cup NodesIn(overlay_tree')
          /\ fdtps' = ufdt_add_fdt(overlays[i])
          /\ pc' = "local"
          /\ UNCHANGED <<fdt, buffers, multi, overlays, i, main_tree, fragment, ret,
                         calls, applied>>
       \/ /\ ~buffers[overlays[i]].magic \/ FdtpsAreFull   \* dto_malloc returns NULL
          /\ Fail
          /\ UNCHANGED buffers

----------------------------------------------------------------------------
(* The steps of ufdt_overlay_apply *)

Overlaid == buffers[overlays[i]]   \* the overlay whose turn it is

(* The step is done, with these nodes in the blob of the overlay. *)
Proceed(step, content) ==
    /\ pc' = step
    /\ buffers' = [buffers EXCEPT ![overlays[i]].nodes = content]
    /\ UNCHANGED <<fdt, multi, overlays, i, main_tree, overlay_tree, phandle_table,
                   fdtps, nodes, fragment, ret, calls, applied>>

FailWith(content) ==
    /\ buffers' = [buffers EXCEPT ![overlays[i]].nodes = content]
    /\ Fail

(* fdt_increase_u32: sums wrap around. *)
Increased == [v \in 0..CellMax |-> (v + ufdt_get_max_phandle) % (CellMax + 1)]

(* Mutated form of PhandlePlaces: linux,phandle is forgotten. *)
PhandlePlaces_PhandleOnly(o) ==
    {[path |-> path, prop |-> "phandle", cell |-> 1] :
        path \in {p \in DOMAIN o.nodes : HasProp(o.nodes, p, "phandle")}}

(* The phandles of the nodes in the table of the overlay, where they are   *)
(* one cell.                                                               *)
PhandlePlaces(o) ==
    LET named == {path \in DOMAIN o.nodes : Phandle(o.nodes[path]) # 0}
        slots == UNION {{<<path, prop>> : prop \in PhandleProps \cap DOMAIN o.nodes[path]} :
                           path \in named}
    IN  {[path |-> s[1], prop |-> s[2], cell |-> 1] :
            s \in {x \in slots : Len(o.nodes[x[1]][x[2]]) = 1}}

ufdt_try_increase_phandle == Changed(Overlaid.nodes, PhandlePlaces(Overlaid), Increased)

(* Local fixups are done up to the first that does not find its place. *)
ufdt_overlay_local_ref_update ==
    LET there == {x \in Overlaid.local_fixups : HasCell(Overlaid.nodes, x)}
        FixedUp(done) == Changed(ufdt_try_increase_phandle, done, Increased)
    IN  /\ pc = "local"
        /\ \/ /\ there = Overlaid.local_fixups
              /\ Proceed("fixups", FixedUp(there))
           \/ /\ there # Overlaid.local_fixups
              /\ \E done \in SUBSET there : FailWith(FixedUp(done))

(* The phandle of the node with a label, if it is found. *)
SymbolIsFound(label) ==
    label \in DOMAIN fdt.symbols /\ fdt.symbols[label] \in Paths(main_tree)

SymbolPhandle(label) == Phandle(Flattened(main_tree)[fdt.symbols[label]])

FixedUp(content, labels) ==
    [path \in DOMAIN content |->
        [prop \in DOMAIN content[path] |->
            [k \in DOMAIN content[path][prop] |->
                LET here == {label \in labels :
                                [path |-> path, prop |-> prop, cell |-> k]
                                    \in Overlaid.fixups[label]}
                IN  IF here = {} THEN content[path][prop][k]
                    ELSE SymbolPhandle(CHOOSE label \in here : TRUE)]]]

(* Labels are done up to the first that is not found, or whose place is    *)
(* not; of that one, the places before are left out.                       *)
ufdt_overlay_do_fixups ==
    LET good == {label \in DOMAIN Overlaid.fixups :
                    /\ SymbolIsFound(label)
                    /\ \A x \in Overlaid.fixups[label] : HasCell(Overlaid.nodes, x)}
    IN  /\ pc = "fixups"
        /\ \/ /\ good = DOMAIN Overlaid.fixups
              /\ Proceed("fragments", FixedUp(Overlaid.nodes, good))
           \/ /\ good # DOMAIN Overlaid.fixups
              /\ \E done \in SUBSET good : FailWith(FixedUp(Overlaid.nodes, done))

ufdt_overlay_get_target(name) ==
    IF HasProp(Overlaid.nodes, <<name>>, "target")
    THEN ufdt_get_node_by_phandle(Overlaid.nodes[<<name>>]["target"][1])
    ELSE IF name \in DOMAIN Overlaid.target_path
    THEN ufdt_get_node_by_path(main_tree, Overlaid.target_path[name])
    ELSE NotFound

(* The slots below a node of the overlay's tree, and where they go in the  *)
(* tree when that node is merged into target.                              *)
Merged(top) == {slot \in DOMAIN overlay_tree :
                   IsPrefix(top, slot[1]) /\ slot # <<top, "">>}

Moved(slot, target) == <<target \o Rest(slot[1]), slot[2]>>

(* Mutated form of Matched: the node stays with nobody. *)
Matched_Kept(top, target) == {}

(* The nodes of the overlay that the tree has a node for already: they are *)
(* freed.                                                                  *)
Matched(top, target) ==
    {overlay_tree[slot].node :
        slot \in {s \in Merged(top) : Moved(s, target) \in DOMAIN main_tree}}

(* What is left of the overlay's tree. *)
LeftAfterMerge(top) == Restrict(overlay_tree, DOMAIN overlay_tree \ Merged(top))

(* A property that both have keeps its node in the tree and points to the  *)
(* data of the overlay.                                                    *)
ufdt_node_merge_into(target, top) ==
    LET arrived == [slot \in {Moved(s, target) : s \in Merged(top)} |->
                       overlay_tree[<<top \o SubSeq(slot[1], Len(target) + 1, Len(slot[1])),
                                      slot[2]>>]]
    IN  /\ main_tree' =
               [slot \in DOMAIN main_tree \cup DOMAIN arrived |->
                   IF slot \notin DOMAIN arrived THEN main_tree[slot]
                   ELSE IF slot \notin DOMAIN main_tree THEN arrived[slot]
                   ELSE [main_tree[slot] EXCEPT !.data = arrived[slot].data]]
        /\ nodes' = nodes \ Matched(top, target)
        /\ overlay_tree' = LeftAfterMerge(top)

(* A turn of the loop of ufdt_overlay_apply_fragments. *)
ufdt_apply_fragment ==
    /\ pc = "fragments" /\ fragment <= Len(Fragments(Overlaid))
    /\ LET name   == Fragments(Overlaid)[fragment]
           target == ufdt_overlay_get_target(name)
       IN  \/ /\ target.found
              /\ ufdt_node_merge_into(target.path, Overlay(name))
              /\ fragment' = fragment + 1
              /\ UNCHANGED <<fdt, buffers, multi, overlays, i, phandle_table, fdtps, pc,
                             ret, calls, applied>>
           \/ /\ ~target.found
              /\ Fail
              /\ UNCHANGED buffers

MoreOverlays == i < Len(overlays)

(* The overlay is applied.  ufdt_apply_multioverlay destructs its tree and *)
(* goes on with the next; ufdt_apply_overlay has only the one.             *)
EndOfFragments ==
    /\ pc = "fragments" /\ fragment > Len(Fragments(Overlaid))
    /\ fragment' = 1
    /\ IF multi
       THEN /\ nodes' = nodes \ NodesIn(overlay_tree)
            /\ overlay_tree' = NULL /\ i' = i + 1
       ELSE UNCHANGED <<nodes, overlay_tree, i>>
    /\ pc' = IF multi /\ MoreOverlays THEN "overlay" ELSE "flatten"
    /\ UNCHANGED <<fdt, buffers, multi, overlays, main_tree, phandle_table, fdtps, ret,
                   calls, applied>>

(* The tree becomes the device tree of the client: copied over the old one *)
(* or, by ufdt_apply_overlay, in a buffer of its own.                      *)
ufdt_to_fdt ==
    /\ pc = "flatten"
    /\ fdt' = [nodes      |-> Flattened(main_tree),
               symbols    |-> fdt.symbols,
               references |-> FlattenedReferences(main_tree)]
    /\ applied' = applied + 1
    /\ Return(0)
    /\ UNCHANGED buffers

(* The buffer is too small for the result, or dto_malloc returns NULL. *)
NoRoom ==
    /\ pc = "flatten" /\ multi
    /\ Fail
    /\ UNCHANGED buffers

Next ==
    \/ \E b \in Singles : ufdt_apply_overlay(b)
    \/ Refused
    \/ \E list \in Lists : ufdt_apply_multioverlay(list)
    \/ NextOverlay
    \/ ufdt_overlay_local_ref_update
    \/ ufdt_overlay_do_fixups
    \/ ufdt_apply_fragment
    \/ EndOfFragments
    \/ ufdt_to_fdt
    \/ NoRoom

Spec == Init /\ [][Next]_vars

----------------------------------------------------------------------------
(* Properties *)

(* Every node of the pool is in one place of one tree while it is not      *)
(* freed, and no place has one that is: nodes move from tree to tree, and  *)
(* matched ones go back, so that the trees can be destructed "to prevent   *)
(* the ufdt_node from being freed twice" (ufdt_node.c:245) and, after a    *)
(* call, whether it failed or not, nothing is left (ufdt_overlay.c:785).   *)
NodesHaveOnePlace ==
    /\ nodes = NodesIn(main_tree) \cup NodesIn(overlay_tree)
    /\ Cardinality(nodes) = Cardinality(DOMAIN main_tree) + Cardinality(DOMAIN overlay_tree)

(* The nodes that lookups of the main tree deliver are in the main tree,   *)
(* and its properties have their names in the string tables that           *)
(* ufdt_to_fdt copies (ufdt_convert.c:93-115): what came from a blob needs *)
(* that blob's.                                                            *)
MainTreeIsWhole ==
    /\ {entry.node : entry \in phandle_table} \subseteq NodesIn(main_tree)
    /\ \A node \in NodesIn(main_tree) : node[1] \in Range(fdtps)

(* The two trees of a call, between any two steps and after it *)
TreesAreSound == NodesHaveOnePlace /\ MainTreeIsWhole

(* "Update phandle [...] so it won't lead to collision that different      *)
(* nodes have the same phandle value" (ufdt_overlay.c:427-430), from one   *)
(* overlay of a call to the next and from one call to the next.            *)
PhandlesDoNotCollide ==
    pc \in {"idle", "overlay"} =>
        LET content == IF pc = "idle" THEN fdt.nodes ELSE Flattened(main_tree)
        IN  \A p \in DOMAIN content : \A prop \in PhandleProps \cap DOMAIN content[p] :
                WithPhandle(content, content[p][prop][1]) = {p}

(* What the device trees and the lists of overlays mean to begin with. *)
TreeMeanings ==
    {[nodes |-> Resolved(b.nodes, b.references), symbols |-> b.symbols] : b \in Bases}

ListMeanings ==
    {[k \in DOMAIN list |-> Meaning(Overlays[list[k]])] :
        list \in {l \in Lists \cup {<<b>> : b \in Singles} :
                     \A b \in Range(l) : Overlays[b].magic /\ WellFormed(Overlays[b])}}

Promise == INSTANCE OverlayMerge WITH
    Trees  <- TreeMeanings,
    Calls  <- ListMeanings,
    Labels <- FALSE,
    Atomic <- TRUE,
    tree   <- [nodes |-> Resolved(fdt.nodes, fdt.references), symbols |-> fdt.symbols]

(* A call that succeeds has applied all its overlays, in their order, with *)
(* every reference leading where its author meant it to, whatever earlier  *)
(* calls have changed in the buffers of the overlays.  A call that fails,  *)
(* also after some of its overlays were applied, leaves the device tree as *)
(* it was (ufdt_overlay.c:788-794).                              *)
ImplementsOverlayMerge == Promise!Spec
=============================================================================
