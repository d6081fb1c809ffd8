------------------------------ MODULE FdtOverlay ------------------------------
(***************************************************************************)
(* fdt_overlay_apply of libs/libfdt/fdt_overlay.c: overlays are applied to *)
(* a device tree, one after the other, each in the steps of the function.  *)
(* In a blob a reference to a node is its phandle, a number, so that       *)
(* phandles have to be made unique and references to follow them.          *)
(*                                                                         *)
(* Both blobs are as DeviceTree has them.  The blob of the tree may have   *)
(* too little room for any change (NOSPACE).  What a step that fails has   *)
(* changed before is left out: both magic numbers are erased, and nothing  *)
(* but a client that ignores them would see it.                            *)
(***************************************************************************)
EXTENDS OverlayMeaning, FiniteSetsExt

CONSTANTS
    Bases,       \* the device trees to begin with: nodes, symbols and, for the
                 \*   properties, the places of their references
    Overlays,    \* the overlays clients apply: nodes, fragments, target_path,
                 \*   local_fixups, fixups and symbols
    CellMax,     \* the largest cell: (uint32_t)-1
    MaxApplied   \* bound: overlays applied to one tree

ASSUME ConstantsAreTyped == CellMax \in Nat \ {0, 1} /\ MaxApplied \in Nat

VARIABLES
    fdt,         \* the tree: magic, nodes, symbols
    fdto,        \* the overlay: magic and what Overlays has
    pc,          \* "idle", or the step of fdt_overlay_apply to come
    fragment,    \* the next fragment in overlay_prevent_phandle_overwrite
                 \*   and overlay_merge
    delta,
    ret,
    references,  \* history: the places of the references in the tree
    before,      \* history: what the tree meant when the call began
    applied      \* history: the number of calls that changed something

vars == <<fdt, fdto, pc, fragment, delta, ret, references, before, applied>>

Cell == 0..CellMax

----------------------------------------------------------------------------
(* Finding nodes *)

Found(path) == [error |-> "NONE", path |-> path]
NotFound(error) == [error |-> error, path |-> << >>]

fdt_path_offset(nodes, path) ==
    IF path \in DOMAIN nodes THEN Found(path) ELSE NotFound("NOTFOUND")

fdt_node_offset_by_phandle(nodes, phandle) ==
    IF phandle \in {0, CellMax} THEN NotFound("BADPHANDLE")
    ELSE IF WithPhandle(nodes, phandle) = {} THEN NotFound("NOTFOUND")
    ELSE Found(CHOOSE p \in WithPhandle(nodes, phandle) : TRUE)

fdt_find_max_phandle(nodes) == Max({Phandle(nodes[p]) : p \in DOMAIN nodes})

(* 0 if there is none, CellMax if it is malformed. *)
overlay_get_target_phandle(o, name) ==
    IF ~HasProp(o.nodes, <<name>>, "target") THEN 0
    ELSE IF Len(o.nodes[<<name>>]["target"]) # 1 THEN CellMax
    ELSE o.nodes[<<name>>]["target"][1]

(* The node of the tree that a fragment is about. *)
fdt_overlay_target_offset(nodes, o, name) ==
    LET phandle == overlay_get_target_phandle(o, name)
    IN  IF phandle = CellMax THEN NotFound("BADPHANDLE")
        ELSE IF phandle # 0 THEN fdt_node_offset_by_phandle(nodes, phandle)
        ELSE IF name \in DOMAIN o.target_path
        THEN fdt_path_offset(nodes, o.target_path[name])
        ELSE NotFound("BADOVERLAY")

(* Of the fragment whose turn it is: the node it is about, and what it adds. *)
Target == fdt_overlay_target_offset(fdt.nodes, fdto, Fragments(fdto)[fragment])

Place   == Overlay(Fragments(fdto)[fragment])
Content == Below(fdto.nodes, Place)

----------------------------------------------------------------------------
(* What the tree means: its references by the nodes they lead to *)

TreeMeaning == [nodes |-> Resolved(fdt.nodes, references), symbols |-> fdt.symbols]

----------------------------------------------------------------------------
(* The steps of fdt_overlay_apply *)

(* A blob with its magic number erased: no function reads the rest of it. *)
Erased == [magic |-> FALSE]

Init ==
    /\ \E b \in Bases :
          /\ fdt = [magic |-> TRUE, nodes |-> b.nodes, symbols |-> b.symbols]
          /\ references = b.references
    /\ fdto = Erased
    /\ pc = "idle" /\ fragment = 1 /\ delta = 0 /\ ret = "NONE"
    /\ before = TreeMeaning /\ applied = 0

(* goto err: what may have been damaged is no device tree any more. *)
Fail(error) ==
    /\ pc' = "idle" /\ ret' = error
    /\ fdt' = Erased /\ fdto' = Erased
    /\ fragment' = 1 /\ delta' = 0 /\ references' = {}
    /\ UNCHANGED <<before, applied>>

(* A client calls with an overlay, or one that was applied before. *)
Call(o) ==
    /\ pc = "idle" /\ applied < MaxApplied
    /\ fdt.magic /\ o.magic
    /\ pc' = "max_phandle" /\ fdto' = o /\ ret' = "NONE"
    /\ before' = TreeMeaning /\ applied' = applied + 1
    /\ UNCHANGED <<fdt, fragment, delta, references>>

Refused(o) ==
    /\ pc = "idle"
    /\ ~(fdt.magic /\ o.magic)
    /\ ret' = "BADMAGIC"
    /\ UNCHANGED <<fdt, fdto, pc, fragment, delta, references, before, applied>>

FindMaxPhandle ==
    /\ pc = "max_phandle"
    /\ delta' = fdt_find_max_phandle(fdt.nodes)
    /\ pc' = "adjust"
    /\ UNCHANGED <<fdt, fdto, fragment, ret, references, before, applied>>

(* The step is done; the next one begins. *)
Proceed(step, nodes) ==
    /\ pc' = step
    /\ fdto' = [fdto EXCEPT !.nodes = nodes]
    /\ UNCHANGED <<fdt, fragment, delta, ret, references, before, applied>>

(* The places of the phandles of an overlay. *)
PhandleProperties ==
    UNION {{[path |-> path, prop |-> prop] : prop \in PhandleProps \cap DOMAIN fdto.nodes[path]} :
              path \in DOMAIN fdto.nodes}

PhandlePlaces ==
    {[path |-> x.path, prop |-> x.prop, cell |-> 1] : x \in PhandleProperties}

AddDelta == [v \in Cell |-> (v + delta) % (CellMax + 1)]

(* Mutated form of PhandleError: only sums that wrap around are too large. *)
PhandleError_WrapOnly ==
    IF \E x \in PhandleProperties : Len(fdto.nodes[x.path][x.prop]) # 1 THEN "BADPHANDLE"
    ELSE IF \E x \in PhandlePlaces : At(fdto.nodes, x) + delta > CellMax THEN "NOPHANDLES"
    ELSE "NONE"

(* A sum is too large when it wraps around or has all bits set. *)
PhandleError ==
    IF \E x \in PhandleProperties : Len(fdto.nodes[x.path][x.prop]) # 1 THEN "BADPHANDLE"
    ELSE IF \E x \in PhandlePlaces : At(fdto.nodes, x) + delta >= CellMax THEN "NOPHANDLES"
    ELSE "NONE"

overlay_adjust_local_phandles ==
    /\ pc = "adjust"
    /\ \/ /\ PhandleError = "NONE"
          /\ Proceed("references", Changed(fdto.nodes, PhandlePlaces, AddDelta))
       \/ /\ PhandleError # "NONE"
          /\ Fail(PhandleError)

(* That the place is inside the property is not checked. *)
overlay_update_local_references ==
    /\ pc = "references"
    /\ \/ /\ \A x \in fdto.local_fixups : HasProp(fdto.nodes, x.path, x.prop)
          /\ Proceed("fixup", Changed(fdto.nodes, fdto.local_fixups, AddDelta))
       \/ /\ \E x \in fdto.local_fixups : ~HasProp(fdto.nodes, x.path, x.prop)
          /\ Fail("BADOVERLAY")

SymbolPhandle(label) ==
    IF label \notin DOMAIN fdt.symbols THEN 0
    ELSE IF fdt.symbols[label] \notin DOMAIN fdt.nodes THEN 0
    ELSE Phandle(fdt.nodes[fdt.symbols[label]])

(* What is wrong with a label, and with a place where it is used. *)
FixupErrors ==
    {IF x.path \notin DOMAIN fdto.nodes THEN "BADOVERLAY"
     ELSE IF ~HasProp(fdto.nodes, x.path, x.prop) THEN "NOTFOUND"
     ELSE IF ~HasCell(fdto.nodes, x) THEN "NOSPACE" ELSE "NONE" :
        x \in UNION Range(fdto.fixups)}
    \cup {"NOTFOUND" : label \in {l \in DOMAIN fdto.fixups : SymbolPhandle(l) = 0}}

FixedUp ==
    FoldLeft(LAMBDA nodes, label :
                Changed(nodes, fdto.fixups[label], [v \in Cell |-> SymbolPhandle(label)]),
             fdto.nodes, SetToSeq(DOMAIN fdto.fixups))

overlay_fixup_phandles ==
    /\ pc = "fixup"
    /\ \/ /\ FixupErrors \subseteq {"NONE"}
          /\ Proceed("prevent", FixedUp)
       \/ \E error \in FixupErrors \ {"NONE"} : Fail(error)

(* Mutated form of Conflicts: the nodes below are not looked at. *)
Conflicts_TopOnly(target) ==
    {r \in {<< >>} :
        Phandle(fdt.nodes[target]) # 0 /\ Phandle(Content[r]) # 0}

(* The nodes of the fragment that have a phandle in the tree, too: what a  *)
(* phandle of the overlay becomes.  Those of the overlay are all larger    *)
(* than those of the tree, and each is one node's.                         *)
Conflicts(target) ==
    {r \in DOMAIN Content :
        /\ target \o r \in DOMAIN fdt.nodes
        /\ Phandle(fdt.nodes[target \o r]) # 0 /\ Phandle(Content[r]) # 0}

Kept(target) ==
    [v \in Cell |->
        LET same == {r \in Conflicts(target) : Phandle(Content[r]) = v}
        IN  IF same = {} THEN v
            ELSE Phandle(fdt.nodes[target \o (CHOOSE r \in same : TRUE)])]

(* Mutated form: the references to the nodes are left as they are. *)
overlay_prevent_phandle_overwrite_node_PhandlesOnly(target) ==
    LET phandles == {x \in PhandlePlaces : x.path \in {Place \o r : r \in Conflicts(target)}}
    IN  Changed(fdto.nodes, phandles, Kept(target))

overlay_prevent_phandle_overwrite_node(target) ==
    LET phandles == {x \in PhandlePlaces : x.path \in {Place \o r : r \in Conflicts(target)}}
    IN  Changed(fdto.nodes, phandles \cup fdto.local_fixups, Kept(target))

NextFragment == fragment' = fragment + 1

(* A node that is not in the tree can overwrite nothing there. *)
overlay_prevent_phandle_overwrite ==
    /\ pc = "prevent" /\ fragment <= Len(Fragments(fdto))
    /\ \/ /\ Target.error = "NONE"
          /\ fdto' = [fdto EXCEPT !.nodes =
                          overlay_prevent_phandle_overwrite_node(Target.path)]
          /\ NextFragment
          /\ UNCHANGED <<fdt, pc, delta, ret, references, before, applied>>
       \/ /\ Target.error = "NOTFOUND"
          /\ NextFragment
          /\ UNCHANGED <<fdt, fdto, pc, delta, ret, references, before, applied>>
       \/ /\ Target.error \notin {"NONE", "NOTFOUND"}
          /\ Fail(Target.error)

(* The fragments are done. *)
EndOfFragments ==
    /\ pc \in {"prevent", "merge"} /\ fragment > Len(Fragments(fdto))
    /\ pc' = IF pc = "prevent" THEN "merge" ELSE "symbols"
    /\ fragment' = 1
    /\ UNCHANGED <<fdt, fdto, delta, ret, references, before, applied>>

(* The places of references in the tree once the content is in target. *)
ReferencesWith(target) ==
    {x \in references :
        ~\E r \in DOMAIN Content : x.path = target \o r /\ x.prop \in DOMAIN Content[r]}
    \cup {[x EXCEPT !.path = target \o Rest(x.path)] :
              x \in {y \in References(fdto) : IsPrefix(Place, y.path)}}

(* A turn of the loop of overlay_merge, with overlay_apply_node. *)
overlay_merge ==
    /\ pc = "merge" /\ fragment <= Len(Fragments(fdto))
    /\ \/ /\ Target.error = "NONE"
          /\ fdt' = [fdt EXCEPT !.nodes = Grafted(fdt.nodes, Target.path, Content)]
          /\ references' = ReferencesWith(Target.path)
          /\ NextFragment
          /\ UNCHANGED <<fdto, pc, delta, ret, before, applied>>
       \/ /\ Target.error # "NONE"
          /\ Fail(Target.error)

(* fdt_setprop or fdt_add_subnode finds no room. *)
NoSpace ==
    /\ \/ pc = "merge" /\ fragment <= Len(Fragments(fdto))
       \/ pc = "symbols" /\ fdto.symbols # << >>
    /\ Fail("NOSPACE")

(* The symbols of the overlay that will be in the tree. *)
Kindred == {label \in DOMAIN fdto.symbols :
               LET path == fdto.symbols[label]
               IN  Len(path) >= 2 /\ path[2] = "__overlay__"}

SymbolTarget(label) ==
    LET name == fdto.symbols[label][1]
    IN  IF Overlay(name) \notin DOMAIN fdto.nodes THEN NotFound("BADOVERLAY")
        ELSE fdt_overlay_target_offset(fdt.nodes, fdto, name)

(* The overlay is erased, the tree is what is left. *)
overlay_symbol_update ==
    /\ pc = "symbols"
    /\ \/ /\ \A label \in Kindred : SymbolTarget(label).error = "NONE"
          /\ fdt' = [fdt EXCEPT !.symbols =
                [label \in Kindred |->
                    SymbolTarget(label).path \o Rest(fdto.symbols[label])] @@ @]
          /\ fdto' = Erased
          /\ pc' = "idle" /\ delta' = 0
          /\ UNCHANGED <<fragment, ret, references, before, applied>>
       \/ \E label \in Kindred :
             /\ SymbolTarget(label).error # "NONE"
             /\ Fail(SymbolTarget(label).error)

Next ==
    \/ \E o \in Overlays \cup {Erased} : Call(o)
    \/ \E o \in Overlays \cup {Erased} : Refused(o)
    \/ FindMaxPhandle
    \/ overlay_adjust_local_phandles
    \/ overlay_update_local_references
    \/ overlay_fixup_phandles
    \/ overlay_prevent_phandle_overwrite
    \/ overlay_merge
    \/ NoSpace
    \/ EndOfFragments
    \/ overlay_symbol_update

Spec == Init /\ [][Next]_vars

----------------------------------------------------------------------------
(* Properties *)

(* Every phandle of the tree finds the node that has it, and a node that   *)
(* has both properties has one phandle: renumbering keeps the phandles of  *)
(* overlay and tree apart (fdt_overlay.c:101-120, :654-676).               *)
PhandlesFindTheirNodes ==
    pc = "idle" /\ fdt.magic =>
        \A p \in DOMAIN fdt.nodes :
            LET given == PhandleProps \cap DOMAIN fdt.nodes[p]
            IN  \A prop \in given :
                    fdt_node_offset_by_phandle(fdt.nodes, fdt.nodes[p][prop][1]) = Found(p)

(* "Don't overwrite phandles in fdt" (fdt_overlay.c:1067): through all the *)
(* steps, a node that has a phandle keeps it, so that references outside   *)
(* of the tree, in tables or in software, stay right.                      *)
PhandlesAreKept ==
    [][fdt.magic /\ fdt'.magic =>
          \A p \in DOMAIN fdt.nodes : Phandle(fdt.nodes[p]) # 0 =>
              /\ p \in DOMAIN fdt'.nodes
              /\ Phandle(fdt'.nodes[p]) = Phandle(fdt.nodes[p])]_vars

Promise == INSTANCE OverlayMerge WITH
    Trees    <- {[nodes |-> Resolved(b.nodes, b.references), symbols |-> b.symbols] :
                    b \in Bases},
    Calls    <- {<<Meaning(o)>> : o \in {x \in Overlays : WellFormed(x)}},
    Labels   <- TRUE,
    Atomic   <- FALSE,
    tree     <- IF pc # "idle" THEN before
                ELSE IF fdt.magic THEN TreeMeaning ELSE [lost |-> TRUE],
    applied  <- IF pc # "idle" \/ ~fdt.magic THEN applied - 1 ELSE applied

(* A call that succeeds has applied one well-formed overlay whose labels   *)
(* and targets were all found; references of tree and overlay lead to the  *)
(* nodes they were meant to lead to, and symbols, too.  A call that fails  *)
(* leaves no tree that a reader would accept (fdt_overlay.c:1040-1100).    *)
ImplementsOverlayMerge == Promise!Spec
=============================================================================
