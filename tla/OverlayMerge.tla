----------------------------- MODULE OverlayMerge -----------------------------
(***************************************************************************)
(* What applying overlays to a device tree promises, with references to    *)
(* nodes as references and not as numbers: what an overlay refers to, by a *)
(* label of the tree or as a node of its own, is what it refers to in the  *)
(* tree it becomes part of, and what was there before still refers to what *)
(* it did.                                                                 *)
(*                                                                         *)
(* A cell is a number, [number |-> n], or refers to a node: [node |-> p]   *)
(* in the tree, [label |-> l] or [own |-> <<fragment, path>>] in overlays. *)
(***************************************************************************)
EXTENDS DeviceTree

CONSTANTS
    Trees,   \* the trees to begin with: records of nodes and symbols
    Calls,   \* the sequences of overlays, records of fragments and symbols,
             \*   that a call applies
    Labels,  \* whether applying an overlay adds its symbols to the tree's
    Atomic   \* whether a call that fails leaves the tree as it was

VARIABLES
    tree,    \* the tree, or Lost
    applied  \* the number of calls that succeeded

Lost == [lost |-> TRUE]

IsLabel(x) == "label" \in DOMAIN x
IsOwn(x)   == "own" \in DOMAIN x

(* The node a cell of an overlay refers to, if it refers to one; places    *)
(* are those of the fragments.                                             *)
Meant(x, symbols, places) ==
    IF IsLabel(x) THEN symbols[x.label]
    ELSE IF IsOwn(x) THEN places[x.own[1]] \o x.own[2]
    ELSE x.node

(* Where the fragments of an overlay go.  A fragment may be about a node   *)
(* of another: one before it, or one whose place does not hang on others.  *)
Known(o, i) ==
    {j \in DOMAIN o.fragments : j < i \/ ~IsOwn(o.fragments[j].target)}

Places(t, o) ==
    LET place[i \in DOMAIN o.fragments] ==
            LET target == o.fragments[i].target
            IN  Meant(target, t.symbols,
                      IF IsOwn(target) THEN [j \in Known(o, i) |-> place[j]] ELSE << >>)
    IN  place

Placed(content, symbols, places) ==
    [path \in DOMAIN content |->
        [prop \in DOMAIN content[path] |->
            [i \in DOMAIN content[path][prop] |->
                LET x == content[path][prop][i]
                IN  IF "number" \in DOMAIN x THEN x
                    ELSE [node |-> Meant(x, symbols, places)]]]]

(* The nodes once the first n fragments are part of the tree. *)
Nodes(t, o, n) ==
    LET places == Places(t, o)
        after[i \in 0..n] ==
            IF i = 0 THEN t.nodes
            ELSE Grafted(after[i - 1], places[i],
                         Placed(o.fragments[i].content, t.symbols, places))
    IN  after[n]

(* All that is referred to is there. *)
CellsOf(o) ==
    {o.fragments[i].target : i \in DOMAIN o.fragments} \cup
    UNION {UNION {Range(node[prop]) : prop \in DOMAIN node} :
              node \in UNION {Range(o.fragments[i].content) : i \in DOMAIN o.fragments}}

Applicable(t, o) ==
    /\ \A x \in CellsOf(o) :
          IsLabel(x) => /\ x.label \in DOMAIN t.symbols
                        /\ t.symbols[x.label] \in DOMAIN t.nodes
    /\ \A i \in DOMAIN o.fragments :
          LET target == o.fragments[i].target
          IN  IsOwn(target) => target.own[1] \in Known(o, i)
    /\ \A i \in DOMAIN o.fragments :
          Places(t, o)[i] \in DOMAIN Nodes(t, o, i - 1)

Symbols(t, o) ==
    [label \in DOMAIN t.symbols \cup DOMAIN o.symbols |->
        IF label \in DOMAIN o.symbols
        THEN Meant(o.symbols[label], t.symbols, Places(t, o)) ELSE t.symbols[label]]

With(t, o) ==
    [nodes   |-> Nodes(t, o, Len(o.fragments)),
     symbols |-> IF Labels THEN Symbols(t, o) ELSE t.symbols]

(* The tree with all the overlays of a call, if they can be applied. *)
Outcomes(overlays) ==
    FoldLeft(LAMBDA trees, o : {With(t, o) : t \in {u \in trees : Applicable(u, o)}},
             {tree}, overlays)

Init == tree \in Trees /\ applied = 0

Apply ==
    /\ tree # Lost
    /\ applied' = applied + 1
    /\ \E overlays \in Calls : tree' \in Outcomes(overlays)

Fail == ~Atomic /\ tree' = Lost /\ UNCHANGED applied

Next == Apply \/ Fail

Spec == Init /\ [][Next]_<<tree, applied>>
=============================================================================
