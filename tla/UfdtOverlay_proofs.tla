-------------------------- MODULE UfdtOverlay_proofs --------------------------
(***************************************************************************)
(* Proofs about the trees of libufdt, for any device trees, any overlays   *)
(* and any lists of them: while fragments move nodes from the tree of an   *)
(* overlay to that of the device tree, every node has one place.           *)
(***************************************************************************)
EXTENDS UfdtOverlay, TLAPS, SequenceTheorems, FiniteSetTheorems

Slot  == Seq(STRING) \X (STRING \cup {""})
Place == {Main} \cup DOMAIN Overlays
Entry == [node : Place \X Slot, data : Place \X Seq(STRING)]

(* No two slots have the same node, and each is of a node that is there. *)
IsTree(tree) ==
    /\ DOMAIN tree \subseteq Slot /\ IsFiniteSet(DOMAIN tree)
    /\ tree \in [DOMAIN tree -> Entry]
    /\ \A slot \in DOMAIN tree : <<slot[1], "">> \in DOMAIN tree
    /\ \A s, t \in DOMAIN tree : tree[s].node = tree[t].node => s = t

----------------------------------------------------------------------------
(* Finite sets *)

(* A function with a finite domain has finitely many values, as many as    *)
(* arguments if no two have the same.                                      *)
LEMMA FiniteRange ==
    ASSUME NEW f, IsFiniteSet(DOMAIN f)
    PROVE  /\ IsFiniteSet({f[x] : x \in DOMAIN f})
           /\ (\A x, y \in DOMAIN f : f[x] = f[y] => x = y)
                 => Cardinality({f[x] : x \in DOMAIN f}) = Cardinality(DOMAIN f)
<1> DEFINE S == DOMAIN f
           T == {f[x] : x \in S}
           g == [x \in S |-> f[x]]
<1>1. g \in Surjection(S, T)
  BY DEF Surjection
<1>2. IsFiniteSet(T) /\ (Cardinality(T) = Cardinality(S) <=> g \in Injection(S, T))
  <2> HIDE DEF S, T, g
  <2> QED
    BY <1>1, FS_Surjection DEF S
<1>3. (\A x, y \in S : f[x] = f[y] => x = y) => g \in Injection(S, T)
  BY DEF Injection, IsInjective
<1> QED
  BY <1>2, <1>3

(* The nodes of a tree are as many as its slots. *)
LEMMA NodesAreCounted ==
    ASSUME NEW tree, IsTree(tree)
    PROVE  /\ IsFiniteSet(NodesIn(tree))
           /\ Cardinality(NodesIn(tree)) = Cardinality(DOMAIN tree)
<1> DEFINE f == [slot \in DOMAIN tree |-> tree[slot].node]
<1>1. DOMAIN f = DOMAIN tree /\ \A slot \in DOMAIN tree : f[slot] = tree[slot].node
  OBVIOUS
<1>2. NodesIn(tree) = {f[slot] : slot \in DOMAIN f}
  BY DEF NodesIn
<1>3. \A s, t \in DOMAIN f : f[s] = f[t] => s = t
  BY <1>1 DEF IsTree
<1>4. IsFiniteSet(DOMAIN f)
  BY <1>1 DEF IsTree
<1> HIDE DEF f
<1> QED
  BY <1>1, <1>2, <1>3, <1>4, FiniteRange

----------------------------------------------------------------------------
(* Trees and blobs *)

LEMMA SlotIsPair ==
    ASSUME NEW slot \in Slot
    PROVE  /\ slot = <<slot[1], slot[2]>>
           /\ slot[1] \in Seq(STRING) /\ slot[2] \in STRING \cup {""}
<1>1. PICK S, T : S = Seq(STRING) /\ T = STRING \cup {""}
  OBVIOUS
<1>2. slot \in S \X T
  BY <1>1 DEF Slot
<1>3. slot = <<slot[1], slot[2]>> /\ slot[1] \in S /\ slot[2] \in T
  BY <1>2
<1> QED
  BY <1>1, <1>3

(* Unflattening a blob gives a tree, all of nodes of that blob. *)
LEMMA UnflattenedIsTree ==
    ASSUME NEW blob \in Place, IsContent(NodesOf(blob))
    PROVE  /\ IsTree(ufdt_from_fdt(blob))
           /\ \A node \in NodesIn(ufdt_from_fdt(blob)) : node[1] = blob
<1> DEFINE content == NodesOf(blob)
           Names(path) == DOMAIN content[path] \cup {""}
           SlotsOf(path) == {<<path, name>> : name \in Names(path)}
           slots == UNION {SlotsOf(path) : path \in DOMAIN content}
           tree  == [slot \in slots |-> [node |-> <<blob, slot>>, data |-> <<blob, slot[1]>>]]
<1>1. tree = ufdt_from_fdt(blob)
  BY Zenon DEF ufdt_from_fdt
<1>2. /\ IsFiniteSet(DOMAIN content) /\ DOMAIN content \subseteq Seq(STRING)
      /\ \A path \in DOMAIN content :
            IsFiniteSet(DOMAIN content[path]) /\ DOMAIN content[path] \subseteq STRING
  BY DEF IsContent
<1> HIDE DEF content
<1>3. IsFiniteSet(slots)
  <2>1. ASSUME NEW path \in DOMAIN content PROVE IsFiniteSet(SlotsOf(path))
    <3> DEFINE f == [name \in Names(path) |-> <<path, name>>]
    <3>1. IsFiniteSet(DOMAIN f)
      BY <1>2, FS_AddElement
    <3>2. IsFiniteSet({f[x] : x \in DOMAIN f})
      <4> HIDE DEF f
      <4> QED
        BY <3>1, FiniteRange
    <3>3. {f[x] : x \in DOMAIN f} = SlotsOf(path)
      OBVIOUS
    <3> QED
      BY <3>2, <3>3
  <2> DEFINE g == [path \in DOMAIN content |-> SlotsOf(path)]
             all == {SlotsOf(path) : path \in DOMAIN content}
  <2>2. IsFiniteSet({g[x] : x \in DOMAIN g})
    <3>1. IsFiniteSet(DOMAIN g)
      BY <1>2
    <3> HIDE DEF g
    <3> QED
      BY <3>1, FiniteRange
  <2>3. {g[x] : x \in DOMAIN g} = all
    OBVIOUS
  <2>4. \A s \in all : IsFiniteSet(s)
    BY <2>1
  <2> HIDE DEF all
  <2> QED
    BY <2>2, <2>3, <2>4, FS_UNION DEF all
<1>4. \A slot \in slots : /\ slot \in Slot /\ slot = <<slot[1], slot[2]>>
                          /\ slot[1] \in DOMAIN content /\ slot[2] \in Names(slot[1])
  <2> SUFFICES ASSUME NEW slot \in slots
               PROVE  /\ slot \in Slot /\ slot = <<slot[1], slot[2]>>
                      /\ slot[1] \in DOMAIN content /\ slot[2] \in Names(slot[1])
    OBVIOUS
  <2>1. PICK path \in DOMAIN content : slot \in SlotsOf(path)
    OBVIOUS
  <2>2. PICK name \in Names(path) : slot = <<path, name>>
    BY <2>1
  <2>3. path \in Seq(STRING)
    BY <1>2
  <2>4. name \in STRING \cup {""}
    BY <1>2
  <2>5. slot[1] = path /\ slot[2] = name
    BY <2>2
  <2> QED
    BY <2>2, <2>3, <2>4, <2>5 DEF Slot
<1>5. \A path \in DOMAIN content : <<path, "">> \in slots
  <2>1. ASSUME NEW path \in DOMAIN content PROVE <<path, "">> \in SlotsOf(path)
    <3>1. "" \in Names(path)
      OBVIOUS
    <3> HIDE DEF Names
    <3> QED
      BY <3>1
  <2> HIDE DEF SlotsOf
  <2> QED
    BY <2>1
<1>6. /\ DOMAIN tree = slots
      /\ \A slot \in slots : tree[slot] = [node |-> <<blob, slot>>, data |-> <<blob, slot[1]>>]
  OBVIOUS
<1>7. tree \in [slots -> Entry]
  <2>1. \A slot \in slots : slot[1] \in Seq(STRING)
    BY <1>2, <1>4
  <2>2. ASSUME NEW slot \in slots
        PROVE  [node |-> <<blob, slot>>, data |-> <<blob, slot[1]>>] \in Entry
    BY <1>4, <2>1 DEF Entry
  <2> HIDE DEF slots
  <2> QED
    BY <2>2
<1> HIDE DEF tree, slots
<1>8. \A s, t \in slots : tree[s].node = tree[t].node => s = t
  BY <1>6
<1>9. IsTree(tree)
  BY <1>3, <1>4, <1>5, <1>6, <1>7, <1>8 DEF IsTree
<1>10. \A node \in NodesIn(tree) : node[1] = blob
  BY <1>6 DEF NodesIn
<1> QED
  BY <1>1, <1>9, <1>10

(* What a tree is flattened to is a blob's content again. *)
LEMMA FlattenedIsContent ==
    ASSUME NEW tree, IsTree(tree)
    PROVE  IsContent(Flattened(tree)) /\ DOMAIN Flattened(tree) = Paths(tree)
<1>1. DOMAIN Flattened(tree) = Paths(tree)
  BY DEF Flattened
<1>2. \A path \in Paths(tree) : DOMAIN (Flattened(tree)[path]) = Props(tree, path)
  BY DEF Flattened
<1>3. /\ DOMAIN tree \subseteq Seq(STRING) \X (STRING \cup {""}) /\ IsFiniteSet(DOMAIN tree)
  BY DEF IsTree, Slot
<1>4. IsFiniteSet(Paths(tree)) /\ Paths(tree) \subseteq Seq(STRING)
  <2> DEFINE f == [slot \in DOMAIN tree |-> slot[1]]
  <2>1. IsFiniteSet({f[x] : x \in DOMAIN f})
    <3>1. IsFiniteSet(DOMAIN f)
      BY <1>3
    <3> HIDE DEF f
    <3> QED
      BY <3>1, FiniteRange
  <2>2. {f[x] : x \in DOMAIN f} = Paths(tree)
    BY DEF Paths
  <2> QED
    BY <1>3, <2>1, <2>2 DEF Paths
<1>5. ASSUME NEW path
      PROVE  IsFiniteSet(Props(tree, path)) /\ Props(tree, path) \subseteq STRING
  <2> DEFINE f == [slot \in DOMAIN tree |-> slot[2]]
             all == {f[x] : x \in DOMAIN f}
  <2>1. IsFiniteSet(all)
    <3>1. IsFiniteSet(DOMAIN f)
      BY <1>3
    <3> HIDE DEF f
    <3> QED
      BY <3>1, FiniteRange
  <2>2. Props(tree, path) \in SUBSET all /\ Props(tree, path) \subseteq STRING
    BY <1>3 DEF Props
  <2> HIDE DEF all
  <2> QED
    BY <2>1, <2>2, FS_Subset
<1> QED
  BY <1>1, <1>2, <1>4, <1>5 DEF IsContent

(* The nodes of a phandle table are nodes of its tree. *)
LEMMA TableIsOfTree ==
    ASSUME NEW tree, IsTree(tree)
    PROVE  {entry.node : entry \in build_phandle_table(tree)} \subseteq NodesIn(tree)
<1> DEFINE content == Flattened(tree)
           named == {p \in DOMAIN content : Phandle(content[p]) # 0}
<1>1. build_phandle_table(tree)
         = {[phandle |-> Phandle(content[path]), node |-> tree[<<path, "">>].node] : path \in named}
  BY Zenon DEF build_phandle_table
<1>2. named \subseteq Paths(tree)
  BY FlattenedIsContent
<1> HIDE DEF content, named
<1>3. \A entry \in build_phandle_table(tree) :
         \E path \in Paths(tree) : entry.node = tree[<<path, "">>].node
  <2>1. SUFFICES ASSUME NEW path \in named
                 PROVE  [phandle |-> Phandle(content[path]), node |-> tree[<<path, "">>].node].node
                           = tree[<<path, "">>].node
    BY <1>1, <1>2, Zenon
  <2> QED
    OBVIOUS
<1>4. \A path \in Paths(tree) : <<path, "">> \in DOMAIN tree
  BY DEF IsTree, Paths
<1> QED
  BY <1>3, <1>4 DEF NodesIn

----------------------------------------------------------------------------
(* Merging *)

(* A path below the node a fragment adds is that node's and the rest. *)
LEMMA PathBelow ==
    ASSUME NEW name, NEW path \in Seq(STRING), IsPrefix(Overlay(name), path)
    PROVE  /\ Rest(path) \in Seq(STRING)
           /\ Overlay(name) \o Rest(path) = path
<1> DEFINE top == <<name, "__overlay__">>
<1>1. Overlay(name) = top
  BY DEF Overlay
<1>2. /\ Len(top) = 2 /\ SubSeq(top, 1, 2) = top
  <2>1. top \in Seq({name, "__overlay__"}) /\ Len(top) = 2
    OBVIOUS
  <2> HIDE DEF top
  <2> QED
    BY <2>1, SubSeqFull
<1> HIDE DEF top
<1>3. Len(path) \in Nat /\ 2 <= Len(path) /\ SubSeq(path, 1, 2) = top
  BY <1>1, <1>2, LenProperties DEF IsPrefix
<1>4. SubSeq(path, 1, 2) \o SubSeq(path, 3, Len(path)) = path
  <2>1. PICK one, two, last : one = 1 /\ two = 2 /\ last = Len(path)
    OBVIOUS
  <2>2. one \in 1..(last + 1) /\ two \in (one - 1)..last /\ last \in two..last
    BY <1>3, <2>1
  <2>3. SubSeq(path, one, two) \o SubSeq(path, two + 1, last) = SubSeq(path, one, last)
    <3>1. /\ one \in 1..(Len(path) + 1) /\ two \in (one - 1)..Len(path)
          /\ last \in two..Len(path) /\ path \in Seq(STRING)
      BY <2>1, <2>2
    <3> QED
      BY ONLY <3>1, ConcatAdjacentSubSeq
  <2>4. SubSeq(path, one, last) = path
    BY <2>1, SubSeqFull
  <2> QED
    BY <2>1, <2>3, <2>4
<1>5. SubSeq(path, 3, Len(path)) \in Seq(STRING)
  <2>1. \A k \in 3..Len(path) : path[k] \in STRING
    BY <1>3, ElementOfSeq
  <2> QED
    BY <1>3, <2>1, SubSeqProperties
<1> QED
  BY <1>1, <1>3, <1>4, <1>5 DEF Rest

(* What follows the first of two paths is the second. *)
LEMMA PathBehind ==
    ASSUME NEW first \in Seq(STRING), NEW second \in Seq(STRING)
    PROVE  /\ first \o second \in Seq(STRING)
           /\ SubSeq(first \o second, Len(first) + 1, Len(first \o second)) = second
<1>1. PICK both : both = first \o second
  OBVIOUS
<1>2. PICK m, n : m = Len(first) /\ n = Len(second)
  OBVIOUS
<1>3. /\ both \in Seq(STRING) /\ m \in Nat /\ n \in Nat /\ Len(both) = m + n
      /\ \A k \in 1..(m + n) : both[k] = IF k <= m THEN first[k] ELSE second[k - m]
  BY <1>1, <1>2, ConcatProperties, LenProperties
<1>4. PICK rest : rest = SubSeq(both, m + 1, m + n)
  OBVIOUS
<1>5. /\ rest \in Seq(STRING) /\ Len(rest) = n
      /\ \A k \in 1..n : rest[k] = both[m + k]
  <2>1. \A k \in (m + 1)..(m + n) : both[k] \in STRING
    BY <1>3, ElementOfSeq
  <2>2. m + 1 \in Int /\ m + n \in Int
    BY <1>3
  <2>3. /\ rest \in Seq(STRING)
        /\ Len(rest) = IF m + 1 <= m + n THEN (m + n) - (m + 1) + 1 ELSE 0
        /\ \A k \in 1..((m + n) - (m + 1) + 1) : rest[k] = both[(m + 1) + k - 1]
    BY <1>4, <2>1, <2>2, SubSeqProperties
  <2>4. \A k \in 1..n : k \in 1..((m + n) - (m + 1) + 1) /\ (m + 1) + k - 1 = m + k
    BY <1>3
  <2> QED
    BY <1>3, <2>3, <2>4
<1>6. \A k \in 1..n : rest[k] = second[k]
  <2>1. SUFFICES ASSUME NEW k \in 1..n PROVE rest[k] = second[k]
    OBVIOUS
  <2>2. PICK j : j = m + k
    OBVIOUS
  <2>3. j \in 1..(m + n) /\ ~(j <= m) /\ j - m = k
    BY <1>3, <2>2
  <2>4. rest[k] = both[j] /\ both[j] = second[j - m]
    BY <1>3, <1>5, <2>2, <2>3
  <2> QED
    BY <2>3, <2>4
<1>7. rest = second
  BY <1>2, <1>5, <1>6, SeqEqual
<1> QED
  BY <1>1, <1>2, <1>3, <1>4, <1>7

(* Where a slot that is moved to target comes from *)
Origin(top, target, slot) ==
    <<top \o SubSeq(slot[1], Len(target) + 1, Len(slot[1])), slot[2]>>

LEMMA MovedFrom ==
    ASSUME NEW tree, IsTree(tree), NEW name, NEW target \in Seq(STRING),
           NEW slot \in DOMAIN tree, IsPrefix(Overlay(name), slot[1])
    PROVE  /\ Moved(slot, target) \in Slot
           /\ Origin(Overlay(name), target, Moved(slot, target)) = slot
<1>1. PICK path, prop : /\ slot = <<path, prop>>
                        /\ path \in Seq(STRING) /\ prop \in STRING \cup {""}
  BY SlotIsPair DEF IsTree
<1>2. slot[1] = path /\ slot[2] = prop
  BY <1>1
<1>3. PICK rest \in Seq(STRING) : rest = Rest(path) /\ Overlay(name) \o rest = path
  BY <1>1, <1>2, PathBelow
<1>4. PICK to : to = target \o rest
  OBVIOUS
<1>5. to \in Seq(STRING) /\ SubSeq(to, Len(target) + 1, Len(to)) = rest
  BY <1>4, PathBehind
<1>6. Moved(slot, target) = <<to, prop>>
  BY <1>2, <1>3, <1>4 DEF Moved
<1>7. Origin(Overlay(name), target, <<to, prop>>) = <<path, prop>>
  BY <1>3, <1>5 DEF Origin
<1>8. <<to, prop>> \in Slot
  BY <1>1, <1>5 DEF Slot
<1> QED
  BY <1>1, <1>6, <1>7, <1>8

(* Both trees of a call, and the pool they have their nodes from *)
TreesHaveNodes ==
    /\ IsTree(main_tree) /\ IsTree(overlay_tree)
    /\ NodesIn(main_tree) \cap NodesIn(overlay_tree) = {}
    /\ nodes = NodesIn(main_tree) \cup NodesIn(overlay_tree)

(* A fragment is merged: its nodes move to the main tree or to the pool.   *)
LEMMA MergeKeepsTrees ==
    ASSUME TreesHaveNodes, NEW target \in Paths(main_tree), NEW name,
           ufdt_node_merge_into(target, Overlay(name))
    PROVE  TreesHaveNodes' /\ NodesIn(main_tree) \subseteq NodesIn(main_tree')
<1> DEFINE top   == Overlay(name)
           moved == Merged(top)
           To(s)   == Moved(s, target)
           From(s) == Origin(top, target, s)
           there   == {To(s) : s \in moved}
<1>1. /\ IsTree(main_tree) /\ IsTree(overlay_tree)
      /\ NodesIn(main_tree) \cap NodesIn(overlay_tree) = {}
      /\ nodes = NodesIn(main_tree) \cup NodesIn(overlay_tree)
  BY DEF TreesHaveNodes
<1>2. target \in Seq(STRING) /\ <<target, "">> \in DOMAIN main_tree
  <2>1. PICK slot \in DOMAIN main_tree : target = slot[1]
    BY DEF Paths
  <2>2. slot \in Slot /\ <<slot[1], "">> \in DOMAIN main_tree
    BY <1>1 DEF IsTree
  <2> QED
    BY <2>1, <2>2, SlotIsPair
<1>3. /\ moved \subseteq DOMAIN overlay_tree
      /\ \A s \in DOMAIN overlay_tree :
            s \in moved <=> IsPrefix(top, s[1]) /\ s # <<top, "">>
  BY DEF Merged
<1>4. \A s \in moved : To(s) \in Slot /\ From(To(s)) = s
  <2>1. ASSUME NEW s \in moved PROVE To(s) \in Slot /\ From(To(s)) = s
    <3>1. /\ IsTree(overlay_tree) /\ target \in Seq(STRING)
          /\ s \in DOMAIN overlay_tree /\ IsPrefix(Overlay(name), s[1])
      BY <1>1, <1>2, <1>3
    <3>2. /\ Moved(s, target) \in Slot
          /\ Origin(Overlay(name), target, Moved(s, target)) = s
      BY ONLY <3>1, MovedFrom
    <3> QED
      BY <3>2, Zenon
  <2> QED
    BY <2>1, Zenon
<1>5. \A slot \in there : slot \in Slot /\ From(slot) \in moved /\ To(From(slot)) = slot
  BY <1>4
<1>6. IsFiniteSet(there)
  <2>1. IsFiniteSet(moved)
    BY <1>1, <1>3, FS_Subset DEF IsTree
  <2> DEFINE f == [s \in moved |-> To(s)]
  <2>2. {f[x] : x \in DOMAIN f} = there
    OBVIOUS
  <2>3. IsFiniteSet(DOMAIN f)
    BY <2>1
  <2> HIDE DEF f, there
  <2> QED
    BY <2>2, <2>3, FiniteRange
<1>7. /\ main_tree' = [slot \in DOMAIN main_tree \cup there |->
                          IF slot \notin there THEN main_tree[slot]
                          ELSE IF slot \notin DOMAIN main_tree THEN overlay_tree[From(slot)]
                          ELSE [main_tree[slot] EXCEPT !.data = overlay_tree[From(slot)].data]]
      /\ nodes' = nodes \ Matched(top, target)
      /\ overlay_tree' = LeftAfterMerge(top)
  <2> DEFINE arrived == [slot \in there |-> overlay_tree[From(slot)]]
  <2>1. /\ main_tree' = [slot \in DOMAIN main_tree \cup DOMAIN arrived |->
                            IF slot \notin DOMAIN arrived THEN main_tree[slot]
                            ELSE IF slot \notin DOMAIN main_tree THEN arrived[slot]
                            ELSE [main_tree[slot] EXCEPT !.data = arrived[slot].data]]
        /\ nodes' = nodes \ Matched(top, target)
        /\ overlay_tree' = LeftAfterMerge(top)
    BY Zenon DEF ufdt_node_merge_into, Origin
  <2>2. DOMAIN arrived = there /\ \A slot \in there : arrived[slot] = overlay_tree[From(slot)]
    OBVIOUS
  <2> HIDE DEF arrived, there, From
  <2> QED
    BY <2>1, <2>2
<1>8. Matched(top, target) = {overlay_tree[s].node : s \in {x \in moved : To(x) \in DOMAIN main_tree}}
  BY Zenon DEF Matched
<1>9. /\ DOMAIN overlay_tree' = DOMAIN overlay_tree \ moved
      /\ overlay_tree' \in [DOMAIN overlay_tree \ moved -> Entry]
      /\ \A s \in DOMAIN overlay_tree \ moved : overlay_tree'[s] = overlay_tree[s]
  BY <1>1, <1>7 DEF LeftAfterMerge, Restrict, IsTree
<1>10. \A s \in moved : To(s) = <<target \o Rest(s[1]), s[2]>>
  BY Zenon DEF Moved
<1>11. target \o Rest(top) = target
  <2>1. Len(top) = 2
    BY DEF Overlay
  <2>2. Rest(top) = << >>
    <3>1. SubSeq(top, 3, 2) = << >>
      BY SubSeqEmpty
    <3> QED
      BY <2>1, <3>1 DEF Rest
  <2> QED
    BY <1>2, <2>2, ConcatEmptySeq
<1> HIDE DEF To, From, moved, top
<1>12. ASSUME NEW slot \in there
       PROVE  <<slot[1], "">> \in DOMAIN main_tree \cup there
  <2>1. PICK s \in moved : slot = To(s)
    OBVIOUS
  <2>2. slot[1] = target \o Rest(s[1])
    BY <1>10, <2>1
  <2>3. PICK u : u = <<s[1], "">>
    OBVIOUS
  <2>4. s \in DOMAIN overlay_tree /\ u \in DOMAIN overlay_tree /\ u[1] = s[1]
    BY <1>1, <1>3, <2>3 DEF IsTree
  <2>5. CASE u \in moved
    <3>1. To(u) = <<target \o Rest(s[1]), "">>
      BY <1>10, <2>3, <2>5
    <3> QED
      BY <2>2, <2>5, <3>1
  <2>6. CASE u \notin moved
    <3>1. u = <<top, "">>
      BY <1>3, <2>4, <2>6
    <3>2. s[1] = top
      BY <2>4, <3>1
    <3> QED
      BY <1>2, <1>11, <2>2, <3>2
  <2> QED
    BY <2>5, <2>6
<1> HIDE DEF there
<1>13. /\ DOMAIN main_tree' = DOMAIN main_tree \cup there
       /\ \A slot \in DOMAIN main_tree :
             main_tree'[slot] \in Entry /\ main_tree'[slot].node = main_tree[slot].node
       /\ \A slot \in there \ DOMAIN main_tree : main_tree'[slot] = overlay_tree[From(slot)]
  <2>1. /\ DOMAIN main_tree' = DOMAIN main_tree \cup there
        /\ \A slot \in DOMAIN main_tree \ there : main_tree'[slot] = main_tree[slot]
        /\ \A slot \in there \ DOMAIN main_tree : main_tree'[slot] = overlay_tree[From(slot)]
        /\ \A slot \in there \cap DOMAIN main_tree :
              main_tree'[slot] = [main_tree[slot] EXCEPT !.data = overlay_tree[From(slot)].data]
    BY <1>7
  <2>2. \A slot \in DOMAIN main_tree : main_tree[slot] \in Entry
    BY <1>1 DEF IsTree
  <2>3. \A slot \in there : overlay_tree[From(slot)] \in Entry
    BY <1>1, <1>3, <1>5 DEF IsTree
  <2>4. ASSUME NEW e \in Entry, NEW d \in Entry
        PROVE  [e EXCEPT !.data = d.data] \in Entry /\ [e EXCEPT !.data = d.data].node = e.node
    BY DEF Entry
  <2>5. ASSUME NEW slot \in DOMAIN main_tree
        PROVE  main_tree'[slot] \in Entry /\ main_tree'[slot].node = main_tree[slot].node
    <3>1. CASE slot \notin there
      BY <2>1, <2>2, <3>1
    <3>2. CASE slot \in there
      <4>1. PICK e \in Entry, d \in Entry : e = main_tree[slot] /\ d = overlay_tree[From(slot)]
        BY <2>2, <2>3, <3>2
      <4>2. main_tree'[slot] = [e EXCEPT !.data = d.data]
        BY <2>1, <3>2, <4>1
      <4> QED
        BY <2>4, <4>1, <4>2
    <3> QED
      BY <3>1, <3>2
  <2> QED
    BY <2>1, <2>5
<1>14. \A slot \in there \ DOMAIN main_tree :
          /\ From(slot) \in moved /\ From(slot) \in DOMAIN overlay_tree
          /\ main_tree'[slot] \in Entry
          /\ main_tree'[slot].node = overlay_tree[From(slot)].node
  BY <1>1, <1>3, <1>5, <1>13 DEF IsTree
<1>15. IsTree(main_tree')
  <2>1. DOMAIN main_tree' \subseteq Slot /\ IsFiniteSet(DOMAIN main_tree')
    <3>1. PICK S, T : S = DOMAIN main_tree /\ T = there
      OBVIOUS
    <3>2. /\ IsFiniteSet(S) /\ IsFiniteSet(T) /\ S \subseteq Slot /\ T \subseteq Slot
          /\ DOMAIN main_tree' = S \cup T
      BY <1>1, <1>5, <1>6, <1>13, <3>1 DEF IsTree
    <3> QED
      BY ONLY <3>2, FS_Union
  <2>2. main_tree' \in [DOMAIN main_tree' -> Entry]
    <3>1. main_tree' = [slot \in DOMAIN main_tree' |-> main_tree'[slot]]
      BY <1>7
    <3>2. \A slot \in DOMAIN main_tree' : main_tree'[slot] \in Entry
      BY <1>13, <1>14
    <3> QED
      BY <3>1, <3>2
  <2>3. \A slot \in DOMAIN main_tree' : <<slot[1], "">> \in DOMAIN main_tree'
    BY <1>1, <1>12, <1>13 DEF IsTree
  <2>4. ASSUME NEW s \in DOMAIN main_tree', NEW t \in DOMAIN main_tree',
               main_tree'[s].node = main_tree'[t].node
        PROVE  s = t
    <3>1. \A x, y \in DOMAIN main_tree : main_tree[x].node = main_tree[y].node => x = y
      BY <1>1 DEF IsTree
    <3>2. \A x, y \in DOMAIN overlay_tree : overlay_tree[x].node = overlay_tree[y].node => x = y
      BY <1>1 DEF IsTree
    <3>3. \A x \in DOMAIN main_tree, y \in DOMAIN overlay_tree :
             main_tree[x].node # overlay_tree[y].node
      BY <1>1 DEF NodesIn
    <3>4. CASE s \in DOMAIN main_tree /\ t \in DOMAIN main_tree
      BY <1>13, <2>4, <3>1, <3>4
    <3>5. CASE s \notin DOMAIN main_tree /\ t \notin DOMAIN main_tree
      <4>1. From(s) = From(t)
        BY <1>13, <1>14, <2>4, <3>2, <3>5
      <4> QED
        BY <1>5, <1>13, <3>5, <4>1
    <3>6. CASE s \in DOMAIN main_tree /\ t \notin DOMAIN main_tree
      BY <1>13, <1>14, <2>4, <3>3, <3>6
    <3>7. CASE s \notin DOMAIN main_tree /\ t \in DOMAIN main_tree
      BY <1>13, <1>14, <2>4, <3>3, <3>7
    <3> QED
      BY <3>4, <3>5, <3>6, <3>7
  <2> QED
    BY <2>1, <2>2, <2>3, <2>4 DEF IsTree
<1>16. IsTree(overlay_tree')
  <2>1. DOMAIN overlay_tree' \in SUBSET (DOMAIN overlay_tree)
    BY <1>9
  <2>2. DOMAIN overlay_tree' \subseteq Slot /\ IsFiniteSet(DOMAIN overlay_tree')
    BY <1>1, <2>1, FS_Subset DEF IsTree
  <2>3. ASSUME NEW slot \in DOMAIN overlay_tree' PROVE <<slot[1], "">> \in DOMAIN overlay_tree'
    <3>1. PICK u : u = <<slot[1], "">>
      OBVIOUS
    <3>2. slot \in DOMAIN overlay_tree /\ slot \notin moved /\ u \in DOMAIN overlay_tree
      BY <1>1, <1>9, <3>1 DEF IsTree
    <3>3. u[1] = slot[1]
      BY <3>1
    <3>4. ASSUME u \in moved PROVE FALSE
      <4>1. IsPrefix(top, slot[1])
        BY <1>3, <3>2, <3>3, <3>4
      <4>2. slot = <<top, "">>
        BY <1>3, <3>2, <4>1
      <4>3. u = <<top, "">>
        BY <3>1, <4>2
      <4> QED
        BY <1>3, <3>2, <3>4, <4>3
    <3> QED
      BY <1>9, <3>1, <3>2, <3>4
  <2> QED
    BY <1>1, <1>9, <2>2, <2>3 DEF IsTree
<1>17. NodesIn(main_tree') = NodesIn(main_tree)
          \cup {overlay_tree[s].node : s \in {x \in moved : To(x) \notin DOMAIN main_tree}}
  <2>1. \A slot \in DOMAIN main_tree : main_tree'[slot].node \in NodesIn(main_tree)
    BY <1>13 DEF NodesIn
  <2>2. \A slot \in there \ DOMAIN main_tree :
           From(slot) \in moved /\ To(From(slot)) \notin DOMAIN main_tree
    BY <1>5
  <2>3. \A s \in moved : To(s) \notin DOMAIN main_tree =>
           To(s) \in DOMAIN main_tree' /\ main_tree'[To(s)].node = overlay_tree[s].node
    BY <1>4, <1>13, <1>14 DEF there
  <2>4. \A slot \in DOMAIN main_tree : \E u \in DOMAIN main_tree' :
           main_tree'[u].node = main_tree[slot].node
    BY <1>13
  <2> QED
    BY <1>13, <1>14, <2>1, <2>2, <2>3, <2>4 DEF NodesIn
<1>18. NodesIn(overlay_tree') = {overlay_tree[s].node : s \in DOMAIN overlay_tree \ moved}
  BY <1>9 DEF NodesIn
<1>19. \A x, y \in DOMAIN overlay_tree : overlay_tree[x].node = overlay_tree[y].node => x = y
  BY <1>1 DEF IsTree
<1>20. NodesIn(overlay_tree) = {overlay_tree[s].node : s \in DOMAIN overlay_tree}
  BY DEF NodesIn
<1>21. /\ NodesIn(main_tree') \cap NodesIn(overlay_tree') = {}
       /\ nodes' = NodesIn(main_tree') \cup NodesIn(overlay_tree')
  <2>1. PICK P, Q, R, W :
           /\ P = NodesIn(main_tree)
           /\ Q = {overlay_tree[s].node : s \in {x \in moved : To(x) \in DOMAIN main_tree}}
           /\ R = {overlay_tree[s].node : s \in {x \in moved : To(x) \notin DOMAIN main_tree}}
           /\ W = {overlay_tree[s].node : s \in DOMAIN overlay_tree \ moved}
    OBVIOUS
  <2>2. NodesIn(overlay_tree) = (Q \cup R) \cup W
    BY <1>3, <1>20, <2>1
  <2>3. Q \cap R = {} /\ Q \cap W = {} /\ R \cap W = {}
    BY <1>3, <1>19, <2>1
  <2>4. /\ NodesIn(main_tree') = P \cup R /\ NodesIn(overlay_tree') = W
        /\ nodes' = nodes \ Q
    BY <1>7, <1>8, <1>17, <1>18, <2>1
  <2>5. P \cap ((Q \cup R) \cup W) = {} /\ nodes = P \cup ((Q \cup R) \cup W)
    BY <1>1, <2>1, <2>2
  <2> QED
    BY <2>3, <2>4, <2>5
<1> QED
  BY <1>15, <1>16, <1>17, <1>21 DEF TreesHaveNodes

----------------------------------------------------------------------------
(* The inductive invariant *)

(* What is in the blobs *)
BlobsAreTyped ==
    /\ IsContent(fdt.nodes)
    /\ DOMAIN buffers = DOMAIN Overlays
    /\ \A b \in DOMAIN buffers :
          /\ "magic" \in DOMAIN buffers[b]
          /\ buffers[b].magic => "nodes" \in DOMAIN buffers[b] /\ IsContent(buffers[b].nodes)

Applying == pc \in {"local", "fixups", "fragments"}

(* Where the call is: the trees that are there, and an overlay of the list *)
CallIsAt ==
    /\ pc \in {"idle", "overlay", "local", "fixups", "fragments", "flatten"}
    /\ pc = "idle" => main_tree = NULL /\ overlay_tree = NULL
    /\ pc # "idle" => overlays \in Seq(DOMAIN Overlays) /\ IsInjective(overlays)
    /\ pc = "overlay" => overlay_tree = NULL
    /\ pc = "overlay" \/ Applying => i \in 1..Len(overlays)

(* The string tables the main tree has: no node of the overlay whose turn  *)
(* it is has been handed out before.                                       *)
BlobsOfTurns(n) == {Main} \cup {overlays[k] : k \in 1..n}

BlobsAreKnown ==
    /\ fdtps \in Seq(Place)
    /\ \A node \in nodes : node[1] \in Range(fdtps)
    /\ pc = "overlay" => Range(fdtps) \subseteq BlobsOfTurns(i - 1)
    /\ Applying => Range(fdtps) \subseteq BlobsOfTurns(i)

TableIsOfMain == {entry.node : entry \in phandle_table} \subseteq NodesIn(main_tree)

OverlayInv ==
    /\ BlobsAreTyped /\ CallIsAt /\ TreesHaveNodes /\ BlobsAreKnown /\ TableIsOfMain

LEMMA NoTree == IsTree(NULL) /\ NodesIn(NULL) = {} /\ DOMAIN NULL = {}
<1>1. DOMAIN NULL = {}
  BY DEF NULL
<1>2. NULL \in [{} -> Entry]
  BY DEF NULL
<1> QED
  BY <1>1, <1>2, FS_EmptySet DEF IsTree, NodesIn

(* Changes of cells leave the nodes and the names of their properties. *)
LEMMA SameNamesSameContent ==
    ASSUME NEW old, IsContent(old), NEW new, DOMAIN new = DOMAIN old,
           \A path \in DOMAIN old : DOMAIN (new[path]) = DOMAIN (old[path])
    PROVE  IsContent(new)
BY DEF IsContent

LEMMA ChangedIsContent ==
    ASSUME NEW old, IsContent(old), NEW places, NEW f
    PROVE  IsContent(Changed(old, places, f))
<1>1. DOMAIN Changed(old, places, f) = DOMAIN old
  BY DEF Changed
<1>2. \A path \in DOMAIN old : DOMAIN (Changed(old, places, f)[path]) = DOMAIN (old[path])
  BY DEF Changed
<1> QED
  BY <1>1, <1>2, SameNamesSameContent

LEMMA FixedUpIsContent ==
    ASSUME NEW old, IsContent(old), NEW labels
    PROVE  IsContent(FixedUp(old, labels))
<1>1. DOMAIN FixedUp(old, labels) = DOMAIN old
  BY DEF FixedUp
<1>2. \A path \in DOMAIN old : DOMAIN (FixedUp(old, labels)[path]) = DOMAIN (old[path])
  BY DEF FixedUp
<1> QED
  BY <1>1, <1>2, SameNamesSameContent

(* The blob of the overlay whose turn it is may have its cells changed. *)
LEMMA BuffersStayTyped ==
    ASSUME BlobsAreTyped, NEW o \in DOMAIN Overlays, NEW content,
           IsContent(buffers[o].nodes) => IsContent(content),
           buffers' = [buffers EXCEPT ![o].nodes = content], fdt' = fdt
    PROVE  BlobsAreTyped'
<1>1. DOMAIN buffers' = DOMAIN Overlays
  BY DEF BlobsAreTyped
<1>2. \A b \in DOMAIN buffers : b # o => buffers'[b] = buffers[b]
  OBVIOUS
<1>3. buffers'[o] = [buffers[o] EXCEPT !.nodes = content]
  BY DEF BlobsAreTyped
<1>4. "magic" \in DOMAIN buffers'[o] /\ buffers'[o].magic = buffers[o].magic
  BY <1>3 DEF BlobsAreTyped
<1>5. buffers[o].magic => "nodes" \in DOMAIN buffers'[o] /\ IsContent(buffers'[o].nodes)
  <2>1. SUFFICES ASSUME buffers[o].magic
                 PROVE  "nodes" \in DOMAIN buffers'[o] /\ IsContent(buffers'[o].nodes)
    OBVIOUS
  <2>2. "nodes" \in DOMAIN buffers[o] /\ IsContent(buffers[o].nodes)
    BY <2>1 DEF BlobsAreTyped
  <2>3. "nodes" \in DOMAIN buffers'[o] /\ buffers'[o].nodes = content
    BY <1>3, <2>2
  <2> QED
    BY <2>2, <2>3
<1> QED
  BY <1>1, <1>2, <1>4, <1>5 DEF BlobsAreTyped

----------------------------------------------------------------------------
(* The actions *)

(* Begin: the tree of the device tree is built, from a pool without nodes. *)
LEMMA BeginKeeps ==
    ASSUME OverlayInv, NEW list \in Seq(DOMAIN Overlays), list # << >>, IsInjective(list),
           Begin(list)
    PROVE  OverlayInv'
<1>1. PICK tree : tree = ufdt_from_fdt(Main)
  OBVIOUS
<1>2. /\ pc = "idle" /\ pc' = "overlay" /\ overlays' = list /\ i' = 1
      /\ main_tree' = tree /\ phandle_table' = build_phandle_table(tree)
      /\ fdtps' = <<Main>> /\ nodes' = nodes \cup NodesIn(tree)
      /\ overlay_tree' = overlay_tree /\ fdt' = fdt /\ buffers' = buffers
  BY <1>1 DEF Begin
<1>3. overlay_tree = NULL /\ nodes = {}
  BY <1>2, NoTree DEF OverlayInv, CallIsAt, TreesHaveNodes
<1>4. IsTree(tree) /\ \A node \in NodesIn(tree) : node[1] = Main
  <2>1. IsContent(NodesOf(Main)) /\ Main \in Place
    BY DEF OverlayInv, BlobsAreTyped, NodesOf, Place
  <2> QED
    BY <1>1, <2>1, UnflattenedIsTree
<1>5. TreesHaveNodes'
  BY <1>2, <1>3, <1>4, NoTree DEF TreesHaveNodes
<1>6. BlobsAreTyped'
  BY <1>2 DEF OverlayInv, BlobsAreTyped
<1>7. CallIsAt'
  <2>1. Len(list) \in Nat \ {0}
    BY EmptySeq
  <2>2. 1 \in 1..Len(list)
    BY <2>1
  <2> QED
    BY <1>2, <1>3, <2>2 DEF CallIsAt
<1>8. BlobsAreKnown'
  <2>1. Main \in Place
    BY DEF Place
  <2>2. fdtps' \in Seq(Place) /\ Range(fdtps') = {Main}
    BY <1>2, <2>1 DEF Range
  <2> QED
    BY <1>2, <1>3, <1>4, <2>2 DEF BlobsAreKnown, BlobsOfTurns, Applying
<1>9. TableIsOfMain'
  BY <1>2, <1>4, TableIsOfTree DEF TableIsOfMain
<1> QED
  BY <1>5, <1>6, <1>7, <1>8, <1>9 DEF OverlayInv

(* Return: all nodes of the trees go back to the pool, and there are no    *)
(* others.                                                                 *)
LEMMA ReturnKeeps ==
    ASSUME OverlayInv, NEW value, Return(value), BlobsAreTyped'
    PROVE  OverlayInv'
<1>1. /\ pc' = "idle" /\ main_tree' = NULL /\ overlay_tree' = NULL
      /\ phandle_table' = {} /\ fdtps' = << >>
      /\ nodes' = nodes \ (NodesIn(main_tree) \cup NodesIn(overlay_tree))
  BY DEF Return
<1>2. nodes' = {}
  BY <1>1 DEF OverlayInv, TreesHaveNodes
<1>3. TreesHaveNodes'
  BY <1>1, <1>2, NoTree DEF TreesHaveNodes
<1>4. CallIsAt' /\ TableIsOfMain'
  BY <1>1 DEF CallIsAt, TableIsOfMain, Applying
<1>5. BlobsAreKnown'
  BY <1>1, <1>2 DEF BlobsAreKnown, Applying
<1> QED
  BY <1>3, <1>4, <1>5 DEF OverlayInv

LEMMA FailKeeps ==
    ASSUME OverlayInv, Fail, buffers' = buffers
    PROVE  OverlayInv'
<1>1. BlobsAreTyped'
  BY DEF Fail, OverlayInv, BlobsAreTyped
<1> QED
  BY <1>1, ReturnKeeps DEF Fail

(* NextOverlay: the nodes of the new tree are none of those handed out,    *)
(* as the list names no buffer twice.                                      *)
LEMMA NextOverlayKeeps ==
    ASSUME OverlayInv, NextOverlay
    PROVE  OverlayInv'
<1>1. CASE Fail /\ buffers' = buffers
  BY <1>1, FailKeeps
<1>2. CASE /\ pc = "overlay" /\ buffers[overlays[i]].magic
           /\ phandle_table' = MainTable(i)
           /\ overlay_tree' = ufdt_from_fdt(overlays[i])
           /\ nodes' = nodes \cup NodesIn(overlay_tree')
           /\ fdtps' = ufdt_add_fdt(overlays[i])
           /\ pc' = "local"
           /\ UNCHANGED <<fdt, buffers, multi, overlays, i, main_tree, fragment, ret,
                          calls, applied>>
  <2>1. /\ overlay_tree = NULL /\ overlays \in Seq(DOMAIN Overlays) /\ IsInjective(overlays)
        /\ i \in 1..Len(overlays) /\ Range(fdtps) \subseteq BlobsOfTurns(i - 1)
        /\ fdtps \in Seq(Place)
    BY <1>2 DEF OverlayInv, CallIsAt, BlobsAreKnown
  <2>2. PICK o, tree : o = overlays[i] /\ tree = ufdt_from_fdt(o)
    OBVIOUS
  <2>3. o \in DOMAIN Overlays /\ o \in Place /\ o # Main
    BY <2>1, <2>2, ElementOfSeq, ConstantsAreTyped DEF Place, Main
  <2>4. o \notin Range(fdtps)
    <3>1. ASSUME NEW k \in 1..(i - 1), overlays[k] = o PROVE FALSE
      <4>1. k \in DOMAIN overlays /\ i \in DOMAIN overlays /\ k # i
        BY <2>1, LenProperties
      <4> QED
        BY <2>1, <2>2, <3>1, <4>1 DEF IsInjective
    <3> QED
      BY <2>1, <2>3, <3>1 DEF BlobsOfTurns
  <2>5. IsTree(tree) /\ \A node \in NodesIn(tree) : node[1] = o
    <3>1. IsContent(NodesOf(o))
      BY <1>2, <2>2, <2>3 DEF OverlayInv, BlobsAreTyped, NodesOf
    <3> QED
      BY <2>2, <2>3, <3>1, UnflattenedIsTree
  <2>6. /\ overlay_tree' = tree /\ nodes' = nodes \cup NodesIn(tree)
        /\ main_tree' = main_tree /\ fdtps' = Append(fdtps, o)
    BY <1>2, <2>2 DEF ufdt_add_fdt
  <2>7. TreesHaveNodes'
    <3>1. NodesIn(main_tree) \cap NodesIn(tree) = {}
      BY <2>4, <2>5 DEF OverlayInv, TreesHaveNodes, BlobsAreKnown
    <3>2. IsTree(main_tree) /\ nodes = NodesIn(main_tree)
      BY <2>1, NoTree DEF OverlayInv, TreesHaveNodes
    <3> QED
      BY <2>5, <2>6, <3>1, <3>2 DEF TreesHaveNodes
  <2>8. BlobsAreTyped'
    BY <1>2 DEF OverlayInv, BlobsAreTyped
  <2>9. CallIsAt'
    BY <1>2, <2>1 DEF CallIsAt, Applying
  <2>10. BlobsAreKnown'
    <3>1. fdtps' \in Seq(Place) /\ Range(fdtps') = Range(fdtps) \cup {o}
      <4>1. PICK n : n = Len(fdtps)
        OBVIOUS
      <4>2. n \in Nat /\ DOMAIN fdtps = 1..n
        BY <2>1, <4>1, LenProperties
      <4>3. /\ fdtps' \in Seq(Place) /\ Len(fdtps') = n + 1 /\ fdtps'[n + 1] = o
            /\ \A k \in 1..n : fdtps'[k] = fdtps[k]
        BY <2>1, <2>3, <2>6, <4>1, AppendProperties
      <4>4. DOMAIN fdtps' = 1..(n + 1)
        BY <4>3, LenProperties
      <4> QED
        BY <4>2, <4>3, <4>4 DEF Range
    <3>2. Range(fdtps') \subseteq BlobsOfTurns(i)
      BY <2>1, <2>2, <3>1 DEF BlobsOfTurns
    <3>3. \A node \in nodes' : node[1] \in Range(fdtps')
      BY <2>5, <2>6, <3>1 DEF OverlayInv, BlobsAreKnown
    <3>4. pc' = "local" /\ BlobsOfTurns(i)' = BlobsOfTurns(i)
      BY <1>2 DEF BlobsOfTurns
    <3> QED
      BY <3>1, <3>2, <3>3, <3>4 DEF BlobsAreKnown
  <2>11. TableIsOfMain'
    <3>1. {entry.node : entry \in MainTable(i)} \subseteq NodesIn(main_tree)
      BY TableIsOfTree DEF MainTable, OverlayInv, TableIsOfMain, TreesHaveNodes
    <3> QED
      BY <1>2, <3>1 DEF TableIsOfMain
  <2> QED
    BY <2>7, <2>8, <2>9, <2>10, <2>11 DEF OverlayInv
<1> QED
  BY <1>1, <1>2, Zenon DEF NextOverlay

(* The steps that change cells in the blob of the overlay only: they do    *)
(* not touch the trees, or end the call.                                   *)
LEMMA ProceedKeeps ==
    ASSUME OverlayInv, Applying, NEW step \in {"local", "fixups", "fragments"}, NEW content,
           IsContent(Overlaid.nodes) => IsContent(content), Proceed(step, content)
    PROVE  OverlayInv'
<1>1. overlays[i] \in DOMAIN Overlays
  BY ElementOfSeq DEF OverlayInv, CallIsAt, Applying
<1>2. /\ pc' = step /\ buffers' = [buffers EXCEPT ![overlays[i]].nodes = content]
      /\ UNCHANGED <<fdt, multi, overlays, i, main_tree, overlay_tree, phandle_table,
                     fdtps, nodes, fragment, ret, calls, applied>>
  BY DEF Proceed
<1>3. BlobsAreTyped'
  BY <1>1, <1>2, BuffersStayTyped DEF OverlayInv, Overlaid
<1>4. CallIsAt'
  BY <1>2 DEF OverlayInv, CallIsAt, Applying
<1>5. TreesHaveNodes' /\ TableIsOfMain'
  BY <1>2 DEF OverlayInv, TreesHaveNodes, TableIsOfMain
<1>6. BlobsAreKnown'
  BY <1>2 DEF OverlayInv, BlobsAreKnown, Applying, BlobsOfTurns
<1> QED
  BY <1>3, <1>4, <1>5, <1>6 DEF OverlayInv

LEMMA FailWithKeeps ==
    ASSUME OverlayInv, Applying, NEW content,
           IsContent(Overlaid.nodes) => IsContent(content), FailWith(content)
    PROVE  OverlayInv'
<1>1. overlays[i] \in DOMAIN Overlays
  BY ElementOfSeq DEF OverlayInv, CallIsAt, Applying
<1>2. BlobsAreTyped'
  BY <1>1, BuffersStayTyped DEF OverlayInv, Overlaid, FailWith, Fail
<1> QED
  BY <1>2, ReturnKeeps DEF FailWith, Fail

LEMMA LocalRefUpdateKeeps ==
    ASSUME OverlayInv, ufdt_overlay_local_ref_update
    PROVE  OverlayInv'
<1> DEFINE FixedUpTo(done) == Changed(ufdt_try_increase_phandle, done, Increased)
<1>1. IsContent(Overlaid.nodes) => \A done : IsContent(FixedUpTo(done))
  BY ChangedIsContent DEF ufdt_try_increase_phandle
<1>2. pc = "local" /\ \/ \E done : Proceed("fixups", FixedUpTo(done))
                      \/ \E done : FailWith(FixedUpTo(done))
  BY Zenon DEF ufdt_overlay_local_ref_update
<1> HIDE DEF FixedUpTo
<1>3. Applying
  BY <1>2 DEF Applying
<1> QED
  BY <1>1, <1>2, <1>3, ProceedKeeps, FailWithKeeps

LEMMA DoFixupsKeeps ==
    ASSUME OverlayInv, ufdt_overlay_do_fixups
    PROVE  OverlayInv'
<1>1. IsContent(Overlaid.nodes) => \A done : IsContent(FixedUp(Overlaid.nodes, done))
  BY FixedUpIsContent
<1>2. pc = "fixups" /\ \/ \E done : Proceed("fragments", FixedUp(Overlaid.nodes, done))
                       \/ \E done : FailWith(FixedUp(Overlaid.nodes, done))
  BY Zenon DEF ufdt_overlay_do_fixups
<1>3. Applying
  BY <1>2 DEF Applying
<1> QED
  BY <1>1, <1>2, <1>3, ProceedKeeps, FailWithKeeps

(* The target of a fragment is a node of the main tree, also when it is    *)
(* found in the phandle table.                                             *)
LEMMA TargetIsInMain ==
    ASSUME OverlayInv, NEW name, ufdt_overlay_get_target(name).found
    PROVE  ufdt_overlay_get_target(name).path \in Paths(main_tree)
<1>1. ASSUME NEW phandle, ufdt_get_node_by_phandle(phandle).found
      PROVE  ufdt_get_node_by_phandle(phandle).path \in Paths(main_tree)
  <2> DEFINE entries == {entry \in phandle_table : entry.phandle = phandle}
             Holds(slot) == main_tree[slot].node \in {entry.node : entry \in entries}
  <2>1. entries # {}
    BY <1>1 DEF ufdt_get_node_by_phandle, NotFound
  <2>2. \E slot \in DOMAIN main_tree : Holds(slot)
    <3>1. PICK entry \in entries : entry \in phandle_table
      BY <2>1
    <3>2. PICK slot \in DOMAIN main_tree : main_tree[slot].node = entry.node
      BY <3>1 DEF OverlayInv, TableIsOfMain, NodesIn
    <3> QED
      BY <3>1, <3>2
  <2>3. PICK slot \in DOMAIN main_tree : slot = CHOOSE s \in DOMAIN main_tree : Holds(s)
    <3> HIDE DEF Holds
    <3> QED
      BY <2>2
  <2>4. ufdt_get_node_by_phandle(phandle) = Found(slot[1])
    BY <2>1, <2>3, Zenon DEF ufdt_get_node_by_phandle
  <2> QED
    BY <2>4 DEF Found, Paths
<1>2. ASSUME NEW path, ufdt_get_node_by_path(main_tree, path).found
      PROVE  ufdt_get_node_by_path(main_tree, path).path \in Paths(main_tree)
  BY <1>2 DEF ufdt_get_node_by_path, Found, NotFound
<1>3. ~NotFound.found
  BY DEF NotFound
<1>4. \/ \E phandle : ufdt_overlay_get_target(name) = ufdt_get_node_by_phandle(phandle)
      \/ \E path : ufdt_overlay_get_target(name) = ufdt_get_node_by_path(main_tree, path)
      \/ ufdt_overlay_get_target(name) = NotFound
  BY Zenon DEF ufdt_overlay_get_target
<1> QED
  BY <1>1, <1>2, <1>3, <1>4

LEMMA ApplyFragmentKeeps ==
    ASSUME OverlayInv, ufdt_apply_fragment
    PROVE  OverlayInv'
<1>1. PICK name, target :
         /\ pc = "fragments" /\ target = ufdt_overlay_get_target(name)
         /\ \/ /\ target.found
               /\ ufdt_node_merge_into(target.path, Overlay(name))
               /\ UNCHANGED <<fdt, buffers, multi, overlays, i, phandle_table, fdtps, pc,
                              ret, calls, applied>>
            \/ Fail /\ buffers' = buffers
  BY Zenon DEF ufdt_apply_fragment
<1>2. CASE Fail /\ buffers' = buffers
  BY <1>2, FailKeeps
<1>3. CASE /\ target.found /\ ufdt_node_merge_into(target.path, Overlay(name))
           /\ UNCHANGED <<fdt, buffers, multi, overlays, i, phandle_table, fdtps, pc,
                          ret, calls, applied>>
  <2>1. target.path \in Paths(main_tree)
    BY <1>1, <1>3, TargetIsInMain
  <2>2. TreesHaveNodes' /\ NodesIn(main_tree) \subseteq NodesIn(main_tree')
    BY <1>3, <2>1, MergeKeepsTrees DEF OverlayInv
  <2>3. nodes' \subseteq nodes
    BY <1>3 DEF ufdt_node_merge_into
  <2>4. BlobsAreTyped' /\ TableIsOfMain'
    BY <1>3, <2>2 DEF OverlayInv, BlobsAreTyped, TableIsOfMain
  <2>5. CallIsAt'
    BY <1>1, <1>3 DEF OverlayInv, CallIsAt, Applying
  <2>6. BlobsAreKnown'
    BY <1>1, <1>3, <2>3 DEF OverlayInv, BlobsAreKnown, Applying, BlobsOfTurns
  <2> QED
    BY <2>2, <2>4, <2>5, <2>6 DEF OverlayInv
<1> QED
  BY <1>1, <1>2, <1>3

(* What is left of the tree of the overlay goes back to the pool, or stays *)
(* until the call returns.                                                 *)
LEMMA EndOfFragmentsKeeps ==
    ASSUME OverlayInv, EndOfFragments
    PROVE  OverlayInv'
<1>1. /\ pc = "fragments"
      /\ UNCHANGED <<fdt, buffers, multi, overlays, main_tree, phandle_table, fdtps, ret,
                     calls, applied>>
      /\ \/ /\ nodes' = nodes \ NodesIn(overlay_tree)
            /\ overlay_tree' = NULL /\ i' = i + 1
            /\ pc' = "flatten" \/ (pc' = "overlay" /\ MoreOverlays)
         \/ pc' = "flatten" /\ UNCHANGED <<nodes, overlay_tree, i>>
  BY Zenon DEF EndOfFragments
<1>2. BlobsAreTyped' /\ TableIsOfMain'
  BY <1>1 DEF OverlayInv, BlobsAreTyped, TableIsOfMain
<1>3. TreesHaveNodes' /\ nodes' \subseteq nodes
  BY <1>1, NoTree DEF OverlayInv, TreesHaveNodes
<1>4. CallIsAt'
  <2>1. /\ overlays \in Seq(DOMAIN Overlays) /\ IsInjective(overlays)
        /\ i \in 1..Len(overlays) /\ Len(overlays) \in Nat
    BY <1>1, LenProperties DEF OverlayInv, CallIsAt, Applying
  <2>2. MoreOverlays => i + 1 \in 1..Len(overlays)
    BY <2>1 DEF MoreOverlays
  <2> QED
    BY <1>1, <2>1, <2>2 DEF CallIsAt, Applying
<1>5. BlobsAreKnown'
  <2>1. Range(fdtps) \subseteq BlobsOfTurns(i) /\ i \in Int
    BY <1>1 DEF OverlayInv, BlobsAreKnown, CallIsAt, Applying
  <2>2. pc' = "overlay" => i' - 1 = i /\ ~Applying'
    BY <1>1, <2>1 DEF Applying
  <2>3. pc' = "overlay" => Range(fdtps)' \subseteq BlobsOfTurns(i - 1)'
    BY <1>1, <2>1, <2>2 DEF BlobsOfTurns
  <2>4. ~Applying'
    BY <1>1 DEF Applying
  <2> QED
    BY <1>1, <1>3, <2>3, <2>4 DEF OverlayInv, BlobsAreKnown
<1> QED
  BY <1>2, <1>3, <1>4, <1>5 DEF OverlayInv

LEMMA ToFdtKeeps ==
    ASSUME OverlayInv, ufdt_to_fdt
    PROVE  OverlayInv'
<1>1. /\ fdt'.nodes = Flattened(main_tree)
      /\ Return(0) /\ buffers' = buffers
  BY DEF ufdt_to_fdt
<1>2. IsContent(fdt'.nodes)
  BY <1>1, FlattenedIsContent DEF OverlayInv, TreesHaveNodes
<1>3. BlobsAreTyped'
  BY <1>1, <1>2 DEF OverlayInv, BlobsAreTyped
<1> QED
  BY <1>1, <1>3, ReturnKeeps

----------------------------------------------------------------------------
(* The theorem *)

LEMMA OverlayInit == Init => OverlayInv
<1> SUFFICES ASSUME Init PROVE OverlayInv
  OBVIOUS
<1>1. BlobsAreTyped
  BY ConstantsAreTyped DEF Init, BlobsAreTyped
<1>2. TreesHaveNodes
  BY NoTree DEF Init, TreesHaveNodes
<1>3. CallIsAt /\ TableIsOfMain
  BY DEF Init, CallIsAt, TableIsOfMain, Applying
<1>4. BlobsAreKnown
  BY DEF Init, BlobsAreKnown, Applying
<1> QED
  BY <1>1, <1>2, <1>3, <1>4 DEF OverlayInv

LEMMA OverlayStep == OverlayInv /\ [Next]_vars => OverlayInv'
<1> SUFFICES ASSUME OverlayInv, [Next]_vars PROVE OverlayInv'
  OBVIOUS
<1>1. CASE \E b \in Singles : ufdt_apply_overlay(b)
  <2>1. PICK b \in Singles : Begin(<<b>>)
    BY <1>1 DEF ufdt_apply_overlay
  <2>2. PICK list : list = <<b>>
    OBVIOUS
  <2>3. b \in DOMAIN Overlays
    BY ConstantsAreTyped
  <2>4. list \in Seq(DOMAIN Overlays) /\ list # << >> /\ IsInjective(list) /\ Begin(list)
    BY <2>1, <2>2, <2>3 DEF IsInjective
  <2> QED
    BY <2>4, BeginKeeps
<1>2. CASE \E list \in Lists : ufdt_apply_multioverlay(list)
  <2>1. PICK list \in Lists : Begin(list)
    BY <1>2 DEF ufdt_apply_multioverlay
  <2>2. list \in Seq(DOMAIN Overlays) /\ list # << >> /\ IsInjective(list)
    BY ConstantsAreTyped
  <2> QED
    BY <2>1, <2>2, BeginKeeps
<1>3. CASE Refused \/ UNCHANGED vars
  <2>1. /\ fdt' = fdt /\ buffers' = buffers /\ overlays' = overlays /\ i' = i
        /\ main_tree' = main_tree /\ overlay_tree' = overlay_tree
        /\ phandle_table' = phandle_table /\ fdtps' = fdtps /\ nodes' = nodes /\ pc' = pc
    BY <1>3 DEF Refused, vars
  <2> QED
    BY <2>1 DEF OverlayInv, BlobsAreTyped, CallIsAt, TreesHaveNodes, BlobsAreKnown,
                TableIsOfMain, Applying, BlobsOfTurns
<1>4. CASE NoRoom
  BY <1>4, FailKeeps DEF NoRoom
<1>5. CASE NextOverlay
  BY <1>5, NextOverlayKeeps
<1>6. CASE ufdt_overlay_local_ref_update
  BY <1>6, LocalRefUpdateKeeps
<1>7. CASE ufdt_overlay_do_fixups
  BY <1>7, DoFixupsKeeps
<1>8. CASE ufdt_apply_fragment
  BY <1>8, ApplyFragmentKeeps
<1>9. CASE EndOfFragments
  BY <1>9, EndOfFragmentsKeeps
<1>10. CASE ufdt_to_fdt
  BY <1>10, ToFdtKeeps
<1> QED
  BY <1>1, <1>2, <1>3, <1>4, <1>5, <1>6, <1>7, <1>8, <1>9, <1>10, Zenon DEF Next

LEMMA OverlayInvHolds == Spec => []OverlayInv
  BY OverlayInit, OverlayStep, PTL DEF Spec

(* Between any two steps every node of the pool is in one slot of one      *)
(* tree, none is left when a call has returned, lookups deliver nodes of   *)
(* the main tree only, and the string table of each blob that has nodes in *)
(* it is known: nothing is freed twice or lost, however often fragments    *)
(* move nodes and whichever step fails (ufdt_node.c:219-270,               *)
(* ufdt_overlay.c:372-430, :642-800).                                      *)
THEOREM TreesStaySound == Spec => []TreesAreSound
<1>1. OverlayInv => TreesAreSound
  <2> SUFFICES ASSUME OverlayInv PROVE TreesAreSound
    OBVIOUS
  <2>1. PICK M, O : M = NodesIn(main_tree) /\ O = NodesIn(overlay_tree)
    OBVIOUS
  <2>2. /\ IsFiniteSet(M) /\ Cardinality(M) = Cardinality(DOMAIN main_tree)
        /\ IsFiniteSet(O) /\ Cardinality(O) = Cardinality(DOMAIN overlay_tree)
        /\ nodes = M \cup O /\ M \cap O = {}
    BY <2>1, NodesAreCounted DEF OverlayInv, TreesHaveNodes
  <2>3. Cardinality(M \cup O) = Cardinality(M) + Cardinality(O)
    <3>1. PICK a, b, c : a = Cardinality(M) /\ b = Cardinality(O) /\ c = Cardinality(M \cap O)
      OBVIOUS
    <3>2. c = 0
      BY <2>2, <3>1, FS_EmptySet
    <3>3. a \in Nat /\ b \in Nat
      BY <2>2, <3>1, FS_CardinalityType
    <3>4. Cardinality(M \cup O) = a + b - c
      BY <2>2, <3>1, FS_Union
    <3>5. a + b - c = a + b
      BY <3>2, <3>3
    <3> QED
      BY <3>1, <3>4, <3>5, Zenon
  <2>4. NodesHaveOnePlace
    BY <2>1, <2>2, <2>3 DEF NodesHaveOnePlace
  <2>5. MainTreeIsWhole
    BY <2>1, <2>2 DEF MainTreeIsWhole, OverlayInv, TableIsOfMain, BlobsAreKnown
  <2> QED
    BY <2>4, <2>5 DEF TreesAreSound
<1> QED
  BY <1>1, OverlayInvHolds, PTL
=============================================================================
