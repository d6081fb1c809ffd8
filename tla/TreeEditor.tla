----------------------------- MODULE TreeEditor -----------------------------
(***************************************************************************)
(* What the read-write interface of libfdt promises: a device tree that is *)
(* changed in memory, one node, property or reservation at a time, and     *)
(* nothing else with it, whatever room there is in the buffer, wherever    *)
(* the blob is moved, and whether what is taken out is overwritten or cut  *)
(* out.  A call that fails changes nothing.                                *)
(*                                                                         *)
(* The tree is the sequence of its pieces, as TreeWriter writes them.      *)
(***************************************************************************)
EXTENDS Integers, Sequences, SequencesExt, FiniteSetsExt

CONSTANTS Reservations, Names, PropNames, Values

VARIABLES
    reserved,  \* the memory reservations
    pieces     \* the pieces of the tree, in structure order

BeginNode(name)       == [tag |-> "BEGIN_NODE", name |-> name, value |-> << >>]
EndNode               == [tag |-> "END_NODE", name |-> << >>, value |-> << >>]
Property(name, value) == [tag |-> "PROP", name |-> name, value |-> value]

EmptyTree == <<BeginNode(<< >>), EndNode>>

----------------------------------------------------------------------------
(* A node is the place of its first piece in tree t. *)

NodesOf(t) == {p \in DOMAIN t : t[p].tag = "BEGIN_NODE"}

Level(t, p) ==
    Cardinality({q \in 1..p : t[q].tag = "BEGIN_NODE"})
        - Cardinality({q \in 1..p : t[q].tag = "END_NODE"})

(* Its last piece *)
EndOf(t, n) ==
    CHOOSE e \in n..Len(t) :
        Level(t, e) < Level(t, n) /\ \A q \in n..(e - 1) : Level(t, q) >= Level(t, n)

(* The places of its properties, which come before its subnodes, and of    *)
(* the one with a name, or none                                            *)
PropsOf(t, n) ==
    {p \in (n + 1)..EndOf(t, n) : \A q \in (n + 1)..p : t[q].tag = "PROP"}

Named(t, n, name) ==
    LET named == {p \in PropsOf(t, n) : t[p].name = name}
    IN  {p \in named : \A q \in named : p <= q}

SubnodesOf(t, n) ==
    {p \in NodesOf(t) : n < p /\ p < EndOf(t, n) /\ Level(t, p) = Level(t, n) + 1}

Without(t, from, to) == SubSeq(t, 1, from - 1) \o SubSeq(t, to + 1, Len(t))

Inserted(t, at, new) == SubSeq(t, 1, at) \o new \o SubSeq(t, at + 1, Len(t))

----------------------------------------------------------------------------
(* What one call makes of a tree *)

Added(t) ==
    LET New(n) == {name \in Names : \A p \in SubnodesOf(t, n) : t[p].name # name}
        With(n, name) == Inserted(t, n + Cardinality(PropsOf(t, n)),
                                  <<BeginNode(name), EndNode>>)
    IN  UNION {{With(n, name) : name \in New(n)} : n \in NodesOf(t)}

Deleted(t) ==
    {Without(t, n, EndOf(t, n)) : n \in NodesOf(t)}
        \cup {Without(t, p, p) : p \in UNION {Named(t, n, name) : n \in NodesOf(t), name \in PropNames}}

Renamed(t) == {[t EXCEPT ![n].name = name] : n \in NodesOf(t), name \in Names}

(* A property that is not there becomes the first of its node. *)
SetTo(t, n, name, Value(_)) ==
    IF Named(t, n, name) = {} THEN Inserted(t, n, <<Property(name, Value(<< >>))>>)
    ELSE [t EXCEPT ![CHOOSE p \in Named(t, n, name) : TRUE].value = Value(@)]

Set(t) ==
    {SetTo(t, n, name, LAMBDA old : value) :
        n \in NodesOf(t), name \in PropNames, value \in Values}
    \cup {SetTo(t, n, name, LAMBDA old : old \o value) :
        n \in NodesOf(t), name \in PropNames, value \in Values}

----------------------------------------------------------------------------
(* A whole tree, or none yet *)
Init == pieces # << >> => Level(pieces, Len(pieces)) = 0

Create == pieces = << >> /\ pieces' = EmptyTree /\ reserved' = << >>

Reserve ==
    /\ \E r \in Reservations : reserved' = Append(reserved, r)
    /\ UNCHANGED pieces

Unreserve ==
    /\ \E k \in DOMAIN reserved : reserved' = Without(reserved, k, k)
    /\ UNCHANGED pieces

Edit ==
    /\ \E t \in {pieces}, u \in {pieces'} \ {pieces} :
        u \in Added(t) \/ u \in Deleted(t) \/ u \in Renamed(t) \/ u \in Set(t)
    /\ UNCHANGED reserved

Next == Create \/ Reserve \/ Unreserve \/ Edit

Spec == Init /\ [][Next]_<<reserved, pieces>>
=============================================================================
