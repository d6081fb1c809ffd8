------------------------------ MODULE TreeWriter ------------------------------
(***************************************************************************)
(* What the sequential write interface of libfdt promises: between         *)
(* fdt_create and fdt_finish, reservations and then the pieces of a tree   *)
(* are appended one by one, and nothing that was appended is lost, altered *)
(* or reordered, whatever calls fail and whatever buffers the blob is      *)
(* moved through.                                                          *)
(***************************************************************************)
EXTENDS Sequences, SequencesExt

CONSTANTS Reservations, Names, PropNames, Values

VARIABLES
    stage,     \* "none", "memrsv", "struct" or "complete"
    reserved,  \* the memory reservations
    pieces     \* the pieces of the tree, in the order they were written

vars == <<stage, reserved, pieces>>

BeginNode(name)       == [tag |-> "BEGIN_NODE", name |-> name, value |-> << >>]
EndNode               == [tag |-> "END_NODE", name |-> << >>, value |-> << >>]
Property(name, value) == [tag |-> "PROP", name |-> name, value |-> value]

Init == stage = "none" /\ reserved = << >> /\ pieces = << >>

(* A buffer may be used again at any time. *)
Create == stage' = "memrsv" /\ reserved' = << >> /\ pieces' = << >>

Reserve(r) ==
    /\ stage = "memrsv"
    /\ reserved' = Append(reserved, r)
    /\ UNCHANGED <<stage, pieces>>

FinishReservations ==
    /\ stage = "memrsv"
    /\ stage' = "struct"
    /\ UNCHANGED <<reserved, pieces>>

Pieces ==
    {BeginNode(n) : n \in Names} \cup {EndNode}
        \cup {Property(n, v) : n \in PropNames, v \in Values}

Write ==
    /\ stage = "struct"
    /\ pieces' # << >> /\ Front(pieces') = pieces /\ Last(pieces') \in Pieces
    /\ UNCHANGED <<stage, reserved>>

Finish ==
    /\ stage = "struct"
    /\ stage' = "complete"
    /\ UNCHANGED <<reserved, pieces>>

Next ==
    \/ Create
    \/ \E r \in Reservations : Reserve(r)
    \/ FinishReservations
    \/ Write
    \/ Finish

Spec == Init /\ [][Next]_vars
=============================================================================
