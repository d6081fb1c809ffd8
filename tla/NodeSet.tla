-------------------------------- MODULE NodeSet --------------------------------
(***************************************************************************)
(* What libufdt's node pool promises: a set of nodes, to which an          *)
(* allocation adds one that was not in it and from which a release takes   *)
(* the one it was given, so that the pool and its clients agree on which   *)
(* nodes are in use.                                                       *)
(***************************************************************************)
CONSTANT Nodes  \* the nodes there can be

VARIABLES
    live,   \* those the pool has given out
    held    \* those that clients have

vars == <<live, held>>

Init == live = {} /\ held = {}

Allocate ==
    \E n \in Nodes \ live :
        /\ live' = live \cup {n}
        /\ held' = held \cup {n}

Release ==
    \E n \in held :
        /\ live' = live \ {n}
        /\ held' = held \ {n}

(* Destroying the pool takes whatever nodes are left with it. *)
Destroy == live' = {} /\ held' = {}

Next == Allocate \/ Release \/ Destroy

Spec == Init /\ [][Next]_vars
=============================================================================
