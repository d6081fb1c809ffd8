------------------------------ MODULE MCDtbCache ------------------------------
(***************************************************************************)
(* Small instances of DtbCache: two addresses and three images, two of     *)
(* them device trees that hold the same nodes at different offsets.        *)
(***************************************************************************)
EXTENDS DtbCache, TLC

N(path, phandle, config) == [path |-> path, phandle |-> phandle, config |-> config]
Root == N(<< >>, 0, 0)

MCStem == [n \in {"sw", "boot", "uart", "uart@1", "uart@2", "none", "aliases"} |->
              IF n \in {"uart@1", "uart@2"} THEN "uart" ELSE n]

SwBoot == Spelled(<<"sw", "boot">>)

Small  == <<Root, N(<<"sw">>, 0, 0), N(<<"sw", "boot">>, 1, 1), N(<<"uart@2">>, 3, 0)>>
Merged == <<Root, N(<<"uart@1">>, 1, 0), N(<<"uart@2">>, 2, 0),
            N(<<"uart@2", "boot">>, 0, 0), N(<<"aliases">>, 0, 0),
            N(<<"sw">>, 3, 0), N(<<"sw", "boot">>, 0, 2)>>

MCTrees == {Invalid, Small, Merged}

MCValidTrees == MCTrees \ {Invalid}

(* Of a node that the table finds, and of one that it does not *)
MCAliases == [serial |-> Spelled(<<"uart@2">>), any |-> Spelled(<<"uart">>)]

Symmetry == Permutations(Blobs)

(* Every path of the trees, a name without unit address, and missing nodes *)
Plain ==
    {Spelled(names) : names \in
        {<< >>, <<"sw">>, <<"sw", "boot">>, <<"uart">>, <<"uart", "boot">>, <<"uart@1">>,
         <<"uart@2">>, <<"uart@2", "boot">>, <<"none">>, <<"sw", "uart">>}}

(* Paths through an alias or with slashes too many *)
Odd ==
    {<<"serial">>, <<"serial", SLASH, "boot">>, <<"any", SLASH, "boot">>, <<"none">>,
     <<SLASH, SLASH>>, <<SLASH, "sw", SLASH>>, <<SLASH, SLASH, "sw">>,
     <<SLASH, SLASH, "uart">>, <<"serial", SLASH>>}

MCQueries == Plain \cup Odd

MCHash == [p \in MCQueries \cup {Spelled(<<"aliases">>)} |-> p]
=============================================================================
