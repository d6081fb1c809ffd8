-------------------------------- MODULE MCGetDt --------------------------------
(***************************************************************************)
(* Small instances of GetDt: an image of at most three blobs of 2 or 3     *)
(* addresses each, in every order, and a heap with room for two results.   *)
(***************************************************************************)
EXTENDS GetDt, TLC

B(t, n) == [type |-> t, size |-> n]
Base == B("BASE_DTB", 3)
Soc  == B("SOC_DTBO", 2)
Plat == B("PLATFORM_DTBO", 2)

Triple(x, y, z) ==
    (Start :> x) @@ (Start + x.size :> y) @@ (Start + x.size + y.size :> z)
MCImages ==
    {Triple(Base, Soc, Plat), Triple(Soc, Base, Plat), Triple(Plat, Soc, Base),
     Triple(Soc, Plat, B("SOC_DTBO", 3)), (Start :> Base), [a \in {} |-> Base]}

MCBuilds == {<<"XBL", "POST">>, <<"XBL", "PRE">>, <<"UEFI", "POST">>}
MCPre    == {<<"XBL", "PRE">>}
=============================================================================
