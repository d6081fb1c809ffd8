------------------------------ MODULE MCDtSelect ------------------------------
(***************************************************************************)
(* Small instances of DtSelect.  Blobs are laid out from a catalogue of    *)
(* entries that differ in what the selection compares; the images are the  *)
(* sequences of up to three of them, of base DTBs and overlays of one kind *)
(* that compete, or of entries of every kind some of which have faults.    *)
(***************************************************************************)
EXTENDS DtSelect

CONSTANTS proc,      \* the one compatible string
          extra      \* the one property a client may list

MCPrefixes == {proc}
MCPropNames == {extra}
MCPropValues == {1, 2}

(* The device: family 1, chip 1 version 1.1, board type 1, subtype 1,      *)
(* version 1.0, OEM variant 1.                                             *)
Device ==
    [chip_family |-> 1, chip_id |-> 1, chip_maj_version |-> 1, chip_min_version |-> 1,
     platform_type |-> 1, platform_subtype |-> 1,
     platform_maj_version |-> 1, platform_min_version |-> 0,
     oem_var |-> 1,
     starts_with |-> [t \in BlobType |-> NULL],
     prop_list |-> NULL, prop_num_entries |-> 0]

Picky ==
    [Device EXCEPT
        !.starts_with = [BASE_DTB |-> EmptyString, SOC_DTBO |-> proc, PLATFORM_DTBO |-> NULL],
        !.prop_list = {<<extra, 1>>}, !.prop_num_entries = 1]

Inconsistent == [Device EXCEPT !.prop_num_entries = 1]

Chip(id, major, minor) == [family |-> 1, id |-> id, major |-> major, minor |-> minor]
Other == [family |-> 2, id |-> 1, major |-> 1, minor |-> 0]
Board(subtype, major) == [type |-> 1, subtype |-> subtype, major |-> major, minor |-> 0]

(* A base DTB that every request accepts. *)
BaseDtb ==
    [size |-> 2, board_id |-> TRUE, chip_info |-> <<Chip(0, 1, 0)>>,
     is_overlay |-> "absent", board_info |-> Absent,
     proc_name |-> {proc}, oem_var |-> Absent,
     props |-> [p \in MCPropNames |-> {1, 2}], prints |-> TRUE]

Soc(chip) == [BaseDtb EXCEPT !.is_overlay = "present", !.chip_info = <<chip>>]

Plat(chip, board) == [Soc(chip) EXCEPT !.board_info = <<board>>]

(* Entries that compete for the same place, and entries that must lose. *)
BaseCatalogue ==
    {BaseDtb, [BaseDtb EXCEPT !.size = 4],
     [BaseDtb EXCEPT !.chip_info = <<Other, Chip(0, 1, 0), Chip(1, 1, 1)>>],
     [BaseDtb EXCEPT !.chip_info = <<Other>>]}

SocCatalogue ==
    {Soc(Chip(0, 1, 1)), Soc(Chip(0, 1, 0)), Soc(Chip(1, 1, 0)), Soc(Chip(1, 1, 1)),
     Soc(Chip(2, 1, 0)), Soc(Chip(1, 2, 0)),
     [Soc(Chip(1, 1, 1)) EXCEPT !.proc_name = {}]}

PlatCatalogue ==
    {Plat(Chip(0, 1, 0), Board(0, 1)), Plat(Chip(1, 1, 1), Board(0, 1)),
     Plat(Chip(0, 1, 1), Board(1, 0)), Plat(Chip(0, 1, 0), Board(1, 1)),
     Plat(Chip(1, 1, 0), Board(2, 1)),
     [Plat(Chip(1, 1, 1), Board(1, 1)) EXCEPT !.oem_var = {1, 2}],
     [Plat(Chip(1, 1, 0), Board(1, 1)) EXCEPT !.oem_var = {2}]}

(* Entries the checks of headers, sizes, properties and memory tell apart, *)
(* with entries for all three places among them.                           *)
FaultCatalogue ==
    {BadMagic, BadHeader,
     BaseDtb, [BaseDtb EXCEPT !.size = 3],
     [BaseDtb EXCEPT !.board_id = FALSE], [BaseDtb EXCEPT !.prints = FALSE],
     [BaseDtb EXCEPT !.chip_info = << >>], [BaseDtb EXCEPT !.chip_info = Malformed],
     [BaseDtb EXCEPT !.is_overlay = "malformed"],
     [BaseDtb EXCEPT !.proc_name = Absent, !.props = [p \in MCPropNames |-> {2}]],
     Soc(Chip(1, 1, 0)),
     [Plat(Chip(1, 1, 1), Board(1, 1)) EXCEPT !.oem_var = {1}],
     Plat(Chip(0, 1, 1), Board(1, 1)),
     [Plat(Chip(1, 1, 1), Board(1, 1)) EXCEPT !.oem_var = Malformed],
     [Plat(Chip(1, 1, 1), Board(1, 1)) EXCEPT !.board_info = << >>]}

(* Bytes without a header are taken to fill two addresses. *)
SizeOf(b) == IF b \in {BadMagic, BadHeader} THEN 2 ELSE b.size

(* The first address of the k-th entry of s. *)
AddressOf(s, k) ==
    Start + (IF k > 1 THEN SizeOf(s[1]) ELSE 0) + (IF k > 2 THEN SizeOf(s[2]) ELSE 0)

Layout(s) ==
    [a \in {AddressOf(s, k) : k \in DOMAIN s} |->
        s[CHOOSE k \in DOMAIN s : AddressOf(s, k) = a]]

LayoutsOf(catalogue, n) == {Layout(s) : s \in UNION {[1..k -> catalogue] : k \in 1..n}}

RankImages  == LayoutsOf(BaseCatalogue \cup SocCatalogue, 3)
               \cup LayoutsOf(BaseCatalogue \cup PlatCatalogue, 3)
FaultImages == LayoutsOf(FaultCatalogue, 3)
AllImages   == RankImages \cup FaultImages

AllRequests == {Device, Picky, Inconsistent}
=============================================================================
