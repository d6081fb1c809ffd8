------------------------------- MODULE DtSelect -------------------------------
(***************************************************************************)
(* The device-tree selection algorithm of libs/DTSelectLib/dt_select.c:    *)
(* dt_select_open walks the blobs appended in an image, one header after   *)
(* the other, and keeps the best base DTB, SOC DTBO and platform DTBO seen *)
(* so far; dt_select_read_blob hands the chosen blobs out and              *)
(* dt_select_close frees the handle.                                       *)
(*                                                                         *)
(* One step of the walk is one turn of the while loop of                   *)
(* _select_dtb_and_dtbos.  A header is what fdt_check_header and the       *)
(* property getters see at an address: a record of the properties of the   *)
(* blob's /board-id/ node, or a marker for bytes that are no header.       *)
(***************************************************************************)
EXTENDS Integers, Sequences, FiniteSets

CONSTANTS
    Images,          \* the possible contents of memory: functions from addresses
                     \*   to Blob or to one of the two markers below
    Requests,        \* the possible chip_plat_info_property and property lists
    ImageSizes,      \* the possible values of dtbs_image_size (0: not given)
    Start,           \* dtbs_image_start_address
    Align,           \* alignment fdt_check_header asks of a header (8 bytes)
    PtrLimit,        \* number of addresses: pointers wrap at this value
    ChipShift,       \* 2^16, the shift of the chip-info major version
    PlatShift,       \* 2^8, the shift of the board-info major version
    MallocFails,     \* whether MALLOC_WRAPPER may return NULL for a size > 0
    Prefixes,        \* compatible strings a client may ask for
    PropNames, PropValues,   \* properties of a client's property list
    BadMagic,        \* marker: bytes without the FDT magic number
    BadHeader,       \* marker: the magic number, then inconsistent fields
    Absent,          \* a property that the node does not have
    Malformed,       \* a property whose length is not a multiple of its element
    EmptyString,     \* a compatible string of length 0
    NULL             \* the null pointer

----------------------------------------------------------------------------
(* Data *)

BlobType == {"BASE_DTB", "SOC_DTBO", "PLATFORM_DTBO"}

(* A version field fills exactly the bits the shift makes room for. *)
ChipInfo ==
    [family : Nat, id : Nat, major : 0..(ChipShift - 1), minor : 0..(ChipShift - 1)]
PlatInfo ==
    [type : Nat, subtype : Nat, major : 0..(PlatShift - 1), minor : 0..(PlatShift - 1)]

(* What the walk can observe of one blob.  proc_name holds the prefixes    *)
(* that at least one string of the list starts with; prints is FALSE when  *)
(* _print_board_id meets a value it cannot cut into whole elements.        *)
Blob ==
    [size       : Nat \ {0},
     board_id   : BOOLEAN,
     chip_info  : {Absent, Malformed} \cup Seq(ChipInfo),
     is_overlay : {"absent", "present", "malformed"},
     board_info : {Absent, Malformed} \cup Seq(PlatInfo),
     proc_name  : {Absent} \cup SUBSET Prefixes,
     oem_var    : {Absent, Malformed} \cup SUBSET Nat,
     props      : [PropNames -> SUBSET PropValues],
     prints     : BOOLEAN]

Request ==
    [chip_family : Nat, chip_id : Nat,
     chip_maj_version : 0..(ChipShift - 1), chip_min_version : 0..(ChipShift - 1),
     platform_type : Nat, platform_subtype : Nat,
     platform_maj_version : 0..(PlatShift - 1), platform_min_version : 0..(PlatShift - 1),
     oem_var : Nat,
     starts_with : [BlobType -> {NULL, EmptyString} \cup Prefixes],
     prop_list : {NULL} \cup SUBSET (PropNames \X PropValues),
     prop_num_entries : Nat]

ASSUME ConstantsAreTyped ==
    /\ Start \in Nat \ {0}
    /\ Align \in Nat \ {0}
    /\ PtrLimit \in Nat /\ Start < PtrLimit
    /\ ChipShift \in Nat \ {0} /\ PlatShift \in Nat \ {0}
    /\ MallocFails \in BOOLEAN
    /\ ImageSizes \subseteq Nat
    /\ Requests \subseteq Request
    /\ \A m \in Images : \A a \in DOMAIN m :
          a \in Nat /\ m[a] \in {BadMagic, BadHeader} \cup Blob

VARIABLES
    memory,          \* the image
    request,         \* Input_chip_plat_info_prop, Input_prop_list
    dtbs_image_size, \* the size of the image, or 0
    pc,              \* "closed", "walking" (inside dt_select_open) or "open"
    fdtheader,       \* the address the walk has reached
    handle,          \* struct handle_data, or NULL
    soc_dtbo_selected, platform_dtbo_selected,  \* struct handle_selected_dtbo
    status,          \* what the last call returned
    delivered,       \* the blob the last successful read handed out, or NULL
    examined,        \* history: the addresses of the blobs walked over
    passed_over      \* history: those skipped because an allocation failed

vars == <<memory, request, dtbs_image_size, pc, fdtheader, handle,
          soc_dtbo_selected, platform_dtbo_selected, status, delivered,
          examined, passed_over>>

inputs == <<memory, request, dtbs_image_size>>

----------------------------------------------------------------------------
(* Headers and addresses *)

Contents(m, a) == IF a \in DOMAIN m THEN m[a] ELSE BadMagic

(* fdt_check_header: alignment first, then the magic, then the rest. *)
fdt_check_header(m, a) ==
    IF a % Align # 0 THEN "ALIGNMENT"
    ELSE IF Contents(m, a) = BadMagic THEN "BADMAGIC"
    ELSE IF Contents(m, a) = BadHeader THEN "TRUNCATED"
    ELSE "SUCCESS"

(* Unsigned pointer addition wraps; it is safe when the sum did not. *)
SafeToAdd(p, n) == (p + n) % PtrLimit >= p

InImage(a, size) == Start <= a /\ a < Start + size

(* The walk is over: past the given size, or on bytes without the magic    *)
(* number when no size was given.                                          *)
EndOfImage(m, a, size) ==
    IF size # 0 THEN SafeToAdd(Start, size) /\ ~InImage(a, size)
    ELSE fdt_check_header(m, a) = "BADMAGIC"

(* Mutated form of HeaderStatus: only the first byte of the blob is        *)
(* checked against the image.                                              *)
HeaderStatus_FirstByteOnly(m, a, size) ==
    IF size # 0 /\ ~SafeToAdd(Start, size) THEN "POINTER_ARITHMETIC_OVERFLOW"
    ELSE IF fdt_check_header(m, a) # "SUCCESS" THEN fdt_check_header(m, a)
    ELSE IF ~SafeToAdd(a, m[a].size) THEN "POINTER_ARITHMETIC_OVERFLOW"
    ELSE "SUCCESS"

(* The status _is_fdtheader_at_end_of_image returns when it is not.  With  *)
(* no size given, only the arithmetic can be checked.                      *)
HeaderStatus(m, a, size) ==
    IF size # 0 /\ ~SafeToAdd(Start, size) THEN "POINTER_ARITHMETIC_OVERFLOW"
    ELSE IF fdt_check_header(m, a) # "SUCCESS" THEN fdt_check_header(m, a)
    ELSE IF ~SafeToAdd(a, m[a].size) THEN "POINTER_ARITHMETIC_OVERFLOW"
    ELSE IF size # 0 /\ ~InImage(a + m[a].size - 1, size) THEN "INVALID_BLOB_ENTRY"
    ELSE "SUCCESS"

----------------------------------------------------------------------------
(* Candidacy: what every entry must satisfy, whatever its type *)

FamilyMatches(b, r) ==
    /\ b.chip_info \notin {Absent, Malformed}
    /\ \E k \in DOMAIN b.chip_info : b.chip_info[k].family = r.chip_family

(* The first entry of the chip-info list with the device's family. *)
DT_chipinfo_selected(b, r) ==
    b.chip_info[CHOOSE k \in DOMAIN b.chip_info :
                  /\ b.chip_info[k].family = r.chip_family
                  /\ \A j \in DOMAIN b.chip_info :
                        b.chip_info[j].family = r.chip_family => k <= j]

PlatformTypeMatches(b, r) ==
    \E k \in DOMAIN b.board_info : b.board_info[k].type = r.platform_type

(* The first entry of the board-info list with the device's type. *)
DT_platforminfo_selected(b, r) ==
    b.board_info[CHOOSE k \in DOMAIN b.board_info :
                   /\ b.board_info[k].type = r.platform_type
                   /\ \A j \in DOMAIN b.board_info :
                         b.board_info[j].type = r.platform_type => k <= j]

device_tree_type(b) ==
    IF b.is_overlay = "absent" THEN "BASE_DTB"
    ELSE IF b.board_info = Absent THEN "SOC_DTBO"
    ELSE "PLATFORM_DTBO"

BlobTypeIdentified(b, r) ==
    \/ b.is_overlay = "absent"
    \/ /\ b.is_overlay = "present"
       /\ \/ b.board_info = Absent
          \/ b.board_info \notin {Absent, Malformed} /\ PlatformTypeMatches(b, r)

(* A NULL string asks for nothing; an empty one only that the property be  *)
(* there; another one that some string of the list start with it.          *)
CompatibleStringMatches(b, r) ==
    LET wanted == r.starts_with[device_tree_type(b)]
    IN  \/ wanted = NULL
        \/ /\ b.proc_name # Absent
           /\ wanted = EmptyString \/ wanted \in b.proc_name

PropertyListMatches(b, r) ==
    r.prop_list # NULL => \A p \in r.prop_list : p[2] \in b.props[p[1]]

IsCandidate(b, r) ==
    /\ FamilyMatches(b, r)
    /\ BlobTypeIdentified(b, r)
    /\ CompatibleStringMatches(b, r)
    /\ PropertyListMatches(b, r)

(* Some MALLOC_WRAPPER call of the candidacy check may return NULL.  The   *)
(* first copies chip-info, so an allocation is made as soon as that        *)
(* property is well formed; an empty list asks for 0 bytes, for which C    *)
(* lets malloc return NULL.                                                *)
CandidacyMallocMayFail(b, r) ==
    /\ b.chip_info \notin {Absent, Malformed}
    /\ \/ MallocFails
       \/ b.chip_info = << >>
       \/ FamilyMatches(b, r) /\ b.is_overlay = "present" /\ b.board_info = << >>

----------------------------------------------------------------------------
(* Ranking *)

(* CALCULATE_CHIP_PLAT_INFO_VERSION: the minor version fills the bits the  *)
(* shift leaves free, so the bitwise or is an addition.                    *)
VersionCalc(major, minor, shift) == major * shift + minor

ChipVersion(b, r) ==
    LET c == DT_chipinfo_selected(b, r) IN VersionCalc(c.major, c.minor, ChipShift)

PlatVersion(b, r) ==
    LET p == DT_platforminfo_selected(b, r) IN VersionCalc(p.major, p.minor, PlatShift)

InputChipVersion(r) ==
    VersionCalc(r.chip_maj_version, r.chip_min_version, ChipShift)

InputPlatVersion(r) ==
    VersionCalc(r.platform_maj_version, r.platform_min_version, PlatShift)

NotMasked(field) == IF field # 0 THEN 1 ELSE 0

(* What _validate_and_select_soc_dtbo stores of an entry it selects. *)
SocScore(b, r) ==
    [rank |-> NotMasked(DT_chipinfo_selected(b, r).id),
     chipinfo_version_calc |-> ChipVersion(b, r)]

(* What _validate_and_select_platform_dtbo stores of an entry it selects:  *)
(* the subtype weighs more than the chip id.                               *)
PlatScore(b, r) ==
    [rank |-> 2 * NotMasked(DT_platforminfo_selected(b, r).subtype)
                + NotMasked(DT_chipinfo_selected(b, r).id),
     platforminfo_version_calc |-> PlatVersion(b, r),
     chipinfo_version_calc |-> ChipVersion(b, r)]

(* _init_handle_selected_dtb_dtbo *)
NoSocScore  == [rank |-> -1, chipinfo_version_calc |-> 0]
NoPlatScore == [rank |-> -1, platforminfo_version_calc |-> 0,
                chipinfo_version_calc |-> 0]

(* Mutated forms of SocBeats: a later entry wins a tie; the version counts  *)
(* whatever the rank.                                                      *)
SocBeats_LastWins(current, selected) ==
    \/ current.rank > selected.rank
    \/ /\ current.rank = selected.rank
       /\ current.chipinfo_version_calc >= selected.chipinfo_version_calc

SocBeats_VersionFirst(current, selected) ==
    \/ current.chipinfo_version_calc > selected.chipinfo_version_calc
    \/ current.rank > selected.rank

SocBeats(current, selected) ==
    \/ current.rank > selected.rank
    \/ /\ current.rank = selected.rank
       /\ current.chipinfo_version_calc > selected.chipinfo_version_calc

(* Mutated form of PlatBeats: the chip version is compared before the      *)
(* board's.                                                                *)
PlatBeats_ChipFirst(current, selected) ==
    \/ current.rank > selected.rank
    \/ /\ current.rank = selected.rank
       /\ \/ current.chipinfo_version_calc > selected.chipinfo_version_calc
          \/ /\ current.chipinfo_version_calc = selected.chipinfo_version_calc
             /\ current.platforminfo_version_calc > selected.platforminfo_version_calc

PlatBeats(current, selected) ==
    \/ current.rank > selected.rank
    \/ /\ current.rank = selected.rank
       /\ \/ current.platforminfo_version_calc > selected.platforminfo_version_calc
          \/ /\ current.platforminfo_version_calc = selected.platforminfo_version_calc
             /\ current.chipinfo_version_calc > selected.chipinfo_version_calc

MaskedOrEqual(field, wanted) == field = 0 \/ field = wanted

BaseIsEligible(b, r) ==
    LET c == DT_chipinfo_selected(b, r)
    IN  c.id = 0 /\ c.major = 1 /\ c.minor = 0

SocIsEligible(b, r) ==
    /\ MaskedOrEqual(DT_chipinfo_selected(b, r).id, r.chip_id)
    /\ ChipVersion(b, r) <= InputChipVersion(r)

OemVariantMatches(b, r) ==
    \/ b.oem_var = Absent
    \/ b.oem_var \notin {Absent, Malformed} /\ r.oem_var \in b.oem_var

PlatIsEligible(b, r) ==
    /\ OemVariantMatches(b, r)
    /\ MaskedOrEqual(DT_platforminfo_selected(b, r).subtype, r.platform_subtype)
    /\ MaskedOrEqual(DT_chipinfo_selected(b, r).id, r.chip_id)
    /\ PlatVersion(b, r) <= InputPlatVersion(r)
    /\ ChipVersion(b, r) <= InputChipVersion(r)

----------------------------------------------------------------------------
(* The handle *)

(* _init_handle_data; an address of 0 means that nothing is selected. *)
EmptyHandle ==
    [base_dtb_ptr  |-> 0, base_dtb_size  |-> 0,
     soc_dtbo_ptr  |-> 0, soc_dtbo_size  |-> 0,
     plat_dtbo_ptr |-> 0, plat_dtbo_size |-> 0]

(* Mutated form of Selected: the two overlays are exchanged. *)
Selected_Swapped(h, type) ==
    CASE type = "BASE_DTB"      -> [ptr |-> h.base_dtb_ptr,  size |-> h.base_dtb_size]
      [] type = "SOC_DTBO"      -> [ptr |-> h.plat_dtbo_ptr, size |-> h.plat_dtbo_size]
      [] type = "PLATFORM_DTBO" -> [ptr |-> h.soc_dtbo_ptr,  size |-> h.soc_dtbo_size]

Selected(h, type) ==
    CASE type = "BASE_DTB"      -> [ptr |-> h.base_dtb_ptr,  size |-> h.base_dtb_size]
      [] type = "SOC_DTBO"      -> [ptr |-> h.soc_dtbo_ptr,  size |-> h.soc_dtbo_size]
      [] type = "PLATFORM_DTBO" -> [ptr |-> h.plat_dtbo_ptr, size |-> h.plat_dtbo_size]

Selections(h) == {a \in {h.base_dtb_ptr, h.soc_dtbo_ptr, h.plat_dtbo_ptr} : a # 0}

Init ==
    /\ memory \in Images
    /\ request \in Requests
    /\ dtbs_image_size \in ImageSizes
    /\ pc = "closed"
    /\ fdtheader = 0
    /\ handle = NULL
    /\ soc_dtbo_selected = NoSocScore
    /\ platform_dtbo_selected = NoPlatScore
    /\ status = "SUCCESS"
    /\ delivered = NULL
    /\ examined = {}
    /\ passed_over = {}

ParametersAreConsistent(r) == (r.prop_list = NULL) <=> (r.prop_num_entries = 0)

(* dt_select_open up to the first turn of the loop. *)
Open ==
    /\ pc = "closed"
    /\ ParametersAreConsistent(request)
    /\ pc' = "walking"
    /\ fdtheader' = Start
    /\ handle' = EmptyHandle
    /\ soc_dtbo_selected' = NoSocScore
    /\ platform_dtbo_selected' = NoPlatScore
    /\ examined' = {} /\ passed_over' = {}
    /\ delivered' = NULL
    /\ UNCHANGED <<inputs, status>>

(* dt_select_open returns before it has a handle. *)
OpenRefused ==
    /\ pc = "closed"
    /\ \/ ~ParametersAreConsistent(request) /\ status' = "INVALID_PARAMETER"
       \/ /\ ParametersAreConsistent(request)
          /\ MallocFails /\ status' = "MALLOC_FAIL"
    /\ delivered' = NULL
    /\ UNCHANGED <<inputs, pc, fdtheader, handle, soc_dtbo_selected,
                   platform_dtbo_selected, examined, passed_over>>

----------------------------------------------------------------------------
(* One turn of the loop *)

Current == memory[fdtheader]

(* Mutated form of Abort: the handle is freed and the loop goes on. *)
Abort_NoReturn(error) ==
    /\ pc' = pc
    /\ handle' = NULL
    /\ status' = error
    /\ UNCHANGED <<inputs, fdtheader, soc_dtbo_selected, platform_dtbo_selected,
                   delivered, examined, passed_over>>

(* The handle is freed and the error is what dt_select_open returns. *)
Abort(error) ==
    /\ pc' = "closed"
    /\ handle' = NULL
    /\ status' = error
    /\ UNCHANGED <<inputs, fdtheader, soc_dtbo_selected, platform_dtbo_selected,
                   delivered, examined, passed_over>>

AtEnd == pc = "walking" /\ EndOfImage(memory, fdtheader, dtbs_image_size)

AtHeader ==
    /\ pc = "walking"
    /\ ~EndOfImage(memory, fdtheader, dtbs_image_size)

AtBlob == AtHeader /\ HeaderStatus(memory, fdtheader, dtbs_image_size) = "SUCCESS"

AtCandidate ==
    /\ AtBlob
    /\ Current.board_id
    /\ IsCandidate(Current, request)

HeaderRejected ==
    /\ AtHeader
    /\ HeaderStatus(memory, fdtheader, dtbs_image_size) # "SUCCESS"
    /\ Abort(HeaderStatus(memory, fdtheader, dtbs_image_size))

NoBoardId ==
    /\ AtBlob
    /\ ~Current.board_id
    /\ Abort("GET_ROOT_NODE_FAILED")

CandidacyMallocFails ==
    /\ AtBlob
    /\ Current.board_id
    /\ CandidacyMallocMayFail(Current, request)
    /\ Abort("MALLOC_FAIL")

(* Mutated form of NextEntry: the address is not moved. *)
NextEntry_Stuck ==
    /\ fdtheader' = fdtheader
    /\ examined' = examined \cup {fdtheader}
    /\ UNCHANGED <<inputs, pc, status, delivered>>

(* The step to the header behind the current blob. *)
NextEntry ==
    /\ fdtheader' = fdtheader + Current.size
    /\ examined' = examined \cup {fdtheader}
    /\ UNCHANGED <<inputs, pc, status, delivered>>

SkipEntry ==
    /\ AtBlob
    /\ Current.board_id
    /\ ~IsCandidate(Current, request)
    /\ NextEntry
    /\ UNCHANGED <<handle, soc_dtbo_selected, platform_dtbo_selected, passed_over>>

(* Mutated form of ValidateBaseDtb: a later base DTB replaces the first. *)
ValidateBaseDtb_LastWins ==
    /\ AtCandidate
    /\ device_tree_type(Current) = "BASE_DTB"
    /\ handle' = IF BaseIsEligible(Current, request)
                 THEN [handle EXCEPT !.base_dtb_ptr  = fdtheader,
                                     !.base_dtb_size = Current.size]
                 ELSE handle
    /\ NextEntry
    /\ UNCHANGED <<soc_dtbo_selected, platform_dtbo_selected, passed_over>>

(* The first eligible base DTB is kept for good. *)
ValidateBaseDtb ==
    /\ AtCandidate
    /\ device_tree_type(Current) = "BASE_DTB"
    /\ handle' = IF handle.base_dtb_ptr = 0 /\ BaseIsEligible(Current, request)
                 THEN [handle EXCEPT !.base_dtb_ptr  = fdtheader,
                                     !.base_dtb_size = Current.size]
                 ELSE handle
    /\ NextEntry
    /\ UNCHANGED <<soc_dtbo_selected, platform_dtbo_selected, passed_over>>

SocIsBetter ==
    /\ SocIsEligible(Current, request)
    /\ SocBeats(SocScore(Current, request), soc_dtbo_selected)

(* Mutated form of ValidateSocDtbo: the score is not stored. *)
ValidateSocDtbo_ScoreLost ==
    /\ AtCandidate
    /\ device_tree_type(Current) = "SOC_DTBO"
    /\ handle' = IF SocIsBetter
                 THEN [handle EXCEPT !.soc_dtbo_ptr  = fdtheader,
                                     !.soc_dtbo_size = Current.size]
                 ELSE handle
    /\ NextEntry
    /\ UNCHANGED <<soc_dtbo_selected, platform_dtbo_selected, passed_over>>

ValidateSocDtbo ==
    /\ AtCandidate
    /\ device_tree_type(Current) = "SOC_DTBO"
    /\ IF SocIsBetter
       THEN /\ soc_dtbo_selected' = SocScore(Current, request)
            /\ handle' = [handle EXCEPT !.soc_dtbo_ptr  = fdtheader,
                                        !.soc_dtbo_size = Current.size]
       ELSE UNCHANGED <<soc_dtbo_selected, handle>>
    /\ NextEntry
    /\ UNCHANGED <<platform_dtbo_selected, passed_over>>

PlatIsBetter ==
    /\ PlatIsEligible(Current, request)
    /\ PlatBeats(PlatScore(Current, request), platform_dtbo_selected)

ValidatePlatformDtbo ==
    /\ AtCandidate
    /\ device_tree_type(Current) = "PLATFORM_DTBO"
    /\ IF PlatIsBetter
       THEN /\ platform_dtbo_selected' = PlatScore(Current, request)
            /\ handle' = [handle EXCEPT !.plat_dtbo_ptr  = fdtheader,
                                        !.plat_dtbo_size = Current.size]
       ELSE UNCHANGED <<platform_dtbo_selected, handle>>
    /\ NextEntry
    /\ UNCHANGED <<soc_dtbo_selected, passed_over>>

(* _validate_oem_variant returns MALLOC_FAIL, its caller returns FAIL, and *)
(* the loop never looks at the return value: the entry is passed over.     *)
OemMallocFails ==
    /\ AtCandidate
    /\ device_tree_type(Current) = "PLATFORM_DTBO"
    /\ Current.oem_var \notin {Absent, Malformed}
    /\ MallocFails
    /\ passed_over' = passed_over \cup {fdtheader}
    /\ NextEntry
    /\ UNCHANGED <<handle, soc_dtbo_selected, platform_dtbo_selected>>

(* _print_selected_dtb_dtbos prints each selected blob, and its failure is *)
(* that of dt_select_open; with nothing selected it keeps the status it    *)
(* was initialised with.                                                   *)
Finish ==
    /\ AtEnd
    /\ Selections(handle) # {}
    /\ \A a \in Selections(handle) : memory[a].prints
    /\ pc' = "open"
    /\ status' = "SUCCESS"
    /\ UNCHANGED <<inputs, fdtheader, handle, soc_dtbo_selected,
                   platform_dtbo_selected, delivered, examined, passed_over>>

FinishFails ==
    /\ AtEnd
    /\ \/ Selections(handle) = {} /\ Abort("INVALID_PARAMETER")
       \/ /\ \E a \in Selections(handle) : ~memory[a].prints
          /\ Abort("UINT32_ARITHMETIC_OVERFLOW")
       \/ /\ Selections(handle) # {}
          /\ MallocFails /\ Abort("MALLOC_FAIL")

Walk ==
    \/ HeaderRejected \/ NoBoardId \/ CandidacyMallocFails \/ SkipEntry
    \/ ValidateBaseDtb \/ ValidateSocDtbo \/ ValidatePlatformDtbo
    \/ OemMallocFails \/ Finish \/ FinishFails

----------------------------------------------------------------------------
(* The calls on an open handle *)

(* The size the caller passes is compared with the selected one and then   *)
(* with the header's, read again.  copy is FALSE when *blob_ptr is 0, and  *)
(* the caller is given the address of the blob inside the image.           *)
ReadStatus(type, size) ==
    IF type \notin BlobType THEN "READ_BLOB_TYPE_MISMATCH"
    ELSE LET s == Selected(handle, type)
         IN  IF s.size # 0 /\ size = s.size /\ memory[s.ptr].size = size
             THEN "SUCCESS" ELSE "READ_BLOB_SIZE_MISMATCH"

ReadBlob(type, size) ==
    /\ pc = "open"
    /\ status' = ReadStatus(type, size)
    /\ delivered' = IF ReadStatus(type, size) = "SUCCESS"
                    THEN [type |-> type, blob |-> Selected(handle, type).ptr]
                    ELSE NULL
    /\ UNCHANGED <<inputs, pc, fdtheader, handle, soc_dtbo_selected,
                   platform_dtbo_selected, examined, passed_over>>

Close ==
    /\ pc = "open"
    /\ pc' = "closed"
    /\ handle' = NULL
    /\ status' = "SUCCESS"
    /\ delivered' = NULL
    /\ UNCHANGED <<inputs, fdtheader, soc_dtbo_selected, platform_dtbo_selected,
                   examined, passed_over>>

(* dt_select_read_blob or dt_select_close with a null handle. *)
CallWithoutHandle ==
    /\ pc = "closed"
    /\ status' = "INVALID_PARAMETER"
    /\ delivered' = NULL
    /\ UNCHANGED <<inputs, pc, fdtheader, handle, soc_dtbo_selected,
                   platform_dtbo_selected, examined, passed_over>>

(* A caller passes a size it was given for one of the three types. *)
SizesGiven == {Selected(handle, type).size : type \in BlobType}

Call ==
    \/ Open \/ OpenRefused \/ Close \/ CallWithoutHandle
    \/ pc = "open" /\ \E type \in BlobType \cup {"READ_BLOB_MAX"}, size \in SizesGiven :
          ReadBlob(type, size)

Next == Walk \/ Call

(* dt_select_open is one C call: once entered it keeps running.  Nothing   *)
(* makes the client call.                                                  *)
Spec == Init /\ [][Next]_vars /\ WF_vars(Walk)

----------------------------------------------------------------------------
(* Properties *)

Address == Nat

SocScores  == [rank : -1..1, chipinfo_version_calc : Nat]
PlatScores == [rank : -1..3, platforminfo_version_calc : Nat,
               chipinfo_version_calc : Nat]
Handles ==
    [base_dtb_ptr  : Address, base_dtb_size  : Nat,
     soc_dtbo_ptr  : Address, soc_dtbo_size  : Nat,
     plat_dtbo_ptr : Address, plat_dtbo_size : Nat]

(* Types, and what ties the phase of the call to the handle: the ranks stay *)
(* in the ranges of the tables in dt_select.c:2022-2030 and :2241-2251, and *)
(* only blobs with a valid header are counted as examined.                  *)
TypeOK ==
    /\ \A a \in DOMAIN memory : a \in Nat /\ memory[a] \in {BadMagic, BadHeader} \cup Blob
    /\ request \in Request
    /\ dtbs_image_size \in Nat
    /\ pc \in {"closed", "walking", "open"}
    /\ fdtheader \in Address
    /\ handle \in Handles \cup {NULL}
    /\ pc # "closed" => handle \in Handles
    /\ soc_dtbo_selected \in SocScores
    /\ platform_dtbo_selected \in PlatScores
    /\ examined \subseteq {a \in DOMAIN memory : memory[a] \notin {BadMagic, BadHeader}}
    /\ passed_over \subseteq examined

(* The examined blobs that could be selected for each type. *)
CandidatesOfType(type) ==
    {a \in examined : /\ IsCandidate(memory[a], request)
                      /\ device_tree_type(memory[a]) = type}

BaseChoices == {a \in CandidatesOfType("BASE_DTB") : BaseIsEligible(memory[a], request)}
SocChoices  == {a \in CandidatesOfType("SOC_DTBO") : SocIsEligible(memory[a], request)}
PlatChoices == {a \in CandidatesOfType("PLATFORM_DTBO") : PlatIsEligible(memory[a], request)}

SocScoreAt(a)  == SocScore(memory[a], request)
PlatScoreAt(a) == PlatScore(memory[a], request)

(* What the two rankings mean, stated on the fields of the entries and not *)
(* on the ranks and version numbers the code computes from them.           *)
Newer(x, y) == x.major > y.major \/ (x.major = y.major /\ x.minor > y.minor)

SameVersion(x, y) == x.major = y.major /\ x.minor = y.minor

MoreSpecific(field1, field2) == field1 # 0 /\ field2 = 0

AsSpecific(field1, field2) == field1 = 0 <=> field2 = 0

(* A SOC DTBO for this chip is better than one for any chip of the family, *)
(* then a newer one than an older one (dt_select.c:2022-2027, :2062).      *)
SocOutranks(b, c) ==
    LET x == DT_chipinfo_selected(b, request)
        y == DT_chipinfo_selected(c, request)
    IN  \/ MoreSpecific(x.id, y.id)
        \/ AsSpecific(x.id, y.id) /\ Newer(x, y)

(* A platform DTBO for this board subtype comes first, then one for this   *)
(* chip, then the newer for the board, then the newer for the chip         *)
(* (dt_select.c:2240-2250, :2371).                                         *)
PlatOutranks(b, c) ==
    LET x == DT_chipinfo_selected(b, request)
        y == DT_chipinfo_selected(c, request)
        p == DT_platforminfo_selected(b, request)
        q == DT_platforminfo_selected(c, request)
    IN  \/ MoreSpecific(p.subtype, q.subtype)
        \/ /\ AsSpecific(p.subtype, q.subtype)
           /\ \/ MoreSpecific(x.id, y.id)
              \/ /\ AsSpecific(x.id, y.id)
                 /\ \/ Newer(p, q)
                    \/ SameVersion(p, q) /\ Newer(x, y)

(* Blob a is the right choice over blob b: it outranks b, or neither       *)
(* outranks the other and it comes first in the image.                     *)
SocPreferred(a, b) ==
    \/ SocOutranks(memory[a], memory[b])
    \/ ~SocOutranks(memory[b], memory[a]) /\ a < b

PlatPreferred(a, b) ==
    \/ PlatOutranks(memory[a], memory[b])
    \/ ~PlatOutranks(memory[b], memory[a]) /\ a < b

BestBase(choices) ==
    IF choices = {} THEN handle.base_dtb_ptr = 0
    ELSE /\ handle.base_dtb_ptr \in choices
         /\ handle.base_dtb_size = memory[handle.base_dtb_ptr].size
         /\ \A a \in choices : handle.base_dtb_ptr <= a

BestSoc(choices) ==
    IF choices = {} THEN handle.soc_dtbo_ptr = 0
    ELSE /\ handle.soc_dtbo_ptr \in choices
         /\ handle.soc_dtbo_size = memory[handle.soc_dtbo_ptr].size
         /\ \A a \in choices \ {handle.soc_dtbo_ptr} : SocPreferred(handle.soc_dtbo_ptr, a)

BestPlat(choices) ==
    IF choices = {} THEN handle.plat_dtbo_ptr = 0
    ELSE /\ handle.plat_dtbo_ptr \in choices
         /\ handle.plat_dtbo_size = memory[handle.plat_dtbo_ptr].size
         /\ \A a \in choices \ {handle.plat_dtbo_ptr} : PlatPreferred(handle.plat_dtbo_ptr, a)

(* The base DTB held is the first eligible one of the blobs walked over,   *)
(* whatever came between and after (dt_select.c:1971).                     *)
BaseIsFirst == pc # "closed" => BestBase(BaseChoices)

(* The SOC DTBO held outranks every other one walked over, or is the first *)
(* of equals: comparing each entry with the best so far, by a rank and a   *)
(* version number, loses nothing (dt_select.c:2040-2083).                  *)
SocIsBest == pc # "closed" => BestSoc(SocChoices)

(* The same of the platform DTBO (dt_select.c:2278-2303, :2362-2403), of   *)
(* the entries no failed allocation hid: the call goes on without these and *)
(* may succeed (:1901, :2138), and no other entry is ever lost.            *)
PlatIsBest == pc # "closed" => BestPlat(PlatChoices \ passed_over)

(* The score each new entry is compared with is that of the blob held, not *)
(* of one held earlier: handle and score are two records written one after *)
(* the other (dt_select.c:1889-1893, :1908-1913).                          *)
ScoresMatch ==
    pc # "closed" =>
        /\ soc_dtbo_selected = IF handle.soc_dtbo_ptr = 0 THEN NoSocScore
                               ELSE SocScoreAt(handle.soc_dtbo_ptr)
        /\ platform_dtbo_selected = IF handle.plat_dtbo_ptr = 0 THEN NoPlatScore
                                    ELSE PlatScoreAt(handle.plat_dtbo_ptr)

(* Where the size of the image is known, no blob the walk took into        *)
(* account reaches beyond it (dt_select.c:1610-1672).                      *)
WithinImage ==
    dtbs_image_size # 0 =>
        \A a \in examined : a + memory[a].size <= Start + dtbs_image_size

(* The blobs walked over are appended one to the other from the start of   *)
(* the image up to the walk's address: none is skipped, none overlaps      *)
(* another (dt_select.c:1924).                                             *)
EntriesTile ==
    pc # "closed" =>
        /\ \A a \in examined : /\ Start <= a
                               /\ a + memory[a].size <= fdtheader
        /\ \A a \in (examined \cup {fdtheader}) \ {Start} :
              \E b \in examined : b + memory[b].size = a
        /\ \A a, b \in examined : a < b => a + memory[a].size <= b

(* The walk keeps to the entries of the image, whatever their headers and  *)
(* the size of the image say (dt_select.c:1610-1672, :1924).               *)
WalkKeepsToEntries == WithinImage /\ EntriesTile

(* While a call walks the image, the base DTB held stays, and an overlay   *)
(* held is only replaced by one that outranks it (dt_select.c:2062-2083,   *)
(* :2362-2403).                                                            *)
NeverDowngrades ==
    [][pc = "walking" /\ pc' = "walking" =>
          /\ handle.base_dtb_ptr # 0 => handle'.base_dtb_ptr = handle.base_dtb_ptr
          /\ handle.soc_dtbo_ptr \notin {0, handle'.soc_dtbo_ptr} =>
                SocOutranks(memory[handle'.soc_dtbo_ptr], memory[handle.soc_dtbo_ptr])
          /\ handle.plat_dtbo_ptr \notin {0, handle'.plat_dtbo_ptr} =>
                PlatOutranks(memory[handle'.plat_dtbo_ptr], memory[handle.plat_dtbo_ptr])]_vars

(* A read that succeeds hands out a blob of the type asked for, a blob the *)
(* selection accepted for this device (dt_select.c:2543-2589).             *)
ReadDeliversType ==
    delivered # NULL =>
        /\ delivered.blob \in BaseChoices \cup SocChoices \cup PlatChoices
        /\ device_tree_type(memory[delivered.blob]) = delivered.type

(* Every dt_select_open returns, whatever the image holds: the walk has no *)
(* bound of its own and moves by sizes it reads from the image.            *)
OpenReturns == pc = "walking" ~> pc # "walking"
=============================================================================
