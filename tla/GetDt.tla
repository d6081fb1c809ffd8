--------------------------------- MODULE GetDt ---------------------------------
(***************************************************************************)
(* get_dt of libs/DTSelectLib/get_dt.c: it has dt_select choose a base DTB *)
(* and overlays, reads them, merges the overlays into the base and hands   *)
(* the result to the caller, who returns it with get_dt_free.  The XBL     *)
(* build reads everything before it merges, and its PRE mode works inside  *)
(* the image; the UEFI build merges each overlay as soon as it has it.     *)
(*                                                                         *)
(* Memory is the set of blobs with an intact header, by address: a write   *)
(* over any byte of a blob destroys it.  What dt_select chooses is any     *)
(* blob of each type its walk reaches; how it chooses is DtSelect's.       *)
(***************************************************************************)
EXTENDS Integers, Sequences, FiniteSets

CONSTANTS
    Images,      \* the possible images: the type and size of the blob at each address
    Start,       \* dtbs_image_start_address
    ImageEnd,    \* the address behind the image, where no blob starts
    ImageSizes,  \* the possible values of dtbs_image_size: the size, or 0
    Builds,      \* the builds and the value of pre_or_post their callers pass:
                 \*   pairs of "XBL" or "UEFI" and "PRE" or "POST"
    HeapSlots,   \* addresses the allocator may hand out
    HandleSize,  \* sizeof (handle_data)
    HeaderSize,  \* FDT_V17_SIZE
    PageSize,    \* SIZE_4KB: from this size on the UEFI build allocates pages
    MallocFails, \* whether MALLOC_WRAPPER may return NULL
    MaxHeld      \* bound: results the caller has not given back

BlobType == {"BASE_DTB", "SOC_DTBO", "PLATFORM_DTBO"}
Overlays == BlobType \ {"BASE_DTB"}

ASSUME ConstantsAreTyped ==
    /\ Start \in Nat \ {0} /\ ImageEnd \in Nat /\ Start < ImageEnd
    /\ ImageSizes \subseteq {0, ImageEnd - Start}
    /\ Builds \subseteq {<<"XBL", "PRE">>, <<"XBL", "POST">>, <<"UEFI", "POST">>}
    /\ HeapSlots \subseteq {a \in Nat : a > ImageEnd}
    /\ HandleSize \in Nat \ {0} /\ HeaderSize \in Nat \ {0} /\ PageSize \in Nat \ {0}
    /\ MallocFails \in BOOLEAN /\ MaxHeld \in Nat
    /\ \A m \in Images : \A a \in DOMAIN m :
          /\ a \in Start..(ImageEnd - 1)
          /\ m[a] \in [type : BlobType, size : {n \in Nat : n >= HeaderSize}]
          /\ a + m[a].size <= ImageEnd

VARIABLES
    memory,      \* the intact blobs, by address
    heap,        \* the live allocations: records of an address and a size
    pc,          \* "idle", or the step of get_dt to come
    target,      \* the build: "XBL" or "UEFI"
    pre_or_post, dtbs_image_size,  \* arguments of the call
    dt_select_handle,              \* 0 or the handle's address
    selected,    \* what the handle says is selected: an address by type, or 0
    ptr, size,   \* base_dtb_ptr, soc_dtbo_ptr, plat_dtbo_ptr, and their sizes
    total_blob_size,
    return_status,
    wanted,      \* history: the blob the call is to return
    held,        \* the results the caller has: address, size, and what was wanted
    misfreed,    \* history: FREE_WRAPPER was given what is no live allocation,
                 \*   or another number of pages than was allocated
    refreed      \* history: the sizes of buffers FREE_WRAPPER released more than once

arguments == <<target, pre_or_post, dtbs_image_size>>
choice    == <<dt_select_handle, selected, total_blob_size, wanted>>
vars == <<memory, heap, pc, arguments, choice, ptr, size, return_status, held, misfreed, refreed>>

----------------------------------------------------------------------------
(* Memory *)

Overlaps(a, n, b, k) == a < b + k /\ b < a + n

(* Memory m without the blobs that touch the n bytes at address a. *)
Wiped(m, a, n) ==
    [b \in {c \in DOMAIN m : ~Overlaps(a, n, c, m[c].size)} |-> m[b]]

Written(m, a, blob) ==
    [b \in {a} \cup DOMAIN Wiped(m, a, blob.size) |-> IF b = a THEN blob ELSE m[b]]

(* The n bytes at address a are part of one allocation. *)
InAllocation(h, a, n) == \E x \in h : x.addr <= a /\ a + n <= x.addr + x.size

(* MALLOC_WRAPPER returns n bytes nothing else is using. *)
Malloc(n, a) ==
    /\ a \in HeapSlots
    /\ \A x \in heap : ~Overlaps(a, n, x.addr, x.size)

Allocated(a, n) == heap \cup {[addr |-> a, size |-> n]}

(* The UEFI build gives pages for a size of a page or more. *)
Pages(n) == IF n < PageSize THEN 0 ELSE (n + PageSize - 1) \div PageSize

FreeMatches(x) ==
    \E y \in heap : /\ y.addr = x.addr
                    /\ target = "UEFI" => Pages(y.size) = Pages(x.size)

(* What FREE_WRAPPER calls for n bytes.  The UEFI build calls FreePages for *)
(* a page or more, and then, without a return, FreePool of the same        *)
(* address, where the pool has nothing left to release.                    *)
Releases(n) ==
    IF target = "XBL" THEN <<"free">>
    ELSE IF n >= PageSize THEN <<"FreePages", "FreePool">>
    ELSE <<"FreePool">>

(* FREE_WRAPPER of each of a set of buffers *)
Free(buffers) ==
    /\ heap' = {x \in heap : \A b \in buffers : b.addr # x.addr}
    /\ misfreed' = (misfreed \/ \E b \in buffers : ~FreeMatches(b))
    /\ refreed' = refreed \cup {b.size : b \in {c \in buffers : Len(Releases(c.size)) > 1}}

(* What is in memory once the buffers are freed. *)
AfterFree(m, buffers) ==
    [a \in {c \in DOMAIN m : \A b \in buffers :
               ~Overlaps(c, m[c].size, b.addr, b.size)} |-> m[a]]

Buffer(type) ==
    [addr |-> ptr[type],
     size |-> IF type = "BASE_DTB" THEN total_blob_size ELSE size[type]]

Buffers == {Buffer(type) : type \in {t \in BlobType : ptr[t] # 0}}

----------------------------------------------------------------------------
(* dt_select, as get_dt uses it *)

(* The addresses the walk over the image reaches. *)
Reached ==
    LET reach[a \in Start..ImageEnd] ==
            \/ a = Start
            \/ \E b \in Start..(a - 1) :
                  b \in DOMAIN memory /\ reach[b] /\ b + memory[b].size = a
    IN  {a \in Start..ImageEnd : reach[a]}

(* With the size given, the walk must end where the image does. *)
WalkEnds == dtbs_image_size # 0 => ImageEnd \in Reached

Selectable(type) ==
    {0} \cup {a \in Reached \cap DOMAIN memory : memory[a].type = type}

SizeAt(a) == IF a = 0 THEN 0 ELSE memory[a].size

(* dt_select_read_blob compares the size with the header's, read again. *)
ReadSucceeds(type) ==
    /\ selected[type] \in DOMAIN memory
    /\ size[type] = memory[selected[type]].size

----------------------------------------------------------------------------
(* The steps of a call *)

(* Mutated forms of Steps: the SOC overlay is never merged; the XBL build  *)
(* merges each overlay as soon as it has it, as the UEFI build does.       *)
Steps_NoSocMerge ==
    IF target = "XBL"
    THEN <<"open", "read_base", "read_soc", "read_plat", "move", "merge_plat", "exit">>
    ELSE <<"open", "read_base", "read_soc", "read_plat", "merge_plat", "exit">>

Steps_MergeEarly ==
    <<"open", "read_base", "read_soc", "move", "merge_soc", "read_plat",
      "merge_plat", "exit">>

(* The order in which each build takes its steps. *)
Steps ==
    IF target = "XBL"
    THEN <<"open", "read_base", "read_soc", "read_plat", "move", "merge_soc",
           "merge_plat", "exit">>
    ELSE <<"open", "read_base", "read_soc", "merge_soc", "read_plat",
           "merge_plat", "exit">>

ReadStep  == [SOC_DTBO |-> "read_soc",  PLATFORM_DTBO |-> "read_plat"]
MergeStep == [SOC_DTBO |-> "merge_soc", PLATFORM_DTBO |-> "merge_plat"]

Proceed == pc' = Steps[1 + CHOOSE i \in DOMAIN Steps : Steps[i] = pc]

(* goto exit *)
Fail(error) ==
    /\ pc' = "exit"
    /\ return_status' = error

Zeros == [t \in BlobType |-> 0]

Nothing == [type |-> "BASE_DTB", size |-> 0, origin |-> 0, parts |-> << >>]

Init ==
    /\ \E m \in Images :
          memory = [a \in DOMAIN m |-> [type |-> m[a].type, size |-> m[a].size,
                                        origin |-> a, parts |-> << >>]]
    /\ heap = {} /\ held = {}
    /\ pc = "idle" /\ return_status = "NONE"
    /\ \E build \in Builds : target = build[1] /\ pre_or_post = build[2]
    /\ dtbs_image_size = 0
    /\ dt_select_handle = 0 /\ selected = Zeros /\ ptr = Zeros /\ size = Zeros
    /\ total_blob_size = 0 /\ wanted = Nothing
    /\ misfreed = FALSE /\ refreed = {}

(* A caller in PRE mode holds no result: it would be in the image the call *)
(* works on.  A call whose parameters are rejected has nothing to free and *)
(* no handle to close: it changes nothing.                                 *)
Call(image_size) ==
    /\ pc = "idle" /\ Cardinality(held) < MaxHeld
    /\ pre_or_post = "PRE" => held = {}
    /\ pc' = "open"
    /\ dtbs_image_size' = image_size
    /\ dt_select_handle' = 0 /\ selected' = Zeros /\ ptr' = Zeros /\ size' = Zeros
    /\ total_blob_size' = 0 /\ wanted' = Nothing
    /\ return_status' = "NONE"
    /\ UNCHANGED <<target, pre_or_post, memory, heap, held, misfreed, refreed>>

(* dt_select_open fails: no handle is left. *)
OpenFails ==
    /\ pc = "open"
    /\ MallocFails \/ ~WalkEnds \/ \A t \in BlobType : Selectable(t) = {0}
    /\ Fail("SELECT")
    /\ UNCHANGED <<memory, heap, arguments, choice, ptr, size, held, misfreed, refreed>>

(* The overlay that will be merged from an address, none from 0. *)
OriginAt(a) == IF a = 0 THEN << >> ELSE <<memory[a].origin>>

(* The sizes of disjoint parts of the address space do not overflow when   *)
(* they are added.                                                         *)
OpenSucceeds(chosen, handle) ==
    /\ pc = "open" /\ WalkEnds
    /\ \A t \in BlobType : chosen[t] \in Selectable(t)
    /\ \E t \in BlobType : chosen[t] # 0
    /\ Malloc(HandleSize, handle)
    /\ heap' = Allocated(handle, HandleSize)
    /\ dt_select_handle' = handle
    /\ selected' = chosen
    /\ size' = [t \in BlobType |-> SizeAt(chosen[t])]
    /\ IF chosen["BASE_DTB"] = 0
       THEN Fail("INVALID_BASE_DTB_SIZE") /\ UNCHANGED <<total_blob_size, wanted>>
       ELSE /\ total_blob_size' = SizeAt(chosen["BASE_DTB"]) + SizeAt(chosen["SOC_DTBO"])
                                     + SizeAt(chosen["PLATFORM_DTBO"])
            /\ wanted' = [memory[chosen["BASE_DTB"]] EXCEPT
                             !.size = total_blob_size',
                             !.parts = @ \o OriginAt(chosen["SOC_DTBO"])
                                          \o OriginAt(chosen["PLATFORM_DTBO"])]
            /\ Proceed /\ UNCHANGED return_status
    /\ UNCHANGED <<memory, arguments, ptr, held, misfreed, refreed>>

(* MALLOC_WRAPPER for the buffer of a blob, and dt_select_read_blob into it. *)
ReadInto(type, buffer_size, a) ==
    /\ Malloc(buffer_size, a)
    /\ heap' = Allocated(a, buffer_size)
    /\ ptr' = [ptr EXCEPT ![type] = a]
    /\ IF ReadSucceeds(type)
       THEN /\ memory' = Written(memory, a, memory[selected[type]])
            /\ Proceed /\ UNCHANGED return_status
       ELSE Fail("READ_BLOB_SIZE_MISMATCH") /\ UNCHANGED memory
    /\ UNCHANGED <<arguments, choice, size, held, misfreed, refreed>>

ReadFails(at) ==
    /\ pc = at
    /\ MallocFails
    /\ Fail("MALLOC_FAIL")
    /\ UNCHANGED <<memory, heap, arguments, choice, ptr, size, held, misfreed, refreed>>

(* Mutated form of ReadBase: the buffer is only as large as the base DTB. *)
ReadBase_BaseOnly(a) ==
    /\ pc = "read_base" /\ pre_or_post = "POST"
    /\ ReadInto("BASE_DTB", size["BASE_DTB"], a)

(* POST: the buffer of the base DTB has room for the overlays too. *)
ReadBase(a) ==
    /\ pc = "read_base" /\ pre_or_post = "POST"
    /\ ReadInto("BASE_DTB", total_blob_size, a)

(* PRE: base_dtb_ptr is 0, and dt_select_read_blob sets it to the blob in  *)
(* the image.                                                              *)
FindBase ==
    /\ pc = "read_base" /\ pre_or_post = "PRE"
    /\ ptr' = [ptr EXCEPT !["BASE_DTB"] = selected["BASE_DTB"]]
    /\ Proceed
    /\ UNCHANGED <<memory, heap, arguments, choice, size, return_status, held, misfreed, refreed>>

ReadOverlay(type, a) ==
    /\ pc = ReadStep[type] /\ size[type] # 0
    /\ ReadInto(type, size[type], a)

(* No overlay of the type was selected; or the base DTB need not be moved. *)
SkipStep ==
    /\ \/ \E type \in Overlays : pc \in {ReadStep[type], MergeStep[type]} /\ size[type] = 0
       \/ pc = "move" /\ (pre_or_post = "POST" \/ ptr["BASE_DTB"] = Start)
    /\ Proceed
    /\ UNCHANGED <<memory, heap, arguments, choice, ptr, size, return_status, held, misfreed, refreed>>

(* PRE moves the base DTB to the start of the image, no more of it than    *)
(* dtbs_image_size; base_dtb_ptr stays where it was.  memcpy between areas *)
(* that overlap may leave anything at the destination.  The check that the *)
(* base DTB is not before the start of the image cannot fail here: every   *)
(* selected address was reached from the start.                            *)
MoveBase ==
    LET base   == ptr["BASE_DTB"]
        n      == IF dtbs_image_size < size["BASE_DTB"] THEN dtbs_image_size
                  ELSE size["BASE_DTB"]
        copied == Written(memory, Start, memory[base])
    IN  /\ pc = "move" /\ pre_or_post = "PRE" /\ base # Start
        /\ size' = [size EXCEPT !["BASE_DTB"] = n]
        /\ IF n = 0 THEN UNCHANGED memory
           ELSE \/ memory' = copied
                \/ Overlaps(Start, n, base, n) /\ memory' = Wiped(copied, Start, n)
        /\ Proceed
        /\ UNCHANGED <<heap, arguments, choice, ptr, return_status, held, misfreed, refreed>>

----------------------------------------------------------------------------
(* fdt_merge_overlay of the overlay of a type, into the base DTB in place *)

(* What fdt_check_for_valid_blob finds wrong with n bytes at address a. *)
BlobError(a, n) ==
    IF n < HeaderSize THEN "NOSPACE"
    ELSE IF a \notin DOMAIN memory THEN "BADMAGIC"
    ELSE IF n < memory[a].size THEN "NOSPACE"
    ELSE "NONE"

MergeSize(type) ==
    IF type = "SOC_DTBO" THEN size["BASE_DTB"] + size["SOC_DTBO"] ELSE total_blob_size

MergeError(type) ==
    LET base    == BlobError(ptr["BASE_DTB"], size["BASE_DTB"])
        overlay == BlobError(ptr[type], size[type])
    IN  IF base # "NONE" THEN base
        ELSE IF overlay # "NONE" THEN overlay
        ELSE IF \/ MergeSize(type) <= memory[ptr[type]].size
                \/ MergeSize(type) <= memory[ptr["BASE_DTB"]].size
                \/ memory[ptr["BASE_DTB"]].size > MergeSize(type) - memory[ptr[type]].size
             THEN "BUF2SMALL"
        ELSE "NONE"

MergeRefused(type) ==
    /\ pc = MergeStep[type] /\ size[type] # 0
    /\ MergeError(type) # "NONE"
    /\ Fail(MergeError(type))
    /\ UNCHANGED <<memory, heap, arguments, choice, ptr, size, held, misfreed, refreed>>

(* fdt_open_into fails and changes nothing, or fdt_overlay_apply fails and *)
(* erases the magic number of both blobs.                                  *)
MergeFails(type) ==
    /\ pc = MergeStep[type] /\ size[type] # 0
    /\ MergeError(type) = "NONE"
    /\ \/ Fail("OPEN_INTO") /\ UNCHANGED memory
       \/ /\ Fail("OVERLAY_APPLY")
          /\ memory' = [a \in DOMAIN memory \ {ptr["BASE_DTB"], ptr[type]} |-> memory[a]]
    /\ UNCHANGED <<heap, arguments, choice, ptr, size, held, misfreed, refreed>>

Merged(type) ==
    [memory[ptr["BASE_DTB"]] EXCEPT
        !.size  = MergeSize(type),
        !.parts = Append(@, memory[ptr[type]].origin)]

(* Mutated form of Merge: the overlay is not freed. *)
Merge_NotFreed(type) ==
    /\ pc = MergeStep[type] /\ size[type] # 0 /\ MergeError(type) = "NONE"
    /\ memory' = Written(memory, ptr["BASE_DTB"], Merged(type))
    /\ ptr' = [ptr EXCEPT ![type] = 0]
    /\ size' = IF type = "SOC_DTBO" THEN [size EXCEPT !["BASE_DTB"] = MergeSize(type)]
               ELSE size
    /\ Proceed
    /\ UNCHANGED <<heap, arguments, choice, return_status, held, misfreed, refreed>>

(* The blob grows in place, the overlay's buffer is freed, and after the   *)
(* SOC overlay the size of the base DTB is read again.                     *)
Merge(type) ==
    /\ pc = MergeStep[type] /\ size[type] # 0
    /\ MergeError(type) = "NONE"
    /\ memory' = AfterFree(Written(memory, ptr["BASE_DTB"], Merged(type)), {Buffer(type)})
    /\ Free({Buffer(type)})
    /\ ptr' = [ptr EXCEPT ![type] = 0]
    /\ size' = IF type = "SOC_DTBO" THEN [size EXCEPT !["BASE_DTB"] = MergeSize(type)]
               ELSE size
    /\ Proceed
    /\ UNCHANGED <<arguments, choice, return_status, held>>

----------------------------------------------------------------------------
(* exit *)

Handle ==
    IF dt_select_handle = 0 THEN {} ELSE {[addr |-> dt_select_handle, size |-> HandleSize]}

(* Mutated form of ReturnError: the handle is not closed. *)
ReturnError_NotClosed ==
    /\ pc = "exit" /\ return_status # "NONE"
    /\ Free(Buffers)
    /\ memory' = AfterFree(memory, Buffers)
    /\ pc' = "idle" /\ ptr' = Zeros
    /\ UNCHANGED <<arguments, choice, size, return_status, held>>

(* On error all buffers are freed; dt_select_close frees the handle. *)
ReturnError ==
    /\ pc = "exit" /\ return_status # "NONE"
    /\ Free(Buffers \cup Handle)
    /\ memory' = AfterFree(memory, Buffers)
    /\ pc' = "idle" /\ dt_select_handle' = 0 /\ ptr' = Zeros
    /\ UNCHANGED <<arguments, selected, total_blob_size, wanted, size, return_status, held>>

(* On success the caller is given base_dtb_ptr and total_blob_size. *)
ReturnResult ==
    /\ pc = "exit" /\ return_status = "NONE"
    /\ Free(Handle)
    /\ held' = held \cup
          {[addr |-> ptr["BASE_DTB"], size |-> total_blob_size, wanted |-> wanted]}
    /\ pc' = "idle" /\ dt_select_handle' = 0 /\ ptr' = Zeros
    /\ UNCHANGED <<memory, arguments, selected, total_blob_size, wanted, size, return_status>>

(* get_dt_free of a result *)
get_dt_free(h) ==
    LET buffer == [addr |-> h.addr, size |-> h.size]
    IN  /\ pc = "idle"
        /\ Free({buffer})
        /\ memory' = AfterFree(memory, {buffer})
        /\ held' = held \ {h}
        /\ UNCHANGED <<pc, arguments, choice, ptr, size, return_status>>

Next ==
    \/ \E n \in ImageSizes : Call(n)
    \/ OpenFails
    \/ \E chosen \in [BlobType -> {0} \cup Reached], a \in HeapSlots : OpenSucceeds(chosen, a)
    \/ \E a \in HeapSlots : ReadBase(a)
    \/ FindBase \/ MoveBase \/ SkipStep
    \/ \E type \in Overlays, a \in HeapSlots : ReadOverlay(type, a)
    \/ ReadFails("read_base") /\ pre_or_post = "POST"
    \/ \E type \in Overlays : ReadFails(ReadStep[type]) /\ size[type] # 0
    \/ \E type \in Overlays : MergeRefused(type) \/ MergeFails(type) \/ Merge(type)
    \/ ReturnError \/ ReturnResult
    \/ \E h \in held : get_dt_free(h)

Spec == Init /\ [][Next]_vars

----------------------------------------------------------------------------
(* Properties *)

Blob == [type : BlobType, size : Nat, origin : Nat, parts : Seq(Nat)]

(* Types, and what ties the pointers to the step of the call. *)
TypeOK ==
    /\ \A a \in DOMAIN memory : a \in Nat /\ memory[a] \in Blob
    /\ heap \subseteq [addr : HeapSlots, size : Nat]
    /\ pc \in {"idle"} \cup {Steps[i] : i \in DOMAIN Steps}
    /\ <<target, pre_or_post>> \in Builds /\ dtbs_image_size \in ImageSizes \cup {0}
    /\ dt_select_handle \in {0} \cup HeapSlots
    /\ selected \in [BlobType -> Nat] /\ ptr \in [BlobType -> Nat]
    /\ size \in [BlobType -> Nat] /\ total_blob_size \in Nat
    /\ wanted \in Blob /\ held \subseteq [addr : Nat, size : Nat, wanted : Blob]
    /\ pc = "idle" => ptr = Zeros /\ dt_select_handle = 0

IsIntact(h) ==
    /\ h.addr \in DOMAIN memory
    /\ memory[h.addr] = h.wanted
    /\ h.size = h.wanted.size

(* What the caller holds is one intact blob of the size it was told: the   *)
(* base DTB selected for it with its overlays merged in, the SOC's before  *)
(* the platform's.  Calls in between leave it alone (get_dt.c:186-239).    *)
ResultIsMerged == \A h \in held : IsIntact(h)

(* That much is true of every result in POST mode, and in PRE mode when    *)
(* the base DTB is the first blob of the image: it is not moved, and the   *)
(* merges only grow it over overlays that have been read (get_dt.c:132-215).*)
UnmovedIsMerged ==
    \A h \in held : pre_or_post = "POST" \/ h.addr = Start => IsIntact(h)

(* Every blob dt_select chose is still there when it is read: nothing      *)
(* writes to the image before all of them are read (get_dt.c:132-188).     *)
ReadsFindBlobs == return_status # "READ_BLOB_SIZE_MISMATCH"

(* When no call is running the only allocations left are those of the      *)
(* results the caller holds.                                               *)
NothingLeaks ==
    pc = "idle" => \A x \in heap : \E h \in held : h.addr = x.addr

(* FREE_WRAPPER, given a buffer once, releases it once, but for one of a   *)
(* page or more in the UEFI build, which it releases twice                 *)
(* (dt_select_env.c:140-149).                                              *)
OnlyPagesAreReleasedTwice == \A n \in refreed : target = "UEFI" /\ n >= PageSize

(* In POST mode a result is "malloced memory where Final DTB [...] resides" *)
(* (inc/get_dt.h:29) ...                                                    *)
ResultIsMalloced == \A h \in held : [addr |-> h.addr, size |-> h.size] \in heap

(* ... for get_dt_free to free.  Neither a success nor any of the failures *)
(* leaks a buffer or the handle, and in POST mode FREE_WRAPPER is given    *)
(* every buffer once and as what it was allocated: overlays in the middle  *)
(* of the call and those left on the error path (get_dt.c:201-202,         *)
(* :213-214, :217-244), the result with the size get_dt returned (:446).   *)
(* So each is released once, unless it is pages of the UEFI build.         *)
BuffersAreGivenBack ==
    /\ NothingLeaks
    /\ pre_or_post = "POST" => ResultIsMalloced /\ ~misfreed
    /\ OnlyPagesAreReleasedTwice

(* In POST mode a blob is only ever written inside one allocation: the     *)
(* merges grow the base DTB in place, to sizes computed before             *)
(* (get_dt.c:188, :207).  The image stays as it was, so that a later call  *)
(* selects from the same blobs (get_dt.c:108-126).                         *)
WritesStayInside ==
    [][pre_or_post = "POST" =>
          /\ \A a \in DOMAIN memory' :
                a \notin DOMAIN memory \/ memory'[a] # memory[a] =>
                    InAllocation(heap \cup heap', a, memory'[a].size)
          /\ \A a \in DOMAIN memory : a < ImageEnd => a \in DOMAIN memory']_vars
=============================================================================
