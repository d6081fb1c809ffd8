# Verification of DTFramework

DTFramework is Qualcomm's library for flattened device trees in boot code: it
chooses, from an image with many device-tree blobs, the base tree and overlays
that fit a device, merges them, and gives drivers access to the result. This
directory holds TLA+ models of it, translated from the C source, the TLC
configurations that check them on small instances, and proofs checked by TLAPS.

All paths below are relative to the repository.

## 1. Inventory

| Component | State it keeps | Operations | Whom it talks to | What is hard | Correct when |
|---|---|---|---|---|---|
| Selection, `libs/DTSelectLib/dt_select.c` | `handle_data` (address and size of three selected blobs), two `handle_selected_dtbo` scores and the walk's header pointer, all local to one call | `dt_select_open`, `dt_select_read_blob`, `dt_select_close` | reads the image through the property getters; the allocator | order of the entries, ranking by packed versions, bad headers, sizes and wraparound, allocation failures in the middle of the walk | the blobs held are the best of those walked over; the walk stays in the image and ends |
| Retrieval, `libs/DTSelectLib/get_dt.c` | three pointers and sizes, the handle, local to a call; the results the callers hold | `get_dt` (XBL build: POST and PRE mode; UEFI build), `get_dt_free` | selection, overlay merge, allocator | partial failure of eleven steps with one exit, growth in place, PRE mode inside the image | the result is the base merged with its overlays, in memory of its own; nothing leaks, and each buffer is given back once, as what it was allocated |
| Environment, `libs/DTSelectLib/Environment` | none | `MALLOC_WRAPPER`, `FREE_WRAPPER`, `MEMCPY_WRAPPER`, logging | the platform | page-sized buffers take another path | what was taken from the pool or as pages is released there, and once |
| Blob handles and node cache, `libs/DTBExtnLib/DTBExtnLib_blob.c`, `_node.c` | `dtb_blob[]`, ten lists of hash nodes by depth, the list of phandle caches, all static | `fdt_set_blob_handle`, `fdt_get_node_handle`, `fdt_get_phandle_node` | libfdt | stale entries after a merge or a failed registration, several blobs, depth and hash limits, paths spelled in several ways | a lookup gives what the tree itself gives |
| Getters and drivers' accessors, `_prop.c`, `_driver.c`, the rest of `_node.c` | none | typed reads of properties, lists, slices, structures, `reg`, names, subnodes, search by `compatible` | node handles, libfdt | sizes asked for in one call and used in the next, indices and element sizes, boundaries of lists | what is written is the tree's, inside the buffer, all of it or none |
| Tree creation, `_create-dtb.c`; libfdt editing, `fdt_rw.c`, `fdt_wip.c`, `fdt_empty_tree.c` | the header of the buffer being edited | add, set, append, delete, overwrite, move, pack | caller's buffer | every edit moves what lies behind it and the offsets in the header; moves between overlapping buffers | a tree that changes one thing at a time |
| Sequential writer, `libfdt/fdt_sw.c` | the header of the buffer being written | create, reserve map, begin/end node, property, resize, finish | caller's buffer | the state of the protocol is encoded in header fields; two blocks grow towards each other | legal calls build a valid blob, illegal ones are refused |
| Overlay merge, `_overlay.c`, `libfdt/fdt_overlay.c` | the two blobs | `fdt_merge_overlay`, `fdt_overlay_apply` | libfdt editing | phandle renumbering, fixups, no room half way | references of the overlay reach the intended nodes |
| libfdt reading, `fdt_ro.c`, `fdt.c` | none | token walk, lookups | | offsets and sizes | agrees with what was written |
| libufdt, `libs/libufdt` | trees of nodes, node pool (blocks with free lists), phandle table | convert, find, merge, `ufdt_apply_overlay`, `ufdt_apply_multioverlay` | libfdt | pool blocks shared by many nodes, nodes moved between trees, lists that fail half way | no node is handed out twice; all overlays of a call are applied or none |
| mkdtimg, log script, tests | files | command-line tools | | | not modelled: host-side input and output |

A blob registered by `fdt_set_blob_handle` and the blobs of an image are plain
memory; components interact by calls only, and nothing is shared between
threads: the hard behaviours are sequences of calls, failures in the middle of
them, and data from images.

## 2. Modules

| Module | What it is |
|---|---|
| `DtSelect` | the selection: one action per way a turn of the loop of `_select_dtb_and_dtbos` can go, and the three calls |
| `DtSelect_proofs`, `GetDt_proofs`, `DtbCache_proofs`, `NodePool_proofs`, `FdtSw_proofs`, `FdtRw_proofs`, `UfdtOverlay_proofs` | the theorems about each of these modules (section 4) |
| `FdtBlob_proofs` | lemmas about blobs in memory: alignment, the chain of tags, the walk that follows it |
| `GetDt` | get_dt and get_dt_free over a model of memory, allocations and blobs |
| `DtbCache` | blob handles, and node lookups through hash tables and phandle caches |
| `Readers` | the getters and accessors, which read one node or walk from one to another |
| `FdtBlob` | a blob as cells of memory: header, blocks, tags and the walk over them |
| `TreeWriter`, `FdtSw` | the abstract specification of a tree written piece by piece, and the sequential writer in a buffer, which implements it |
| `TreeEditor`, `FdtRw` | the abstract specification of a tree edited in any order, and the read-write interface in a buffer, which implements it |
| `NodeSet`, `NodePool` | a set of nodes that are handed out, and libufdt's pool of blocks with free lists, which implements it |
| `DeviceTree` | trees of nodes with properties of cells, and the blobs of overlays |
| `OverlayMeaning`, `OverlayMerge` | what the cells of blobs refer to, and the abstract specification of applying overlays, in which references are references |
| `FdtOverlay` | `fdt_overlay_apply`, which implements `OverlayMerge` with numbers |
| `UfdtOverlay` | `ufdt_apply_overlay` and `ufdt_apply_multioverlay`, which implement it too |
| `OverlayCases` | trees and overlays for the small instances |
| `MCDtSelect`, `MCGetDt`, `MCDtbCache`, `MCReaders`, `MCFdtSw`, `MCFdtRw`, `MCFdtOverlay`, `MCUfdtOverlay` | the values of the constants for the runs |

`FdtBlob` is the part `FdtSw` and `FdtRw` share; `FdtOverlay` and `UfdtOverlay`
share `DeviceTree`, `OverlayMeaning` and the abstract specification, so that one
promise is checked of two implementations.

Some operators have a *mutated form* beside them (named `Operator_WhatIsWrong`,
with a comment): the operator as a plausible mistake in the code would make it.
They are used nowhere in the models; putting one in place of the operator must
make the property that `PROJECT.json` names for it fail.

### DtSelect

The image is a function from addresses to what `fdt_check_header` and the
property getters see there: a record of the properties of the `/board-id/`
node, or a marker for bytes without the magic number or with a bad header.
Addresses wrap at `PtrLimit`. `fdtheader`, `handle`, `soc_dtbo_selected` and
`platform_dtbo_selected` are the C variables of the same names; `pc` says
whether a handle is open or `dt_select_open` is running.

* `Open`, `OpenRefused`: `dt_select_open` up to the loop.
* `HeaderRejected`, `NoBoardId`, `CandidacyMallocFails`: turns that end the call
  with an error; `Abort` is the exit that frees the handle.
* `SkipEntry`, `ValidateBaseDtb`, `ValidateSocDtbo`, `ValidatePlatformDtbo`,
  `OemMallocFails`: turns that go on; each includes the step to the next header
  (`NextEntry`) at the end of the loop's body.
* `Finish`, `FinishFails`: the end of the image and the diagnostic print.
* `ReadBlob`, `Close`, `CallWithoutHandle`: the calls on a handle.

Strings are abstracted to the prefixes they start with, properties to sets of
values, and whether a diagnostic print succeeds to one bit of the blob. The
version macro (`VersionCalc`) is arithmetic on fields as wide as the shifts
allow: the minor version fills exactly the bits below the major one.

The properties `SocIsBest` and `PlatIsBest` are stated on the fields of the
entries (`SocOutranks`, `PlatOutranks`: more specific first, then newer) and not
on the ranks and packed version numbers that the code compares.

### GetDt

`memory` maps addresses to intact blobs: a write over any byte of a blob
destroys it, so damage to the image or to another buffer is visible. `heap`
holds the live allocations. `target` is the build and `pre_or_post` the mode its
callers pass; both are chosen at the start. `pc` is the step to come, in the
order `Steps` gives for each build; `SkipStep` passes over an overlay that was
not selected. `OpenSucceeds` lets dt_select choose any blob of each type that
its walk reaches. `MergeError` is the checks of `fdt_check_for_valid_blob` and
`fdt_merge_overlay` in their order, `MergeFails` the ways libfdt can fail (with
the magic numbers erased), `Merge` the blob that has grown in place and the
overlay's buffer freed. `Free` is `FREE_WRAPPER`: the allocation is gone, and two
history variables tell what went wrong with it: `misfreed` that the wrapper was
given what is not allocated or another number of pages, `refreed` the sizes of the
buffers that the wrapper itself released more than once (`Releases`, the calls it
makes, of which the UEFI build makes two for a page or more). `ReturnError` and `ReturnResult` are the exit. A merged
blob carries the addresses its parts came from, so that "the right overlays in
the right order" can be told; `wanted` is what the call is to return.

### DtbCache

A blob is the sequence of its nodes in preorder, with their paths, phandles and
the one property the library reads itself (`config`); the node at index *i* has
offset *i - 1*, so that inserting nodes moves the offsets of those behind.
`lists` says on how many levels `phead_hash_node_table` has a list for a blob,
`hash_node` holds its entries, `phandle_cache` the list from
`phandle_cache_root`.

* `fdt_set_blob_handle` is the whole call: the check, the configuration read
  through the tables as they are, the registration, and `CreatDtbHashTable`,
  which runs also when the check has failed. Its two ways are `free_tables`,
  when the blob has a table, and `BuildTables`, in which `room` allocations
  succeed, in the order the code makes them: cache and array, a list for each
  level, the nodes.
* `Change`: other code writes over a blob: a merge in place, another image.
* `fdt_get_node_handle` and `fdt_get_phandle_node` change no state and are
  operators; the properties compare them with `fdt_path_offset` and
  `fdt_node_offset_by_phandle` on the same blob.

Paths are what the caller spells: names and slashes, an alias first, slashes
doubled or left at the end. `path_depth`, `dirname` and the entries of the
table cut them apart as the code does, by counting slashes and looking for the
last one; `Descend` and `fdt_get_alias` are libfdt's way. `stale` is the history
of what changed under a table. The hash is a constant function of the path as
spelled, injective in the runs. Trees have unique paths and phandles and are
less deep than the table has levels.

### Readers

A handle is the position of a node in the tree, `out` the last call with the
memory around the caller's buffer: bytes the call wrote, bytes still as the
caller left them (`FRESH`) and bytes that come from beyond the end of a
property (`FOREIGN`). A call for a size leaves it in `out`, and the call that
fills a buffer is made with that size (an answer to the right question) or with
any of `Sizes`. There is an action per call of `DTBExtnLib_prop.c`,
`DTBExtnLib_driver.c` and the reading part of `DTBExtnLib_node.c`, each with its
checks in the order of the code and what it wrote before it failed. `walk` is
the history of a search by `compatible`. A cell of `reg` is four bytes, and bytes
have `Base` values, so that numbers of different places and widths stay apart.

### FdtBlob, FdtSw and TreeWriter

`mem` is memory, `fdt` the blob in it, `ret` what the last call returned. A field
of the header, a character and a datum take a cell each, a word of the structure
`FDT_TAGSIZE` cells, so that padding shows; what no call has written is left over
from before. There is one action per call: `fdt_create`
(`fdt_create_with_flags`), `fdt_resize`, `fdt_add_reservemap_entry`,
`fdt_finish_reservemap`, `fdt_begin_node`, `fdt_end_node`, `fdt_property` (with
`fdt_property_placeholder`) and `fdt_finish`, with every error the code returns;
`BADMAGIC` is left out, as callers pass a blob they created. As in the code, the
stage of writing is nowhere but in the header (`InMemrsv`, `InStruct`).

`TreeWriter` has the stage, the reservations and the pieces of the tree as
variables of their own. The refinement mapping reads them out of the cells as a
reader of the blob would: `reserved` up to the entry of size 0, `pieces` by the
walk of `fdt_next_tag`, each name through its offset into the strings. The walk
is a recursive function inside `Walk`, and `fdt_finish` uses the same one.
`IsChain` says without recursion what such a walk runs over, whole tags one
behind the other; assumptions and proofs are stated with it, and the refinement,
which TLC checks on the small instance, is proved for all (section 4).

### FdtRw and TreeEditor

The same cells, edited. One action per call of `fdt_rw.c` and `fdt_wip.c`, each
with the splice it makes (`fdt_splice_mem_rsv_`, `fdt_splice_struct_`, the
strings) and the roll-back of `fdt_add_property_`; `fdt_add_tree` and
`fdt_add_node` are the calls of `DTBExtnLib_create-dtb.c`. `fdt_open_into` copies
a blob whose blocks are in order and puts one together anew whose blocks are
not, beside the old one or over it (`Apart`). Cells nobody reads, outside of the
blocks and of the buffer, are set to `LEFTOVER` (`Kept`), which keeps the
states finite and few. Clients find the offset of a node anew before each call.
A blob that another tool wrote (`Loaded`) comes with the depth of each of its
tags, and `LoadedAreBlobs` says what `fdt_check_header` and the calls take for
granted of it: blocks that are apart and inside `totalsize`, in any order,
reservations that end, whole nested tags, and names inside the strings block.
`TreeEditor` has the reservations and the pieces of the tree as variables, and
one change for each call; the mapping is the one of `FdtSw`.

Left out: `boot_cpuid`, blobs of other versions than 17, and the conversion to
big-endian of the values that `fdt_add_prop_list_u16` to `_u64` are given.

### NodePool and NodeSet

`blocks` is the linked list of blocks, `free_entries` the free list of each,
`last_block_ptr` the address of the link new blocks at the end are stored to,
kept apart from the list as in the code, so that it may point where the end no
longer is (`Deref`, `PointerTo`). `AllocFromFirst` and `AllocFromNew` are the two
ways of `ufdt_node_pool_alloc`, `Free` and `Destruct` the other calls. The
refinement mapping takes as `live` the entries of blocks that are not free and
as `held` the nodes clients have.

### OverlayMerge, FdtOverlay and UfdtOverlay

In a blob a reference to a node is a number, its phandle, which both libraries
change so that it stays unique. `OverlayMerge` has no phandles: a cell is a
number or refers to a node, by the label of a node of the tree or as a node of
the overlay's own. `OverlayMeaning` says, for a blob and the places of its
references, what its cells mean; the history variable `references` carries the
places of references in the tree as it grows, and is no part of what the code
decides.

`FdtOverlay` has one action per phase of `fdt_overlay_apply`, and one per
fragment in the phases that go through them; each has its errors, which erase
both magic numbers (`Fail`), and `NoSpace` may end any that writes. The
symbols of the overlay are moved last.

`UfdtOverlay` has trees as functions from slots (path and property name) to
nodes of the pool and to the blob and path their tag points to, because merging
moves nodes between trees whose contents stay in two blobs. The actions are the
calls, `NextOverlay` (unflatten one), the local references, the fixups, one per
fragment, the end of the fragments, `ufdt_to_fdt` and its lack of room
(`NoRoom`). `FdtpsAreFull` is the array of string tables that is grown wrongly.
`Atomic` and `Labels` of the abstract specification say in what the two
differ: a call of libufdt that fails leaves the tree as it was, one of libfdt
leaves none; libfdt adds the overlay's symbols to the tree's, libufdt does not.

## 3. What is checked

Runs that pass:

| Run | Question | Bounds |
|---|---|---|
| `select` | is the right blob held after every entry, for every order of entries, and does the walk stay inside the image, tile it and return, whatever goes wrong? | every image of 1 to 3 of 11 entries that compete or must lose (base DTBs with SOC overlays, and base DTBs with platform overlays), and of 15 entries of all three kinds and markers with faults; three clients; image sizes that end on, before and inside an entry or are not given; an address space that ends in the middle of the image; any allocation failing. Three entries are needed to see a choice replaced and then challenged, and transitivity concerns three entries |
| `get` | are results complete, separate and properly allocated across calls, in both builds and both modes? | images of 0, 1 and 3 blobs, base first, second and last, or missing; six places of the heap, of which the allocator may hand out any that is free; two results held at once; every allocation may fail; buffers below and above the page size |
| `lookup` | do tables and caches answer as the blobs do, over any sequence of registrations and changes? | two addresses, no tree or one of two trees in each, with the same nodes at different offsets; 19 paths, with and without unit address, through aliases, with slashes too many, and to nothing; a phandle above the cap of the cache; three levels, which the trees fill; any allocation failing; no bound on the number of calls |
| `readers` | do the getters write what the tree has, as far as the buffer goes, and nothing behind it? | a tree of one node and one of six, with lists whose strings begin or end as others, an empty value, numbers of each width, a `reg` with cells left over; buffers of the size asked for and of six others, below and above each; indices from -1 to 3; formats of up to three letters |
| `write` | is what a reader finds in a blob what was written into it? | three buffers that overlap in a memory of 32 cells, in which two properties fit with both names, one the end of the other, or a property inside a node, and one too small for a header; a reservation; both ways of storing names; values with and without padding; no bound on the calls |
| `edit` | does each call change the one thing it is for, in every order of calls? | trees made anew and two made by other tools, one with its blocks in another order and one with gaps between them; three overlapping buffers in 60 cells, without room, with a little and with more; two node names, one with a unit address, and one with a slash; two property names, one the end of the other; `MaxStruct`, `MaxValue` and `MaxReserved` bound what is edited further: a tree of three nodes, or of one with two properties |
| `pool` | is an entry ever handed out twice, or lost? | four blocks of two entries; three are needed for a block between two others, four for one to be made while three are full; no bound on the calls |
| `overlay` | do all references find the nodes they were written for, over several overlays? | three trees, overlays of one and two fragments, in which a fragment may be about a node of the other, symbols, and nine that cannot be applied; cells up to 15, so that phandles meet their limit; three overlays one after the other |
| `ufdt` | the same of libufdt, and is a list applied whole or not at all? | two trees, eight buffers of which four cannot be applied, lists of up to three, two calls on the same buffers, which the first has changed |

Runs that show the code departing from its documentation (section 6):
`premoved`, `wronghead`, `empty`. Their bounds are those of the passing run of the
module or smaller ones: `premoved` has the PRE mode only, and in `wronghead`
both addresses hold trees from the start.

Properties, by what could go wrong:

* The order of entries: `BaseIsFirst`, `SocIsBest`, `PlatIsBest`,
  `NeverDowngrades`, `ScoresMatch`.
* Sizes and addresses read from the image: `WalkKeepsToEntries`, `OpenReturns`
  (every open ends). What a read hands out: `ReadDeliversType`.
* Partial failure in get_dt: `BuffersAreGivenBack` (to `FREE_WRAPPER`, once, as
  what they were allocated; it releases only pages of the UEFI build twice).
  Growth in place and several
  calls: `WritesStayInside`, `UnmovedIsMerged`, `ReadsFindBlobs`.
* Tables against blobs: `LookupsAreRight`, `PhandlesAreRightIfBuilt`,
  `TablesAreSound` (a success means a whole table, and every answer is an entry
  of the level and the hash that was asked for).
* Sizes asked for and used, slices, products of indices: `AskedSizesSuffice`,
  `ValuesAreAllOrNothing`, `SlicesAreRight` (of an empty property also
  `EmptyLeavesValue`, which `empty` refutes), `RegIsRight`; handles that move on:
  `HandlesAreRight`.
* A half-written tree: `BlocksAreSound`, `FailureChangesNothing`,
  `NothingIsLost` (which is `TreeWriter`).
* An edited tree: `EditedIsReadable`, `FailureTakesNothing`,
  `ImplementsTreeEditor`.
* The pool's lists: `ListIsSound` (whole, blocks with room in front, no entry
  handed out twice, at most one spare block), `LeaksAreReported`,
  `ImplementsNodeSet`.
* Phandles and references: `PhandlesFindTheirNodes`, `PhandlesAreKept`,
  `PhandlesDoNotCollide`, `ImplementsOverlayMerge` (of both libraries). Nodes
  that move between trees: `TreesAreSound`.
* `TypeOK` of `DtSelect`, `GetDt`, `DtbCache`, `FdtSw` and `NodePool`. In
  `FdtRw`, `FdtOverlay`, `UfdtOverlay` and `Readers` the refinements and the
  other invariants constrain the same variables, and a type invariant of its own
  would add nothing.

Each refinement is a property of a run: `TreeWriter` of `write`, `TreeEditor` of
`edit`, `NodeSet` of `pool`, `OverlayMerge` of `overlay` and `ufdt`.

Fairness: only `OpenReturns` is a liveness property. `Spec` of `DtSelect` has
weak fairness of `Walk`, the turns of the loop inside one C function: once
`dt_select_open` has been entered nothing but its own return can stop it. No
fairness is assumed of the client's calls, and all other components do their
work in loops over finite data inside one call. Deadlock is checked in every run.

## 4. What is proved

TLC looks at the small instances of section 3. The theorems below hold for every
value of the constants that meets the named assumption of the module
(`ConstantsAreTyped` and, of the memory a buffer is made of, `LeftoversAreCells`,
of blobs to be edited, `LoadedAreBlobs`; TLC evaluates them on each run): every image, tree, buffer, order of calls and failure. All have
the form `Spec => []P` or `Spec => [][A]_vars`, or are refinements
(`PoolIsNodeSet`, `WriterIsTreeWriter`), and are proved from an inductive
invariant: it holds at the start, each action keeps it (one lemma per action),
and it implies the property, or that each step is one of the abstract
specification or a stutter. Theorems of the same name, such as
`TypeCorrect`, are in modules of their own.

| Module | Theorem | Property of a run that it states |
|---|---|---|
| `DtSelect_proofs` | `TypeCorrect`, `BaseSelectionIsFirst`, `SocSelectionIsBest`, `PlatSelectionIsBest`, `ScoresBelongToHeld`, `WalkNeverDowngrades`, `WalkStaysInside`, `ReadsDeliverType` | `TypeOK`, `BaseIsFirst`, `SocIsBest`, `PlatIsBest`, `ScoresMatch`, `NeverDowngrades`, `WalkKeepsToEntries`, `ReadDeliversType` |
| `GetDt_proofs` | `TypeCorrect`, `ChosenBlobsAreRead`, `ResultsAreMerged`, `NothingIsLost`, `WritesAreInside` | `TypeOK`, `ReadsFindBlobs`, `UnmovedIsMerged`, `BuffersAreGivenBack`, `WritesStayInside` |
| `DtbCache_proofs` | `TypeCorrect`, `TablesStaySound`, `PhandlesAreFound` | `TypeOK`, `TablesAreSound`, `PhandlesAreRightIfBuilt` |
| `NodePool_proofs` | `TypeCorrect`, `ListStaysSound`, `LeaksAreAlwaysReported`, `PoolIsNodeSet` | `TypeOK`, `ListIsSound`, `LeaksAreReported`, `ImplementsNodeSet` |
| `FdtSw_proofs` | `TypeCorrect`, `BlocksStaySound`, `FailuresAreHarmless`, `WriterIsTreeWriter` | `TypeOK`, `BlocksAreSound`, `FailureChangesNothing`, `NothingIsLost` |
| `FdtRw_proofs` | `EditedStaysGood`, `EditedStaysReadable`, `FailedEditTakesNothing` | (the inductive invariant), `EditedIsReadable`, `FailureTakesNothing` |
| `UfdtOverlay_proofs` | `TreesStaySound` | `TreesAreSound` |

### Selection

    SelectionInv == TypeOK /\ Behind /\ ScoresMatch /\ BaseIsFirst /\ SocIsBest /\ PlatIsBest

Best-so-far is not inductive alone: the code compares a new entry with a
*score*, so the score must be that of the blob held (`ScoresMatch`), and a tie
goes to the earlier entry, so the entry under examination must lie behind all
those examined (`Behind`: the walk only moves forward; sizes are positive). The
argument:

1. `VersionOrder`: two packed versions compare as the pairs of fields do, since
   a minor version is smaller than the shift (the assumption on the fields).
2. `SocBeatsMeaning`, `PlatBeatsMeaning`: comparing ranks and packed versions is
   outranking as stated on the fields.
3. `SocOrder`, `PlatOrder`: outranking is transitive, also through ties.
4. `SocStores`, `PlatStores`: a held blob that is preferred to all the earlier
   ones and is kept or replaced by the comparison is preferred to all.
5. `BaseStep`, `SocStep`, `PlatStep`, `ScoresStep`, `BehindStep`: one lemma per
   part of the invariant over the cases of a step (`StepCases`), combined in
   `SelectionStep`.

`WalkStaysInside` follows the header pointer: a turn goes on only when the entry
under examination ends inside the image, and then from its end, so the entries
tile the image up to the pointer (`EntriesTile`, inductive with
`SelectionInv`). `ReadsDeliverType` adds `DeliveredInv`: `dt_select_read_blob`
compares sizes only, and that is enough because a place in which nothing is
selected has the size 0, which no read accepts (`SizeTellsSelected`), and what
is selected was accepted when it was examined.

### Retrieval

    GetInv == TypeOK /\ HeapIsApart /\ HeapIsOwned /\ ModeDecides /\ StepDecides
              /\ ImageIsInside /\ CallIsOnItsWay /\ UnmovedIsMerged /\ ReadsFindBlobs

`BuffersAreGivenBack` says only what is left when a call has returned, and that in
POST mode `FREE_WRAPPER` was given live allocations, of their number of pages. For
that the invariant must say who owns each allocation in the middle of a call
(`HeapIsOwned`), what each mode keeps where (`ModeDecides`), and which pointers
are set at which step (`StepDecides`), since the one exit decides by the pointers
what to free. Which buffers are released twice is an invariant of its own
(`OnlyPagesAreReleasedTwice`, kept by each step: `StepReleasesOnce`), as they are
gone from the state. `UnmovedIsMerged` is about a result; `CallIsOnItsWay` is what makes
it true, an equation that each merge keeps: what has been merged and what is
still to be merged make up `wanted`, and the sizes add up to the total that was
allocated. `WritesAreInside` uses the same equation in POST mode: the base has
grown to no more than the total, because the sizes of the overlays were counted
when it was allocated. That no write reaches a blob of the image rests on
`ReachedApart`: the blobs that the walk of dt_select reaches do not overlap. The
assumption on images is that every blob in one starts and ends inside of it.

### Tables and caches

    CacheInv == TypeOK /\ EntriesHaveLists /\ TablesHoldNodes /\ CachesAreRight
                /\ SuccessMeansWholeTable

The table of a blob that has not changed holds the first nodes of the blob, in
its order (`TablesHoldNodes`), however far the allocations went; a cache belongs
to a blob that has lists, and what it records is so in the blob
(`CachesAreRight`). The second is only true as long as no table was left half
built (`short`), because then phandles are recorded in the cache of another blob
(section 6, `wronghead`). From `CacheInv` an answer of a table is the last entry
of its hash and level, so it has the hash that was asked for, and an answer by
phandle is the node a search of the blob finds: a phandle recorded is right, one
not recorded, or above the cap of the array, is searched for in the blob itself.
`LargestPhandle` and `SizesAreRight` show that the array is as long as the
largest phandle below the cap asks for. No hash function is assumed.

### The pool

    PoolInv == TypeOK /\ ListIsSound

`ListIsSound` is inductive with the types, but none of its four parts without the
others: what is appended goes behind the list because its end is known
(`ListIsWhole`), no entry of a new block is in use because every node is in a
block of the pool (`NodesAreInBlocks`), and one block alone is to spare because a
first block without free entries says that all are full (`FreeInFront`).
`Removed`, `Appended` and `Moved` say what the operations on the linked list do,
with the end pointer that is stored apart. `PoolIsNodeSet` is the refinement,
proved step by step: each call is the call of `NodeSet` of the same meaning, and
`ufdt_node_pool_destruct` reports exactly when nodes are held
(`LeaksAreAlwaysReported`).

### The sequential writer

    WriterInv == mem \in Mem /\ fdt \in ... /\ ret \in ...
                 /\ (fdt # NULL => Writing(mem, fdt) \/ Finished(mem, fdt))

`Writing` says of the cells of the buffer what the header promises: the blocks lie
in the buffer without overlap, strings grow down from its end and end in a
terminator (`Layout`), the structure block is a chain of whole tags, and the name
of each property lies inside the strings (`IsWritten`). The chain is the notion
the proof turns on. The walk of `fdt_next_tag` is recursive and what it computes
is out of the prover's reach; `IsChain(m, at, size, T)` says instead that a set
`T` of offsets is where tags are, each tag ending at the next one of them, with no
offset between. A chain survives writes elsewhere and the move of its block
(`ChainSurvives`), grows by a whole tag (`ChainExtends`), and a walk that starts
at its beginning stays on it to its end (`ChainOffsets`, by `WalkExists`, which
shows that the recursive function is well defined because offsets only grow).

* Each call that adds a tag extends the chain (`BeginNodeKeeps`, `EndNodeKeeps`,
  `PropertyKeeps`); the name of a property is added to the strings before, or
  found in them, and lies inside them either way (`NamedIsWritten`).
* `ResizeKeeps`: the blob moves to another buffer, which may overlap the one it
  is in, with its strings at the new end.
* `FinishKeeps`: the names count from the end of the strings while writing and
  from their start afterwards; the pass that converts them walks the chain and
  meets each property once (`CorrectedCells`), and the strings are moved down
  behind `FDT_END`.
* `BlocksStaySound` then says that in every blob, in writing or finished, the
  blocks are in order and the walk of a reader ends exactly at the end of the
  structure, with every name terminated inside the strings.
* `FailuresAreHarmless`: the call that has written before it fails is
  `fdt_property`, which adds the name and takes it back when there is no room for
  the tag (`StringWithdrawn`); `fdt_finish` fails before it writes
  (`FinishFails`), since a chain of whole tags cannot make its walk stop.

`WriterIsTreeWriter` is the refinement of `TreeWriter`, so that the cells do not
only stay readable but keep their meaning. Above `WriterInv` it needs
`ReservationsAre`: the entries of the reservation block are counted by a `k` up to
which each has a size and the next has none while they are being written.

* The pieces are a recursive function over a walk, and nothing recursive can be
  computed by the provers. `Reading(m, at, strs, size, T, e)` says instead what `e`
  must give at each offset of the chain: the pieces from there on. `PiecesRead`
  shows that the mapping's `pieces` is the value of such a reading at 0.
* `ReadingsAgree`: two chains of which the second continues the first, with the
  same pieces at the tags of the first (`SamePieces`), read as `e[0] \o h[size]`.
  It is shown by the last offset of the chain where that were wrong, since a chain
  has a last offset. From it come the two cases of a call: one that keeps the
  chain (`KeepsPieces`, `PiecesKept`) and one that adds a tag to it (`AddsPiece`,
  `PieceAdded`).
* What has to be shown of a call is then about single cells: each tag of the chain
  and its contents are copied (`PiecesAreSame`), and so is the string its name
  leads to, wherever the strings are now (`NamesAreSame`).
* `PropertyIsWritten`: what a reader finds behind a new tag is the value that was
  given and, through the offset, the name: one that was in the strings already
  (`FoundNameLies`), which may be the end of another, or one that was just added
  (`AddedNameLies`).
* `FinishIsStep`: after the pass over the offsets and the move of the strings each
  name is read at the same string as before (`FinishedKeeps`).
* `CallsAreSteps` puts the calls together: each is a step of `TreeWriter` or
  leaves `stage`, `reserved` and `pieces` alone, which a refused call and
  `fdt_resize` do.

The assumptions: buffers lie in memory, names are without terminator inside and
shorter than the header (section 5), values are of natural numbers, tags are of
positive size.

### Editing

    EditedIsGood == Good(mem, fdt)

`EditedIsReadable` is about the blob as a reader finds it and is far from
inductive: a call that cuts out a node relies on where the node ends, and one that
moves a block on what the header says of all the others. `Good` says that memory
is one blob in a buffer and left-over cells around it, and of that blob
(`Blob`):

* the numbers in the header fit (`Fit`): the blocks are behind the header, apart
  from each other and inside `totalsize`;
* the reservations end where they are counted to end;
* the structure block is a chain of whole tags (`IsChain`, as in the sequential
  writer) with a depth for each (`IsStruct`): a `FDT_BEGIN_NODE` goes one down, a
  `FDT_END_NODE` one up, the block begins and ends at depth 0;
* each property names a string that ends inside the strings block.

The depths are what is needed beyond the writer's chain. `fdt_node_end_offset_` and
`fdt_first_property_offset` walk from a tag in the middle of the block; that the
first ends at all, behind the node and as deep as the node began, is `NodeEndIs`,
and `PropsEndIs` is the same of the properties.

* `StructRespliced` is the step the proof turns on: where tags from depth *d* to
  depth *e* are replaced by others that lead from *d* to *e* (`Leads`), and
  the blocks behind are moved by the difference, the blob is one again. Cutting out
  (`StructCut`), inserting (`InsertIsSound`), changing the size of a property
  (`ResizeIsSound`), a node's name (`SetNameIsGood`) and overwriting with
  `FDT_NOP` (`NopRegionIsSound`) are cases of it; each has to show only what its
  own cells lead to.
* `StringsGrow`: a new name goes behind the last block and changes nothing in
  front. If then there is no room for the property, `RolledBackIs` shows that the
  header is as it was, and the cells of the name are left over again.
* `RsvEdited`: an entry of the reservations is spliced in front of both other
  blocks, which move together.
* `ThreeMove`: packing and opening move three blocks one after the other, and
  none may be written over before it is moved. In the order of the blocks moving
  down is safe; a blob with its blocks in another order is put together in
  another place first, and if `Apart` says that the places overlap, behind the
  blob (`OpenIntoIsGood`).

The assumptions: those of the sequential writer, and `LoadedAreBlobs`.

### The trees of libufdt

    OverlayInv == BlobsAreTyped /\ CallIsAt /\ TreesHaveNodes /\ BlobsAreKnown /\ TableIsOfMain

`TreesAreSound` counts: the pool has handed out as many nodes as the two trees have
slots. `TreesHaveNodes` is what makes the count right and can be kept by a step: in
each tree no two slots have the same node (`IsTree`), the trees share none, and
the nodes handed out are those of the trees (`NodesAreCounted` leads back to the
count).

* `MergeKeepsTrees` is the step the proof turns on, `ufdt_node_merge_into`: a slot
  below the fragment's node moves to the slot of the target that has the same path
  below it. `MovedFrom` shows that moving is injective, so no node of the main tree
  is replaced by two, and none is lost: a node of the overlay that finds a slot
  taken goes back to the pool, with its place.
* A target is a node of the main tree (`TargetIsInMain`). By path it is searched
  for there; by phandle it comes from the table, and that the table has nodes of
  the main tree only (`TableIsOfMain`, `TableIsOfTree`) is a fact of its own, since
  the table is not built again for each fragment and fragments move nodes.
* The nodes of the next overlay must be new. A node is known by the blob its tag is
  in, the blobs of all nodes are among the string tables of the main tree
  (`BlobsAreKnown`, the half of `MainTreeIsWhole` on names), and those are of the
  overlays whose turn has been (`BlobsOfTurns`), which the next one is not
  because no buffer is twice in a list.
* Flattening the main tree gives a blob again (`FlattenedIsContent`), also when it
  is the device tree of the next call.

The assumptions: blobs have finitely many nodes and properties, paths are sequences
of names, and the overlays of one call are in different buffers. With the same
buffer twice in a list the second pass would change the cells the first one's
nodes point to; the repository has no caller of `ufdt_apply_multioverlay` that
could show whether this is meant to be allowed.

### Only model-checked

* `OpenReturns`: liveness is out of the prover's reach.
* `LookupsAreRight`: its reference is the descent of `fdt_path_offset`, a recursive
  definition over a path and a tree. What is proved is the half about the
  table: entries are of the nodes they name, and an answer has the hash asked for.
* `ImplementsTreeEditor`: the refinement mapping computes the pieces of a tree from
  its cells, as that of the sequential writer does. Here a call replaces pieces in
  the middle, and the abstract editor says which by a walk of its own over them,
  so that a proof has to relate two walks. That the edited blob can be read
  and how deep each tag is, is proved.
* `ImplementsOverlayMerge` of both libraries, `PhandlesFindTheirNodes`,
  `PhandlesAreKept`, `PhandlesDoNotCollide`: they renumber and resolve the cells
  of trees by folds over all their properties.
* The properties of `Readers`: not attempted.

## 5. What is left out

Logging and the text of prints; the bytes of names, but for what they share.

* `GetDt`: the trees themselves (they are in `FdtOverlay`), the
  `GET_DT_ERR_SIZE_OVERFLOW` exit (sizes of disjoint blobs of one address space
  do not overflow when added) and the `INVALID_BASE_DTB_PTR` exit (a selected
  address is never before the start). Use of a handle after `dt_select_close` is
  undefined behaviour of a client and not modelled.
* `DtbCache`: trees as deep as the table has levels (the code indexes past it),
  concurrent lookups, which would share the static path buffers, the size of a
  blob, profiling.
* `FdtSw`: names longer than the header, for which the unsigned arithmetic of
  `fdt_add_string_` wraps around.
* `FdtOverlay`: what a failed step has changed before the magic numbers are
  erased; the layout of the blobs, which is `FdtRw`'s.
* `UfdtOverlay`: `ufdt_prop_dict.c` (which of two properties of one name is
  found), aliases, the order of children, headers other than whole ones and ones
  without magic number, allocations whose result is not looked at.
* `Readers`: checks of null arguments, the same for all calls, and tracing.
* libfdt: `fdt_check_full` and searches no component uses.
* The environment's logging and formatting wrappers; the host tool `mkdtimg`
  (option parsing and file output around a table writer), libufdt's wrappers of
  the C library and its test programs, and the log script, which keep no state
  that several steps could break.

## 6. Where the code departs from its documentation

Shown by a run:

* `premoved`: PRE mode moves a base DTB that is not first and returns the
  address it was moved from (get_dt.c:183, 237).
* `wronghead`: phandles are recorded in the newest cache, which is another
  blob's when a failed registration is retried (DTBExtnLib_node.c:1910).
* `empty`: the getters of one value return success for an empty property with
  bytes from behind it, where inc/DTBExtnLib.h:171, :200, :241, :282 and :323 say
  that they leave the parameter alone (DTBExtnLib_prop.c:165, :245).

In the models as the code has them, or left out of them, without a run of their
own:

Selection and retrieval

* A failed allocation during the OEM-variant check hides a platform DTBO, and
  `dt_select_open` still succeeds (dt_select.c:1901, 2138), although
  inc/dt_select.h:39 and :51 promise the best blobs and an error if any operation
  fails. `PlatIsBest` says that the choice is the best of all other entries.
* Without the size of the image, an image whose last blob does not end on an
  8-byte boundary is an error, not the end (dt_select.c:1681, fdt.c:94; the
  comment at dt_select.c:2414 says that the size may be 0).
* A NULL compatible string selects any entry of the type; the comment at
  dt_select.c:1522 says it selects none (the check is at dt_select.c:1168).
* An empty chip-info property asks the allocator for 0 bytes (dt_select.c:899);
  a diagnostic print that fails fails the whole selection (dt_select.c:2487);
  `dt_select_close` leaves the guard word set that the check of handles looks at
  (dt_select.c:2611).
* The result of PRE mode is no allocated memory, which get_dt.h:29 says it is,
  and PRE mode with a size of 0 moves 0 bytes and then fails to merge.
* The UEFI `FREE_WRAPPER` releases a buffer of a page or more twice, with FreePages
  and then, as there is no `else`, with FreePool (dt_select_env.c:140-149), although
  inc/get_dt.h:58 says only that the memory is freed. `OnlyPagesAreReleasedTwice`,
  a part of `BuffersAreGivenBack`, says of which buffers this is true and that it
  is of no others; what the firmware does with the second call is not modelled.

Blob handles and tables

* The configuration of a merged blob is read through the table of the blob before
  the merge, since the table is disabled after it (`ReadConfig`;
  DTBExtnLib_blob.c:154), although README.md:434 says that merging disables it.
  Until a merged blob is registered again, lookups answer with the offsets from
  before (DTBExtnLib_node.c:815).
* A path with the hash of another on its level finds that one's node, as "/Ab"
  and "/BA" do under DJB2 (DTBExtnLib_node.c:475; the comment at line 54 leaves
  the second hash off). With a table, a path without unit address prefers the
  node of exactly that name, where fdt_path_offset takes the first that matches
  (DTBExtnLib_node.c:812). `LookupsAreRight` therefore needs an injective hash and
  no node behind one that has the same name and a unit address.
* A blob whose check failed still gets its table built, and the table's status is
  returned: success for a blob that is not registered (DTBExtnLib_blob.c:179).
* Disabling the tables zeroes the `blob_list_node`s and does not free them
  (DTBExtnLib_node.c:728). The depth that indexes the table is not checked against
  it (DTBExtnLib_node.c:470), and the buffers for paths are static
  (DTBExtnLib_node.c:833).
* README.md:434 says that a table is built once per DTB. The table that a second
  registration disables is built again by a third one, and disabling it drops
  the tables of all other blobs as well; the lookups stay right.

Getters and accessors

* `fdt_get_reg` passes over a reg_name that is not found and returns the entry of
  reg_index without an error (DTBExtnLib_driver.c:217-227; the comment at line 139
  calls it "NULL or name of index in range to return"). The product of index and cells is an `int` and may overflow.
* The numeric getters with a buffer for more elements than the property has copy
  as many as the buffer takes, from beyond the property, when it is not empty too
  (DTBExtnLib_prop.c:245; `SlicesAreRight` says of these elements only that they
  stay inside the buffer); an index equal to the count of elements passes the first check.
* `fdt_get_bool_prop` divides by zero for a property with a value.
* `fdt_get_cache_of_subnodes` with a count of 0 writes the first element, and
  `fdt_get_size_of_subnode_names` the one behind the last; two calls return a
  truncation as a positive number, and the branch for an empty value of
  `fdt_get_prop_values_of_node` cannot be reached.
* `fdt_get_next_node_handle_for_compatible` never returns the root.

Writing and editing

* `fdt_add_string_` computes the room for a name in unsigned numbers
  (fdt_sw.c:259).
* `fdt_add_prop_list_u16` to `_u64` convert the array of the caller in place, so
  that a call repeated after `NOSPACE` writes swapped values.
* `fdt_open_into` of a blob with misordered blocks, in place, reads `boot_cpuid`
  from the header it has overwritten.

Overlays and libufdt

* Two fragments that give two phandles to one new node make references to the
  first one dangle (fdt_overlay.c:663); the offsets in the table of local fixups
  are not checked (fdt_overlay.c:240).
* `ufdt_apply_overlay` with an overlay without magic number returns success with
  nothing applied. Phandles wrap around without a check (ufdt_overlay.c:63), a
  phandle in an overlay replaces the one the node has (ufdt_node.c:238), a label
  whose node has no phandle is replaced by 0 (ufdt_overlay.c:293), a fragment is
  not found a target among the nodes its own overlay adds, and the old phandle
  table is not freed (ufdt_overlay.c:745). The instances of `UfdtOverlay` keep to
  overlays that do none of this.
* The array of string tables grows without a check of the size asked for
  (ufdt_convert.c:374), and a block of the pool is written to without a look at
  whether it was allocated (ufdt_node_pool.c:91).

## 7. Plan

The model is complete as far as section 5 says. What is left is to prove more:

1. `ImplementsTreeEditor`: the readings of a chain (section 4) for a splice in its
   middle, where `StructRespliced` has the chain before and after.
2. `PhandlesDoNotCollide` and the half of `LookupsAreRight` that is about the
   descent of a path, each with a recursive definition to state by what it must
   satisfy, as `Reading` does for the walk.
3. `Readers`: `ValuesAreAllOrNothing` and `RegIsRight`, which are about single
   calls; `FdtOverlay`: `PhandlesFindTheirNodes`.
