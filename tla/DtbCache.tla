------------------------------- MODULE DtbCache -------------------------------
(***************************************************************************)
(* The handles of libs/DTBExtnLib/DTBExtnLib_blob.c and the lookups of     *)
(* DTBExtnLib_node.c, built with ENABLE_HASH_FOR_DTB: setting a blob       *)
(* handle also builds a table of its nodes by the hash of their path and   *)
(* an array of node offsets by phandle.  Lookups are answered from them,   *)
(* and by libfdt on the blob itself where they have no answer.             *)
(*                                                                         *)
(* A blob is the sequence of its nodes in preorder; the node at index i    *)
(* has offset i - 1.  Other code changes the bytes at a blob's address: an *)
(* overlay is applied there, or another image is read.  A node's path is   *)
(* the sequence of the names from the root; callers spell paths as they    *)
(* like, as sequences of names and slashes, with an alias first or with    *)
(* slashes too many.                                                       *)
(***************************************************************************)
EXTENDS Integers, Sequences, SequencesExt, FiniteSetsExt

CONSTANTS
    Blobs, NULL,   \* the addresses of device trees, and the null pointer
    BlobIds,       \* the indices of dtb_blob
    Trees,         \* what an address may hold; << >> is no device tree
    Queries,       \* the paths callers ask for
    BootPath,      \* the path "/sw/boot"
    Aliases,       \* the properties of nodes "/aliases", names to paths
    Stem,          \* a node's name without its unit address
    Hash,          \* Hash, or the pair of Hash and Hash2, of a path as spelled
    HashLevels,    \* hash_table_level
    MaxPhandle,    \* MAX_PHANDLE_CACHE_SIZE
    MallocFails    \* whether __dtb_malloc may fail

Node    == [path : Seq(DOMAIN Stem), phandle : Nat, config : Nat]
Invalid == << >>

SLASH == "/"

(* The path of a node as Recursive_find_subnode spells it *)
Spelled(names) ==
    IF names = << >> THEN <<SLASH>>
    ELSE FlattenSeq([i \in 1..Len(names) |-> <<SLASH, names[i]>>])

NamesIn(path) == SelectSeq(path, LAMBDA c : c # SLASH)

(* The slashes in a path.  "/" has one, as "/soc" has. *)
path_depth(path) == Len(SelectSeq(path, LAMBDA c : c = SLASH))

(* The path above the last name, by the last slash before it, or none:     *)
(* "." and what is above nothing but slashes are not in any table.         *)
dirname(path) ==
    LET named == SubSeq(path, 1, SelectLastInSeq(path, LAMBDA c : c # SLASH))
        slash == SelectLastInSeq(named, LAMBDA c : c = SLASH)
    IN  IF slash = 1 \/ (slash = 2 /\ named[1] = SLASH) THEN <<SLASH>>
        ELSE SubSeq(named, 1, slash - 1)

(* Trees are in preorder from the root, each child behind its parent, with *)
(* unique paths and phandles, and less deep than the table has levels.     *)
(* Every path has a hash.                                                  *)
WellFormed(t) ==
    /\ t \in Seq(Node)
    /\ t # Invalid => t[1].path = << >>
    /\ \A i \in 2..Len(t) :
          /\ t[i].path # << >>
          /\ \E j \in 1..(i - 1) : t[j].path = Front(t[i].path)
    /\ \A i \in 1..Len(t) :
          /\ path_depth(Spelled(t[i].path)) \in 1..(HashLevels - 1)
          /\ Spelled(t[i].path) \in DOMAIN Hash
    /\ \A i, j \in 1..Len(t) : i # j =>
          /\ t[i].path # t[j].path
          /\ t[i].phandle = t[j].phandle => t[i].phandle = 0

ASSUME ConstantsAreTyped ==
    /\ NULL \notin Blobs
    /\ HashLevels \in Nat \ {0, 1} /\ MaxPhandle \in Nat \ {0}
    /\ MallocFails \in BOOLEAN
    /\ BootPath \in Queries
    /\ \A t \in Trees : WellFormed(t)
    /\ \A q \in Queries : q # << >> /\ path_depth(q) < HashLevels
    /\ \A name \in DOMAIN Aliases : Head(Aliases[name]) = SLASH

VARIABLES
    memory,             \* what each address holds
    dtb_blob,           \* the registered blob of each id
    dtb_config,         \* the config property last read
    lists,              \* phead_hash_node_table: on how many levels a blob has a list
    hash_node,          \* a blob's entries on these levels, oldest first
    phandle_cache,      \* the list from phandle_cache_root
    stale,              \* history: blobs that changed since their table was built
    short,              \* history: a table that is still there was built with too
                        \*   little memory
    returned            \* history: the last fdt_set_blob_handle and what it returned

tables == <<lists, hash_node, phandle_cache>>
vars   == <<memory, dtb_blob, dtb_config, tables, stale, short, returned>>

Entry == [hash : {Hash[p] : p \in DOMAIN Hash}, level : 1..HashLevels, offset : Nat]
Cache == [blob : Blobs, array : Seq(Nat)]

TypeOK ==
    /\ memory \in [Blobs -> Trees]
    /\ dtb_blob \in [BlobIds -> Blobs \cup {NULL}]
    /\ dtb_config \in Nat
    /\ lists \in [Blobs -> 0..HashLevels]
    /\ hash_node \in [Blobs -> Seq(Entry)]
    /\ phandle_cache \in Seq(Cache)
    /\ stale \subseteq Blobs /\ short \in BOOLEAN
    /\ returned \in [blob : Blobs \cup {NULL}, status : {"NOERROR", "ERROR"}]

----------------------------------------------------------------------------
(* libfdt on a tree *)

NotFound == -1

(* The least of a set of indices as an offset. *)
FirstOf(S) == IF S = {} THEN NotFound ELSE Min(S) - 1

(* A name without unit address also finds nodes that have one. *)
NameMatches(q, name) == q = name \/ q = Stem[name]

fdt_subnode_offset(t, offset, q) ==
    FirstOf({i \in 2..Len(t) :
        /\ offset + 1 \in 1..Len(t)
        /\ Front(t[i].path) = t[offset + 1].path
        /\ NameMatches(q, Last(t[i].path))})

Descend(t, names) ==
    FoldLeft(LAMBDA offset, q :
                IF offset = NotFound THEN NotFound
                ELSE fdt_subnode_offset(t, offset, q), 0, names)

(* The names an alias stands for, if the tree has it *)
fdt_get_alias(t, name) ==
    IF name \in DOMAIN Aliases /\ Descend(t, <<"aliases">>) # NotFound
    THEN {NamesIn(Aliases[name])} ELSE {}

fdt_path_offset(t, path) ==
    IF t = Invalid THEN NotFound
    ELSE IF Head(path) = SLASH THEN Descend(t, NamesIn(path))
    ELSE LET found == fdt_get_alias(t, Head(path))
         IN  IF found = {} THEN NotFound
             ELSE Descend(t, (CHOOSE names \in found : TRUE) \o Tail(NamesIn(path)))

fdt_node_offset_by_phandle(t, phandle) ==
    FirstOf({i \in 1..Len(t) : phandle # 0 /\ t[i].phandle = phandle})

fdt_get_max_phandle(t) == Max({t[i].phandle : i \in 1..Len(t)})

----------------------------------------------------------------------------
(* Lookups *)

(* The youngest entry with the hash, among those on the path's level. *)
find_node(b, path) ==
    IF path_depth(path) >= lists[b] THEN NotFound
    ELSE LET i == SelectLastInSeq(hash_node[b], LAMBDA e :
                      e.level = path_depth(path) /\ e.hash = Hash[path])
         IN  IF i = 0 THEN NotFound ELSE hash_node[b][i].offset

(* Mutated form: a table is taken to answer for all of its blob. *)
fdt_get_node_handle_NoFallback(b, path) ==
    IF lists[b] > 0 THEN find_node(b, path) ELSE fdt_path_offset(memory[b], path)

(* By the path's entry, or below its parent's, or on the blob. *)
fdt_get_node_handle(b, path) ==
    LET node    == find_node(b, path)
        parent  == find_node(b, dirname(path))
        subnode == fdt_subnode_offset(memory[b], parent, Last(NamesIn(path)))
    IN  CASE node # NotFound -> node
          [] node = NotFound /\ parent # NotFound /\ subnode # NotFound -> subnode
          [] OTHER -> fdt_path_offset(memory[b], path)

(* The first cache of the blob that is large enough; 0 is no answer. *)
fdt_get_phandle_node(b, phandle) ==
    LET i == SelectInSeq(phandle_cache, LAMBDA c :
                 c.blob = b /\ phandle < Len(c.array))
        cached == IF i = 0 THEN 0 ELSE phandle_cache[i].array[phandle + 1]
    IN  IF cached > 0 THEN cached ELSE fdt_node_offset_by_phandle(memory[b], phandle)

----------------------------------------------------------------------------
(* CreatDtbHashTable *)

is_merge_dtb(b) == lists[b] > 0

(* Mutated form: the caches are left. *)
free_tables_CachesKept ==
    /\ lists' = [b \in Blobs |-> 0]
    /\ hash_node' = [b \in Blobs |-> << >>]
    /\ UNCHANGED phandle_cache

(* free_hash_tables and free_phandle_to_node_cache: every blob's.          *)
free_tables ==
    /\ lists' = [b \in Blobs |-> 0]
    /\ hash_node' = [b \in Blobs |-> << >>]
    /\ phandle_cache' = << >>

Zeros(n) == [i \in 1..n |-> 0]

(* The possible sizes of the blob's new array, 0 for none: of what is no   *)
(* tree, the walk for the largest phandle makes anything.                  *)
CacheSizes(b) ==
    LET Size(max) == IF max = 0 THEN 0 ELSE Min({max, MaxPhandle}) + 1
    IN  IF \E i \in 1..Len(phandle_cache) : phandle_cache[i].blob = b THEN {0}
        ELSE IF memory[b] = Invalid THEN 0..(MaxPhandle + 1)
        ELSE {Size(fdt_get_max_phandle(memory[b]))}

alloc_phandle_to_node_cache_space(b, size) ==
    IF size = 0 THEN phandle_cache
    ELSE <<[blob |-> b, array |-> Zeros(size)]>> \o phandle_cache

(* Mutated form: the depth of the parent, as it is passed down. *)
AddedHashNodes_ParentDepth(b, n) ==
    [i \in 1..n |-> [hash   |-> Hash[Spelled(memory[b][i].path)],
                     level  |-> path_depth(Spelled(memory[b][i].path)) - 1,
                     offset |-> i - 1]]

(* Mutated form: the offset is taken after the step to the next node. *)
AddedHashNodes_NextOffset(b, n) ==
    [i \in 1..n |-> [hash   |-> Hash[Spelled(memory[b][i].path)],
                     level  |-> path_depth(Spelled(memory[b][i].path)),
                     offset |-> i]]

(* Recursive_find_subnode has added the first n nodes of the tree, and     *)
(* recorded the phandle of each and of the one it could not add.  It       *)
(* records in the head of the list, whosever array that is.                *)
AddedHashNodes(b, n) ==
    [i \in 1..n |-> [hash   |-> Hash[Spelled(memory[b][i].path)],
                     level  |-> path_depth(Spelled(memory[b][i].path)),
                     offset |-> i - 1]]

RecordedPhandles(b, n, caches) ==
    LET t       == memory[b]
        visited == IF n = 0 THEN {} ELSE 2..Min({n + 1, Len(t)})
        At(p)   == {i \in visited : t[i].phandle = p}
    IN  IF caches = << >> THEN caches
        ELSE [caches EXCEPT ![1].array = [k \in 1..Len(@) |->
                 IF k > 1 /\ At(k - 1) # {} THEN Max(At(k - 1)) - 1 ELSE @[k]]]

Status(b, nodes) ==
    IF nodes = Len(memory[b]) /\ memory[b] # Invalid THEN "NOERROR" ELSE "ERROR"

(* Room is how many allocations succeed: the cache and its array, a list   *)
(* for each level, the nodes.                                              *)
BuildTables(b, size, room) ==
    LET forCache == IF size = 0 THEN 0 ELSE 2
        newLists == Min({room - forCache, HashLevels})
        nodes    == Min({Max({room - forCache - HashLevels, 0}), Len(memory[b])})
        caches   == alloc_phandle_to_node_cache_space(b, size)
    IN  /\ short' = (short \/ room < forCache + HashLevels + Len(memory[b]))
        /\ IF room < forCache
           THEN /\ returned' = [blob |-> b, status |-> "ERROR"]
                /\ UNCHANGED tables
           ELSE /\ lists' = [lists EXCEPT ![b] = newLists]
                /\ hash_node' = [hash_node EXCEPT ![b] = AddedHashNodes(b, nodes)]
                /\ phandle_cache' = RecordedPhandles(b, nodes, caches)
                /\ returned' = [blob |-> b, status |-> Status(b, nodes)]

(* Up to as much room as the blob needs. *)
Rooms(b) == LET Enough == 2 + HashLevels + Len(memory[b])
            IN  IF MallocFails THEN 0..Enough ELSE {Enough}

CreatDtbHashTable(b) ==
    \/ /\ is_merge_dtb(b)
       /\ free_tables
       /\ stale' = {} /\ short' = FALSE
       /\ returned' = [blob |-> b, status |-> "NOERROR"]
    \/ /\ ~is_merge_dtb(b)
       /\ \E size \in CacheSizes(b), room \in Rooms(b) : BuildTables(b, size, room)
       /\ stale' = stale \ {b}

----------------------------------------------------------------------------
(* The callers *)

Init ==
    /\ memory \in [Blobs -> Trees]
    /\ dtb_blob = [id \in BlobIds |-> NULL]
    /\ dtb_config = 0
    /\ lists = [b \in Blobs |-> 0]
    /\ hash_node = [b \in Blobs |-> << >>]
    /\ phandle_cache = << >>
    /\ stale = {} /\ short = FALSE
    /\ returned = [blob |-> NULL, status |-> "NOERROR"]

(* The config property of the node "/sw/boot", or what was read before. *)
ReadConfig(b) ==
    LET i == fdt_get_node_handle(b, BootPath) + 1
    IN  IF i \in 1..Len(memory[b]) /\ memory[b][i].config # 0
        THEN memory[b][i].config ELSE dtb_config

(* Fits is whether bsize holds what the header announces. *)
fdt_check_for_valid_blob(b, fits) == memory[b] # Invalid /\ fits

(* The table is built, and its status returned, also where the check fails. *)
fdt_set_blob_handle(b, fits, id) ==
    /\ \/ /\ fdt_check_for_valid_blob(b, fits)
          /\ dtb_config' = ReadConfig(b)
          /\ dtb_blob' = [dtb_blob EXCEPT ![id] = b]
       \/ /\ ~fdt_check_for_valid_blob(b, fits)
          /\ UNCHANGED <<dtb_config, dtb_blob>>
    /\ CreatDtbHashTable(b)
    /\ UNCHANGED memory

(* Other code writes over the blob. *)
Change(b) ==
    /\ \E t \in Trees \ {memory[b]} : memory' = [memory EXCEPT ![b] = t]
    /\ stale' = stale \cup {b}
    /\ UNCHANGED <<dtb_blob, dtb_config, tables, short, returned>>

Next ==
    \E b \in Blobs :
        \/ \E fits \in BOOLEAN, id \in BlobIds : fdt_set_blob_handle(b, fits, id)
        \/ Change(b)

Spec == Init /\ [][Next]_vars

----------------------------------------------------------------------------
(* Properties *)

(* fdt_get_node_handle: whatever was set, set again, disabled or left half *)
(* built for this blob and for others, a path finds in a blob that did not *)
(* change under its table the node it finds without a table.               *)
LookupsAreRight ==
    \A b \in Blobs \ stale, path \in Queries :
        fdt_get_node_handle(b, path) = fdt_path_offset(memory[b], path)

(* find_node: whatever was built, freed or left half built, the entry that *)
(* answers for a path is of a node of the blob whose path has the hash     *)
(* asked for.  Only two paths of one hash can be taken for each other.     *)
AnswersHaveTheHash ==
    \A b \in Blobs \ stale, path \in Queries :
        LET i == find_node(b, path) + 1
        IN  i # 0 => /\ i \in 1..Len(memory[b])
                     /\ Hash[Spelled(memory[b][i].path)] = Hash[path]

(* fdt_get_phandle_node: likewise, a phandle finds its node. *)
PhandlesAreRight ==
    \A b \in Blobs \ stale : \A phandle \in 0..(MaxPhandle + 1) :
        fdt_get_phandle_node(b, phandle) = fdt_node_offset_by_phandle(memory[b], phandle)

(* That much is so as long as no table in use was built with an allocation *)
(* that failed (DTBExtnLib_node.c:604-624, :1905-1912).                    *)
PhandlesAreRightIfBuilt == ~short => PhandlesAreRight

(* fdt_set_blob_handle: NOERROR says that the blob has a whole table or    *)
(* none: no allocation that failed on the way is passed over.              *)
SuccessMeansWholeTable ==
    LET b == returned.blob
    IN  b \in Blobs \ stale /\ returned.status = "NOERROR" =>
            \/ lists[b] = 0 /\ hash_node[b] = << >>
            \/ lists[b] = HashLevels /\ Len(hash_node[b]) = Len(memory[b])

(* The tables: whole after a success, and every answer of the hash asked   *)
(* for (DTBExtnLib_node.c:475-480, :1820-1881).                            *)
TablesAreSound == SuccessMeansWholeTable /\ AnswersHaveTheHash
=============================================================================
