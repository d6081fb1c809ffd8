------------------------------ MODULE Readers ------------------------------
(* The calls of DTBExtnLib that read one node: its properties, as lists of *)
(* numbers or strings or packed in a structure, its names, its subnodes,   *)
(* its reg entries, and the handles of other nodes next to it.  Their      *)
(* results are in a buffer of the caller, who asks for its size first.     *)
(*                                                                         *)
(* A device tree is the sequence of its nodes in structure order, a handle *)
(* the position of one; properties and names are sequences of bytes.       *)
EXTENDS Integers, Sequences, SequencesExt, FiniteSetsExt

CONSTANTS
    DeviceTrees,     \* sequences of [depth, name, props], props of [name, value]
    Base,            \* the number of values of a byte
    MemSize,         \* the places of memory that are looked at
    Sizes,           \* sizes of buffers that were not asked for
    Indices,         \* first elements of slices, and entries of reg
    Formats,         \* formats of structures, a letter for each property
    Words,           \* strings that lists are searched for
    reg, reg_names, compatible   \* the names of these properties

ASSUME ReadersAssumption ==
    /\ Base \in Nat \ {0, 1} /\ MemSize \in Nat
    /\ Sizes \subseteq Nat /\ Indices \subseteq Int
    /\ \A tree \in DeviceTrees :
          /\ tree # << >> /\ tree[1].depth = 0
          /\ \A n \in 2..Len(tree) : tree[n].depth \in 1..(tree[n - 1].depth + 1)

VARIABLES
    blob,   \* the device tree
    node,   \* the handle that calls are given
    out,    \* the last call, what it returned and wrote
    walk    \* history: [from, compatible, seen, ended] of the search by compatible

vars == <<blob, node, out, walk>>

NUL == 0          \* the end of a string
FRESH == -1       \* memory as the caller initialised it
FOREIGN == -2     \* bytes behind a property
NoName == << >>

dt_uint8 == 1
dt_uint16 == 2
dt_uint32 == 4
dt_uint64 == 8

Nodes == DOMAIN blob
NamesIn(n) == {blob[n].props[k].name : k \in DOMAIN blob[n].props}
AllNames == UNION {NamesIn(n) : n \in Nodes}

(* fdt_getprop, of a property that is there *)
fdt_getprop(n, name) == SelectSeq(blob[n].props, LAMBDA p : p.name = name)[1].value

Untouched == [a \in 0..(MemSize - 1) |-> FRESH]

Put(memory, at, bytes) ==
    [a \in DOMAIN memory |->
        IF a - at \in 0..(Len(bytes) - 1) THEN bytes[a - at + 1] ELSE memory[a]]

(* n bytes of a property from the given one, and what follows it *)
BytesFrom(value, from, n) ==
    [k \in 1..n |-> IF from + k <= Len(value) THEN value[from + k] ELSE FOREIGN]

(* fdt16_to_cpu and the like of a list, on a little endian processor *)
ToCpu(bytes, width) ==
    [k \in 1..(width * (Len(bytes) \div width)) |->
        bytes[width * ((k - 1) \div width) + width - ((k - 1) % width)]]

Number(bytes) == FoldLeft(LAMBDA number, byte : number * Base + byte, 0, bytes)

----------------------------------------------------------------------------
(* libfdt's walks over nodes *)

fdt_first_subnode(n) ==
    IF n + 1 \in Nodes /\ blob[n + 1].depth = blob[n].depth + 1 THEN n + 1 ELSE 0

fdt_next_subnode(n) ==
    LET outside == {m \in Nodes : m > n /\ blob[m].depth <= blob[n].depth}
    IN  IF outside # {} /\ blob[Min(outside)].depth = blob[n].depth
        THEN Min(outside) ELSE 0

(* fdt_for_each_subnode *)
Subnodes(n) ==
    LET onwards[m \in Nodes \cup {0}] ==
            IF m = 0 THEN << >> ELSE <<m>> \o onwards[fdt_next_subnode(m)]
    IN  onwards[fdt_first_subnode(n)]

(* The last node of the depth up to n; 0 for FDT_ERR_NOTFOUND. *)
fdt_supernode_atdepth_offset(n, depth) ==
    IF depth < 0 THEN 0 ELSE Max({m \in 1..n : blob[m].depth = depth})

fdt_parent_offset(n) == fdt_supernode_atdepth_offset(n, blob[n].depth - 1)

(* Where the strings of a list start *)
Starts(value) ==
    SelectSeq([k \in 1..Len(value) |-> k - 1], LAMBDA i : i = 0 \/ value[i] = NUL)

fdt_stringlist_contains(value, str) ==
    \E i \in ToSet(Starts(value)) :
        /\ Len(value) - i >= Len(str)
        /\ BytesFrom(value, i, Len(str) + 1) = str \o <<NUL>>

fdt_node_check_compatible(n, str) ==
    compatible \in NamesIn(n) /\ fdt_stringlist_contains(fdt_getprop(n, compatible), str)

(* Mutated form of fdt_node_offset_by_compatible: it begins at the node. *)
fdt_node_offset_by_compatible_Here(n, str) ==
    LET later == {m \in Nodes : m >= n /\ fdt_node_check_compatible(m, str)}
    IN  IF later = {} THEN 0 ELSE Min(later)

(* The next node with the string; 0 for FDT_ERR_NOTFOUND. *)
fdt_node_offset_by_compatible(n, str) ==
    LET later == {m \in Nodes : m > n /\ fdt_node_check_compatible(m, str)}
    IN  IF later = {} THEN 0 ELSE Min(later)

----------------------------------------------------------------------------
(* What calls compute *)

(* The checks of a slice, in their order.  A count of 0 asks for all, and  *)
(* the buffer, not the property, says how many elements are written: of a  *)
(* property that has fewer, the rest is what lies behind it.               *)
SliceStatus(value, size, index, count, selector) ==
    LET elem_count == size \div selector
        data_count == Len(value) \div selector
    IN  CASE index > data_count         -> "SLICE_RANGE"
          [] count > data_count - index -> "SLICE_COUNT"
          [] count > elem_count         -> "BUF2SMALL"
          [] count = 0 /\ elem_count < data_count - index -> "BUF2SMALL"
          [] OTHER -> "NOERROR"

(* Mutated form of Slice: the index counts bytes. *)
Slice_Bytes(value, size, index, selector) ==
    ToCpu(BytesFrom(value, index, selector * (size \div selector)), selector)

Slice(value, size, index, selector) ==
    ToCpu(BytesFrom(value, index * selector, selector * (size \div selector)), selector)

(* One step of fdt_get_prop_values_of_node: what is written, how far the   *)
(* caller's buffer is used, and the error that ends it.                    *)
Width == [b |-> dt_uint8, h |-> dt_uint16, w |-> dt_uint32, d |-> dt_uint64]

PackStatus(value, letter, room) ==
    CASE value = << >>      -> "FDTLIB_ERROR"
      [] room = 0           -> "TRUNCATED"
      [] Len(value) > room  -> "OVERFLOW"
      [] letter \notin DOMAIN Width -> "BADFORMAT"
      [] OTHER -> "NOERROR"

Pack(packed, value, letter, size) ==
    LET status == PackStatus(value, letter, size - packed.count)
    IN  IF packed.ret_value # "NOERROR" \/ letter = "i" THEN packed
        ELSE IF status # "NOERROR" THEN [packed EXCEPT !.ret_value = status]
        ELSE [ret_value |-> status, count |-> packed.count + Len(value),
              memory |-> Put(packed.memory, packed.count, ToCpu(value, Width[letter]))]

Letter(format, k) == IF k \in DOMAIN format THEN format[k] ELSE "NUL"

Packed(n, format, size) ==
    FoldLeft(LAMBDA packed, k :
                 Pack(packed, blob[n].props[k].value, Letter(format, k), size),
             [ret_value |-> "NOERROR", count |-> 0, memory |-> Untouched],
             [k \in DOMAIN blob[n].props |-> k])

(* Names, each with its NUL, as far as they fit. *)
AddName(names, name, size, toosmall) ==
    IF names.ret_value # "NOERROR" THEN names
    ELSE IF Len(name) + 1 > size - names.count THEN [names EXCEPT !.ret_value = toosmall]
    ELSE [names EXCEPT !.count = @ + Len(name) + 1,
                       !.memory = Put(@, names.count, name \o <<NUL>>)]

Names(list, size, toosmall) ==
    FoldLeft(LAMBDA names, name : AddName(names, name, size, toosmall),
             [ret_value |-> "NOERROR", count |-> 0, memory |-> Untouched], list)

PropNames(n) == [k \in DOMAIN blob[n].props |-> blob[n].props[k].name]
SubnodeNames(n) == [k \in DOMAIN Subnodes(n) |-> blob[Subnodes(n)[k]].name]

SumOf(numbers) == FoldLeft(LAMBDA sum, number : sum + number, 0, numbers)
NamesSize(list) == SumOf([k \in DOMAIN list |-> Len(list[k]) + 1])
ValuesSize(n) == SumOf([k \in DOMAIN blob[n].props |-> Len(blob[n].props[k].value)])

(* fdt_get_name_index, from 0; -1 for FDT_ERR_NOTFOUND *)
NameIndex(n, pname, tname) ==
    LET starts == Starts(fdt_getprop(n, pname))
        Here(k) == BytesFrom(fdt_getprop(n, pname), starts[k], Len(tname) + 1) = tname \o <<NUL>>
    IN  IF pname \in NamesIn(n) /\ \E k \in DOMAIN starts : Here(k)
        THEN Min({k \in DOMAIN starts : Here(k)}) - 1 ELSE -1

(* The entry of reg that is read: a name that is not found is passed over. *)
RegIndex(n, reg_name, reg_index) ==
    IF reg_name # NoName /\ NameIndex(n, reg_names, reg_name) >= 0
    THEN NameIndex(n, reg_names, reg_name) ELSE reg_index

(* Mutated form of RegStatus: the entry is compared with the count of cells. *)
RegStatus_Loose(n, index, addr_code, size_code) ==
    CASE -1 \in {addr_code, size_code} -> "NOTSUPPORTED"
      [] addr_code = 0                 -> "INPUT_ARG_ERR"
      [] index < 0                     -> "REGIDX"
      [] reg \notin NamesIn(n)         -> "NOTFOUND"
      [] (addr_code + size_code) * index > Len(fdt_getprop(n, reg)) \div dt_uint32 -> "TARGETIDX"
      [] OTHER -> "NOERROR"

RegStatus(n, index, addr_code, size_code) ==
    LET index_size == addr_code + size_code
    IN  CASE -1 \in {addr_code, size_code} -> "NOTSUPPORTED"
          [] addr_code = 0                 -> "INPUT_ARG_ERR"
          [] index < 0                     -> "REGIDX"
          [] reg \notin NamesIn(n)         -> "NOTFOUND"
          [] index_size * index > Len(fdt_getprop(n, reg)) \div dt_uint32 - index_size
                                           -> "TARGETIDX"
          [] OTHER -> "NOERROR"

(* An address or a size of so many cells *)
RegNumber(n, cell, cells) ==
    Number(BytesFrom(fdt_getprop(n, reg), cell * dt_uint32, cells * dt_uint32))

----------------------------------------------------------------------------
(* Calls *)

Idle == [call |-> "none"]

Init ==
    /\ blob \in DeviceTrees
    /\ node = 1 /\ out = Idle
    /\ walk = [from |-> 1, compatible |-> NoName, seen |-> << >>, ended |-> FALSE]

Queries == {"prop_size", "values_size", "prop_names_size", "count", "subnode_sizes"}

Ready == out = Idle \/ out.call \in Queries

(* The calls that take a size the caller may have asked for come right     *)
(* after the question; others find nothing in out.                         *)
Returns(call, args, ret_value, memory) ==
    /\ Ready
    /\ out' = [call |-> call, args |-> args, ret_value |-> ret_value, memory |-> memory]
    /\ UNCHANGED <<blob, node, walk>>

(* A query returns a number, where it has one. *)
Answers(call, name, ret_value, size) ==
    /\ Ready
    /\ out' = [call |-> call, name |-> name, ret_value |-> ret_value, size |-> size]
    /\ UNCHANGED <<blob, node, walk>>

(* Whether the caller was told this size by the query before *)
Told(query, name, size) ==
    /\ out # Idle /\ out.call = query /\ out.name = name
    /\ out.ret_value = "NOERROR" /\ out.size = size

SizesFor(query, name) ==
    Sizes \cup {s \in {IF out # Idle /\ out.call \in Queries THEN out.size ELSE 0} :
                    Told(query, name, s)}

(* The caller is done with what a call returned. *)
Done ==
    /\ out # Idle
    /\ out' = Idle
    /\ UNCHANGED <<blob, node, walk>>

(* The caller gets the handle of a node by its path. *)
Locate(n) ==
    /\ Ready
    /\ node' = n /\ out' = Idle
    /\ walk' = [from |-> n, compatible |-> NoName, seen |-> << >>, ended |-> FALSE]
    /\ UNCHANGED blob

fdt_get_next_node_handle_for_compatible(str) ==
    LET found == fdt_node_offset_by_compatible(node, str)
        begun == IF walk.compatible = str THEN walk
                 ELSE [from |-> node, compatible |-> str, seen |-> << >>, ended |-> FALSE]
    IN  /\ Ready
        /\ IF found = 0
           THEN node' = node /\ walk' = [begun EXCEPT !.ended = TRUE]
           ELSE node' = found /\ walk' = [begun EXCEPT !.seen = Append(@, found)]
        /\ out' = Idle
        /\ UNCHANGED blob

fdt_get_parent_node ==
    LET offset == fdt_parent_offset(node)
    IN  /\ out = Idle
        /\ out' = [call |-> "parent", pnode |-> offset,
                   ret_value |-> IF offset = 0 THEN "NOTFOUND" ELSE "NOERROR"]
        /\ UNCHANGED <<blob, node, walk>>

(* The handle of the parent is copied to the one that calls are given. *)
fdt_node_copy ==
    /\ out # Idle /\ out.call = "parent" /\ out.ret_value = "NOERROR"
    /\ node' = out.pnode /\ out' = Idle
    /\ walk' = [from |-> out.pnode, compatible |-> NoName, seen |-> << >>, ended |-> FALSE]
    /\ UNCHANGED blob

fdt_get_prop_size(name) ==
    IF name \in NamesIn(node)
    THEN Answers("prop_size", name, "NOERROR", Len(fdt_getprop(node, name)))
    ELSE Answers("prop_size", name, "NOTFOUND", FRESH)

fdt_get_prop_values_size_of_node == Answers("values_size", NoName, "NOERROR", ValuesSize(node))

(* Mutated form of fdt_get_prop_names_size_of_node: without the NULs. *)
fdt_get_prop_names_size_of_node_NoNul ==
    Answers("prop_names_size", NoName, "NOERROR",
            NamesSize(PropNames(node)) - Len(PropNames(node)))

fdt_get_prop_names_size_of_node ==
    Answers("prop_names_size", NoName, "NOERROR", NamesSize(PropNames(node)))

fdt_get_count_of_subnodes == Answers("count", NoName, "NOERROR", Len(Subnodes(node)))

(* Numbers of one width: a whole list or a slice of it, or one value. *)
Get(call, name, size, index, count, selector, told) ==
    LET args == [name |-> name, size |-> size, index |-> index, selector |-> selector,
                 told |-> told]
        value == fdt_getprop(node, name)
        status == SliceStatus(value, size, index, count, selector)
    IN  IF name \notin NamesIn(node) THEN Returns(call, args, "NOTFOUND", Untouched)
        ELSE IF status # "NOERROR" THEN Returns(call, args, status, Untouched)
        ELSE Returns(call, args, status, Put(Untouched, 0, Slice(value, size, index, selector)))

GetList(name, selector) ==
    \E size \in SizesFor("prop_size", name) :
        Get("list", name, size, 0, 0, selector, Told("prop_size", name, size))

GetOne(name, selector) == out = Idle /\ Get("value", name, selector, 0, 0, selector, FALSE)

GetSlice(name, selector) ==
    /\ out = Idle
    /\ \E index \in Indices \cap Nat, count \in Sizes :
          Get("list", name, count * selector, index, count, selector, FALSE)

(* fdt_get_uint8_prop_list, fdt_get_uint8_prop, fdt_get_uint8_prop_list_slice *)
fdt_get_uint8_prop(name) ==
    GetList(name, dt_uint8) \/ GetOne(name, dt_uint8) \/ GetSlice(name, dt_uint8)

fdt_get_uint16_prop(name) ==
    GetList(name, dt_uint16) \/ GetOne(name, dt_uint16) \/ GetSlice(name, dt_uint16)

(* fdt_get_boolean_prop reads a number of 32 bits, too. *)
fdt_get_uint32_prop(name) ==
    GetList(name, dt_uint32) \/ GetOne(name, dt_uint32) \/ GetSlice(name, dt_uint32)

fdt_get_uint64_prop(name) ==
    GetList(name, dt_uint64) \/ GetOne(name, dt_uint64) \/ GetSlice(name, dt_uint64)

(* Of a property that has bytes, they are divided by dt_boolean, which is  *)
(* 0: that traps, or gives 0 and so an error.                              *)
fdt_get_bool_prop(name) ==
    out = Idle /\ \E status \in IF name \notin NamesIn(node) THEN {"NOTFOUND"}
                  ELSE IF fdt_getprop(node, name) = << >> THEN {"NOERROR"}
                  ELSE {"TRAP", "BAD_SELECTOR"} :
        Returns("bool", [name |-> name], status, Untouched)

(* The last byte becomes a NUL, whatever it was. *)
fdt_get_string_prop_list(name) ==
    \E size \in SizesFor("prop_size", name) :
        LET args == [name |-> name, size |-> size, told |-> Told("prop_size", name, size)]
            value == fdt_getprop(node, name)
        IN  IF name \notin NamesIn(node) THEN Returns("string", args, "NOTFOUND", Untouched)
            ELSE IF Len(value) > size THEN Returns("string", args, "BUF2SMALL", Untouched)
            ELSE IF value = << >> THEN Returns("string", args, "NOERROR", Untouched)
            ELSE Returns("string", args, "NOERROR",
                         Put(Untouched, 0, [value EXCEPT ![Len(value)] = NUL]))

(* Mutated form of fdt_get_prop_values_of_node: an error leaves what was   *)
(* written before.                                                         *)
fdt_get_prop_values_of_node_KeepPart(format) ==
    \E size \in SizesFor("values_size", NoName) :
        LET packed == Packed(node, format, size)
        IN  Returns("values", [format |-> format, size |-> size,
                               told |-> Told("values_size", NoName, size)],
                    packed.ret_value, packed.memory)

(* After an error the whole buffer is cleared. *)
fdt_get_prop_values_of_node(format) ==
    \E size \in SizesFor("values_size", NoName) :
        LET args == [format |-> format, size |-> size,
                     told |-> Told("values_size", NoName, size)]
            packed == Packed(node, format, size)
        IN  IF packed.ret_value = "NOERROR"
            THEN Returns("values", args, packed.ret_value, packed.memory)
            ELSE Returns("values", args, packed.ret_value,
                         Put(packed.memory, 0, [k \in 1..size |-> 0]))

(* After success the last place of the buffer is a NUL. *)
fdt_get_prop_names_of_node ==
    \E size \in SizesFor("prop_names_size", NoName) :
        LET args == [size |-> size, told |-> Told("prop_names_size", NoName, size)]
            names == Names(PropNames(node), size, "TRUNCATED")
        IN  IF names.ret_value = "NOERROR" /\ size > 0
            THEN Returns("prop_names", args, "NOERROR", Put(names.memory, size - 1, <<NUL>>))
            ELSE Returns("prop_names", args, names.ret_value, names.memory)

(* The loop ends after the handle that makes the count, or the first. *)
fdt_get_cache_of_subnodes ==
    \E count \in SizesFor("count", NoName) :
        LET written == SubSeq(Subnodes(node), 1, Min({Len(Subnodes(node)), Max({count, 1})}))
        IN  Returns("cache", [size |-> count, told |-> Told("count", NoName, count)],
                    "NOERROR", Put(Untouched, 0, written))

(* The sizes are written up to the one that the count has no place for.    *)
(* The caller adds them up for the buffer of the names.                    *)
fdt_get_size_of_subnode_names ==
    \E count \in SizesFor("count", NoName) :
        LET all     == [k \in DOMAIN SubnodeNames(node) |-> Len(SubnodeNames(node)[k]) + 1]
            status  == CASE count = 0       -> "NILVALUE"
                         [] Len(all) > count -> "TRUNCATED"
                         [] OTHER           -> "NOERROR"
            written == IF count = 0 THEN << >>
                       ELSE SubSeq(all, 1, Min({Len(all), count + 1}))
        IN  /\ Ready
            /\ out' = [call |-> "subnode_sizes", name |-> NoName, ret_value |-> status,
                       size |-> SumOf(written), sizes |-> written, count |-> count,
                       told |-> Told("count", NoName, count)]
            /\ UNCHANGED <<blob, node, walk>>

fdt_get_subnode_names ==
    \E size \in SizesFor("subnode_sizes", NoName) :
        LET names == Names(SubnodeNames(node), size, "BUF2SMALL")
        IN  Returns("subnode_names",
                    [size |-> size, told |-> Told("subnode_sizes", NoName, size)],
                    names.ret_value, names.memory)

fdt_get_name_index(pname, tname) ==
    LET index == NameIndex(node, pname, tname)
    IN  /\ out = Idle
        /\ out' = [call |-> "name_index", pname |-> pname, tname |-> tname, index |-> index,
                   ret_value |-> IF index < 0 THEN "NOTFOUND" ELSE "NOERROR"]
        /\ UNCHANGED <<blob, node, walk>>

(* reg_name is NoName for a caller that gives NULL. *)
fdt_get_reg(reg_name, reg_index, addr_code, size_code) ==
    LET index  == RegIndex(node, reg_name, reg_index)
        status == RegStatus(node, index, addr_code, size_code)
        cell   == (addr_code + size_code) * index
        args   == [reg_name |-> reg_name, reg_index |-> reg_index,
                   addr_code |-> addr_code, size_code |-> size_code]
    IN  /\ out = Idle
        /\ out' = [call |-> "reg", args |-> args, ret_value |-> status,
                   reg_paddr |-> IF status = "NOERROR" THEN RegNumber(node, cell, addr_code)
                                 ELSE FRESH,
                   reg_size  |-> IF status = "NOERROR"
                                 THEN RegNumber(node, cell + addr_code, size_code) ELSE FRESH]
        /\ UNCHANGED <<blob, node, walk>>

Next ==
    \/ Done
    \/ \E n \in Nodes : Locate(n)
    \/ \E str \in Words : fdt_get_next_node_handle_for_compatible(str)
    \/ fdt_get_parent_node
    \/ fdt_node_copy
    \/ \E name \in AllNames :
        \/ fdt_get_prop_size(name)
        \/ fdt_get_uint8_prop(name) \/ fdt_get_uint16_prop(name)
        \/ fdt_get_uint32_prop(name) \/ fdt_get_uint64_prop(name)
        \/ fdt_get_bool_prop(name)
        \/ fdt_get_string_prop_list(name)
        \/ \E str \in Words : fdt_get_name_index(name, str)
    \/ fdt_get_prop_values_size_of_node
    \/ fdt_get_prop_names_size_of_node
    \/ fdt_get_count_of_subnodes
    \/ \E format \in Formats : fdt_get_prop_values_of_node(format)
    \/ fdt_get_prop_names_of_node
    \/ fdt_get_cache_of_subnodes
    \/ fdt_get_size_of_subnode_names
    \/ fdt_get_subnode_names
    \/ \E reg_name \in Words \cup {NoName}, reg_index \in Indices,
          addr_code, size_code \in -1..2 :
        fdt_get_reg(reg_name, reg_index, addr_code, size_code)

Spec == Init /\ [][Next]_vars

----------------------------------------------------------------------------
(* Properties *)

Returned(call) == out # Idle /\ out.call = call

(* What the caller's memory holds, up to the first place not written *)
Holds(bytes) == out.memory = Put(Untouched, 0, bytes)

WithNul(list) == FlattenSeq([k \in DOMAIN list |-> list[k] \o <<NUL>>])

(* A buffer of the size that was asked for suffices for all there is, and  *)
(* is filled to its end: the calls that count and the calls that copy walk *)
(* the tree one by one and each have their own idea of what is counted.    *)
(* The sizes of the subnodes' names, for the count that was asked for, are *)
(* those of a buffer for the names (DTBExtnLib_node.c:1119-1760,           *)
(* DTBExtnLib_prop.c:62-107).                                              *)
AskedSizesSuffice ==
    /\ \A call \in {"prop_names", "subnode_names", "cache", "string"} :
          Returned(call) /\ out.args.told => out.ret_value = "NOERROR"
    /\ Returned("prop_names") /\ out.args.told => Holds(WithNul(PropNames(node)))
    /\ Returned("subnode_names") /\ out.args.told => Holds(WithNul(SubnodeNames(node)))
    /\ Returned("cache") /\ out.args.told => Holds(Subnodes(node))
    /\ Returned("subnode_sizes") /\ out.told /\ out.count > 0 =>
          out.ret_value = "NOERROR" /\ Len(out.sizes) = out.count
    /\ Returned("values") /\ out.args.told =>
          out.ret_value \notin {"TRUNCATED", "OVERFLOW"}

(* The number that memory holds at a place, the least byte first *)
HostNumber(at, width) == Number([k \in 1..width |-> out.memory[at + width - k]])

(* Memory from a place on holds the numbers of a list. *)
HoldsNumbers(at, value, width) ==
    \A i \in 0..(Len(value) \div width - 1) :
        HostNumber(at + i * width, width) = Number(SubSeq(value, i * width + 1, (i + 1) * width))

(* A structure is filled with the numbers of all the properties that the   *)
(* format does not ignore, each behind the one before, or it is all zero:  *)
(* "any error returned must be treated as hard/fatal error"                *)
(* (inc/DTBExtnLib.h:392-393), and nothing behind it is written.           *)
ValuesAreAllOrNothing ==
    Returned("values") =>
        LET props  == blob[node].props
            Kept   == {k \in DOMAIN props : Letter(out.args.format, k) # "i"}
            Place(k) == SumOf([j \in 1..(k - 1) |->
                                  IF j \in Kept THEN Len(props[j].value) ELSE 0])
        IN  /\ IF out.ret_value = "NOERROR"
               THEN \A k \in Kept :
                       HoldsNumbers(Place(k), props[k].value, Width[out.args.format[k]])
               ELSE \A a \in 0..(out.args.size - 1) : out.memory[a] = 0
            /\ \A a \in DOMAIN out.memory : a >= out.args.size => out.memory[a] = FRESH

(* The elements of a list from the index on are written in their order and *)
(* in the processor's, as far as there are any; with an error nothing is.  *)
(* A buffer of the size that was asked for gets all, and no call writes    *)
(* behind the elements that the caller's buffer has room for, whatever the *)
(* index, the count and the size of the property (DTBExtnLib_prop.c:127-292).*)
SlicesAreRight ==
    Returned("list") \/ Returned("value") =>
        LET w     == out.args.selector
            value == IF out.args.name \in NamesIn(node)
                     THEN fdt_getprop(node, out.args.name) ELSE << >>
            room  == (out.args.size \div w) * w
            last  == out.args.index * w + room
            there == SubSeq(value, out.args.index * w + 1, Min({last, Len(value)}))
        IN  /\ out.ret_value # "NOERROR" => out.memory = Untouched
            /\ out.args.told => out.ret_value = "NOERROR"
            /\ out.ret_value = "NOERROR" => HoldsNumbers(0, there, w)
            /\ \A a \in DOMAIN out.memory : a >= room => out.memory[a] = FRESH

(* A getter of one value finds no value in an empty property: "This API    *)
(* will return FDT_ERR_QC_NOERROR and not modify input parameter"          *)
(* (inc/DTBExtnLib.h:171, :200, :241, :282, :323), so that the caller can    *)
(* tell by the value the parameter was initialised with.                   *)
EmptyLeavesValue ==
    Returned("value") /\ out.args.name \in NamesIn(node)
    /\ fdt_getprop(node, out.args.name) = << >> =>
        out.ret_value = "NOERROR" /\ out.memory = Untouched

(* The entries of a reg property, each of so many cells *)
Entries(value, cells) ==
    [i \in 1..(Len(value) \div (cells * dt_uint32)) |->
        SubSeq(value, (i - 1) * cells * dt_uint32 + 1, i * cells * dt_uint32)]

(* A range is one of the whole entries of reg, the one that was asked for  *)
(* by its index or by its name, and no entry that is there is refused      *)
(* (DTBExtnLib_driver.c:153-313).  Names that are not found are left out:  *)
(* the entry of the index is then returned all the same.                   *)
RegIsRight ==
    Returned("reg") /\ out.args.addr_code \in 1..2 /\ out.args.size_code \in 0..2
    /\ reg \in NamesIn(node) =>
        LET names   == IF reg_names \in NamesIn(node) THEN fdt_getprop(node, reg_names)
                       ELSE << >>
            Before(i) == SubSeq(names, 1, i)
            NulsIn(s) == Len(SelectSeq(s, LAMBDA byte : byte = NUL))
            places  == {i \in 0..Len(names) :
                           /\ IsPrefix(out.args.reg_name \o <<NUL>>, SubSeq(names, i + 1, Len(names)))
                           /\ i = 0 \/ names[i] = NUL}
            asked   == IF out.args.reg_name = NoName THEN {out.args.reg_index}
                       ELSE {NulsIn(Before(Min(places))) : p \in places}
            entries == Entries(fdt_getprop(node, reg), out.args.addr_code + out.args.size_code)
        IN  \A i \in asked :
                IF i + 1 \in DOMAIN entries
                THEN /\ out.ret_value = "NOERROR"
                     /\ out.reg_paddr = Number(SubSeq(entries[i + 1], 1, out.args.addr_code * dt_uint32))
                     /\ out.reg_size = Number(SubSeq(entries[i + 1], out.args.addr_code * dt_uint32 + 1,
                                                     Len(entries[i + 1])))
                ELSE out.ret_value # "NOERROR"

(* A search by compatible that goes on from the handle it changed visits   *)
(* each node behind the first handle that has the string once and in the   *)
(* tree's order, and a node is one of the subnodes of its parent and of no *)
(* other (DTBExtnLib_driver.c:43-71, DTBExtnLib_node.c:997-1034).          *)
HandlesAreRight ==
    /\ LET all == SelectSeq([k \in 1..(Len(blob) - walk.from) |-> walk.from + k],
                            LAMBDA n : fdt_node_check_compatible(n, walk.compatible))
       IN  /\ IsPrefix(walk.seen, all)
           /\ walk.ended => walk.seen = all
    /\ Returned("parent") =>
           {n \in Nodes : node \in ToSet(Subnodes(n))} = {out.pnode} \ {0}
=============================================================================
