-------------------------------- MODULE FdtRw --------------------------------
(***************************************************************************)
(* Editing a device tree in its buffer: libs/libfdt/fdt_rw.c, which cuts   *)
(* out or makes room in the blocks and moves all that lies behind,         *)
(* fdt_wip.c, which overwrites in place, fdt_create_empty_tree, and the    *)
(* calls of DTBExtnLib_create-dtb.c, which build a tree with them.         *)
(*                                                                         *)
(* Nobody reads what lies behind the blocks or outside of the blob's       *)
(* buffer; these cells are set to LEFTOVER.                                *)
(***************************************************************************)
EXTENDS FdtBlob

CONSTANTS
    Loaded,     \* blobs that other tools wrote: [cells, depth], where depth
                \* is how deep in the tree the tag at each offset is
    LEFTOVER,   \* what cells hold that are not part of a blob
    SLASH,      \* the character that separates names in a path
    AT          \* the character before the unit address in a name

----------------------------------------------------------------------------
(* Blobs that can be read *)

(* N reservations are at address p, and behind them one of size 0. *)
IsReserved(m, p, n) ==
    /\ m[p + ReserveSize * n + 1] = 0
    /\ \A i \in 0..(n - 1) : m[p + ReserveSize * i + 1] # 0

(* The tags of a block, with their depths, properties named by names *)
IsStruct(m, at, size, depth, names) ==
    /\ IsChain(m, at, size, DOMAIN depth)
    /\ \A o \in DOMAIN depth : depth[o] \in Nat
    /\ \A o, next \in DOMAIN depth : IsLink(m, at, DOMAIN depth, o, next) =>
          /\ m[at + o] = FDT_BEGIN_NODE => depth[next] = depth[o] + 1
          /\ m[at + o] = FDT_END_NODE => depth[o] = depth[next] + 1
          /\ m[at + o] \in {FDT_PROP, FDT_NOP} => depth[next] = depth[o]
    /\ \A o \in DOMAIN depth \ {size} :
          m[at + o] = FDT_PROP => m[at + o + 2 * FDT_TAGSIZE] \in names

(* The offsets of the strings that end in a block *)
StringsIn(m, at, size) == {o \in 0..(size - 1) : \E z \in o..(size - 1) : m[at + z] = 0}

AreApart(x, sizex, y, sizey) == x + sizex <= y \/ y + sizey <= x

(* The blob at address a, in whatever order its blocks are *)
IsBlob(m, a, depth) ==
    LET At(name) == m[a + Fields[name]]
        rsv      == At("off_mem_rsvmap")
        struct   == At("off_dt_struct")
        strs     == At("off_dt_strings")
        size     == At("size_dt_struct")
        sizestrs == At("size_dt_strings")
        tags     == size - FDT_TAGSIZE
    IN  /\ {rsv, struct, strs, size, sizestrs, At("totalsize")} \subseteq Nat
        /\ HeaderSize <= rsv /\ HeaderSize <= struct /\ HeaderSize <= strs
        /\ struct + size <= At("totalsize") /\ strs + sizestrs <= At("totalsize")
        /\ AreApart(struct, size, strs, sizestrs)
        /\ \E n \in 0..At("totalsize") :
              LET sizersv == ReserveSize * (n + 1)
              IN  /\ IsReserved(m, a + rsv, n) /\ rsv + sizersv <= At("totalsize")
                  /\ AreApart(rsv, sizersv, struct, size)
                  /\ AreApart(rsv, sizersv, strs, sizestrs)
        /\ IsStruct(m, a + struct, tags, depth, StringsIn(m, a + strs, sizestrs))
        /\ depth[0] = 0 /\ depth[tags] = 0 /\ m[a + struct + tags] = FDT_END

ASSUME LoadedAreBlobs ==
    \A blob \in Loaded :
        LET m == [i \in 0..(Len(blob.cells) - 1) |-> blob.cells[i + 1]]
        IN  /\ blob.cells \in Seq(Int) /\ HeaderSize <= Len(blob.cells)
            /\ IsBlob(m, 0, blob.depth) /\ m[Fields["totalsize"]] <= Len(blob.cells)

----------------------------------------------------------------------------
(* The blocks of the blob in memory m *)

Reserved(m, p) == CHOOSE n \in 0..MemSize : IsReserved(m, p, n)

num_mem_rsv(m) == Reserved(m, fdt + off_mem_rsvmap(m))

(* With the terminator *)
SizeMemRsv(m) == ReserveSize * (num_mem_rsv(m) + 1)

fdt_data_size_(m) == off_dt_strings(m) + size_dt_strings(m)

fdt_blocks_misordered_(m, mem_rsv_size) ==
    \/ off_mem_rsvmap(m) < HeaderSize
    \/ off_dt_struct(m) < off_mem_rsvmap(m) + mem_rsv_size
    \/ off_dt_strings(m) < off_dt_struct(m) + size_dt_struct(m)
    \/ totalsize(m) < off_dt_strings(m) + size_dt_strings(m)

(* FDT_RW_PROBE *)
Editable(m) == ~fdt_blocks_misordered_(m, ReserveSize)

(* The cells of the blob at address a, all others left over *)
Kept(m, a) ==
    LET At(name) == m[a + Fields[name]]
        Block(offset, size) == (a + offset)..(a + offset + size - 1)
        rsv  == At("off_mem_rsvmap")
        used == Block(0, HeaderSize)
                \cup Block(rsv, ReserveSize * (Reserved(m, a + rsv) + 1))
                \cup Block(At("off_dt_struct"), At("size_dt_struct"))
                \cup Block(At("off_dt_strings"), At("size_dt_strings"))
    IN  [i \in DOMAIN m |-> IF i \in used THEN m[i] ELSE LEFTOVER]

(* What a call makes of memory m *)
Done(m)        == [ret |-> "OK", mem |-> m]
Failed(error)  == [ret |-> error, mem |-> mem]

Returns(r) == ret' = r.ret /\ mem' = Kept(r.mem, fdt) /\ UNCHANGED fdt

(* fdt_splice_: newlen cells instead of oldlen at address p *)
HasRoom(m, oldlen, newlen) == fdt_data_size_(m) - oldlen + newlen <= totalsize(m)

Spliced(m, p, oldlen, newlen) ==
    memmove(m, p + newlen, p + oldlen, fdt + fdt_data_size_(m) - (p + oldlen))

fdt_splice_mem_rsv_(m, p, oldn, newn) ==
    LET delta == (newn - oldn) * ReserveSize
        s     == Spliced(m, p, oldn * ReserveSize, newn * ReserveSize)
    IN  With(With(s, "off_dt_struct", off_dt_struct(m) + delta),
             "off_dt_strings", off_dt_strings(m) + delta)

(* Mutated form: the strings stay where they were. *)
fdt_splice_struct__StringsKept(m, p, oldlen, newlen) ==
    With(Spliced(m, p, oldlen, newlen), "size_dt_struct", size_dt_struct(m) + newlen - oldlen)

fdt_splice_struct_(m, p, oldlen, newlen) ==
    With(With(Spliced(m, p, oldlen, newlen),
              "size_dt_struct", size_dt_struct(m) + newlen - oldlen),
         "off_dt_strings", off_dt_strings(m) + newlen - oldlen)

----------------------------------------------------------------------------
(* Nodes and properties, by the offsets of their tags *)

At(m, o) == fdt + off_dt_struct(m) + o

NodeOffsets(m) == {o \in ToSet(TagOffsets(m)) : m[At(m, o)] = FDT_BEGIN_NODE}

(* Where the properties of a node end, behind it *)
PropsEnd(m, node) ==
    LET end[o \in 0..(size_dt_struct(m) + FDT_TAGSIZE)] ==
            LET t == NextTag(m, o)
            IN  IF t.tag \in {FDT_PROP, FDT_NOP} THEN end[t.next] ELSE o
    IN  end[NextTag(m, node).next]

NameOf(m, prop) ==
    StringAt(m, fdt + off_dt_strings(m) + m[At(m, prop) + 2 * FDT_TAGSIZE])

LenOf(m, prop) == m[At(m, prop) + FDT_TAGSIZE]

(* The first property of the name, or none *)
fdt_get_property(m, node, name) ==
    LET named == {o \in ToSet(TagOffsets(m)) :
                    /\ node < o /\ o < PropsEnd(m, node)
                    /\ m[At(m, o)] = FDT_PROP /\ NameOf(m, o) = name}
    IN  {o \in named : \A p \in named : o <= p}

(* The offset behind the node *)
fdt_node_end_offset_(m, node) ==
    LET end[o \in 0..(size_dt_struct(m) + FDT_TAGSIZE)] ==
            LET t == NextTag(m, o)
            IN  IF t.tag = FDT_END THEN [depth \in Int |-> NULL]
                ELSE [depth \in Int |->
                        CASE t.tag = FDT_BEGIN_NODE -> end[t.next][depth + 1]
                          [] t.tag = FDT_END_NODE   -> IF depth = 1 THEN t.next
                                                       ELSE end[t.next][depth - 1]
                          [] OTHER -> end[t.next][depth]]
    IN  end[node][0]

(* Nodes directly below *)
Subnodes(m, node) ==
    LET below == {o \in NodeOffsets(m) : node < o /\ o < fdt_node_end_offset_(m, node)}
    IN  {o \in below : \A p \in below : ~(p < o /\ o < fdt_node_end_offset_(m, p))}

----------------------------------------------------------------------------
(* Reservations *)

MemRsvAt(m, n) == fdt + off_mem_rsvmap(m) + ReserveSize * n

fdt_add_mem_rsv(r) ==
    LET p == MemRsvAt(mem, num_mem_rsv(mem))
    IN  Returns(IF ~Editable(mem) THEN Failed("BADLAYOUT")
                ELSE IF ~HasRoom(mem, 0, ReserveSize) THEN Failed("NOSPACE")
                ELSE Done(Put(fdt_splice_mem_rsv_(mem, p, 0, 1), p, r)))

fdt_del_mem_rsv(n) ==
    Returns(IF ~Editable(mem) THEN Failed("BADLAYOUT")
            ELSE IF n >= num_mem_rsv(mem) THEN Failed("NOTFOUND")
            ELSE Done(fdt_splice_mem_rsv_(mem, MemRsvAt(mem, n), 1, 0)))

----------------------------------------------------------------------------
(* Properties *)

(* fdt_find_string_len_, also inside of another string *)
StringPlaces(m, s) ==
    {i \in 0..(size_dt_strings(m) - Len(s) - 1) :
        Cells(m, fdt + off_dt_strings(m) + i, Len(s) + 1) = Terminated(s)}

(* fdt_find_add_string_, when there is room, and the offset of the string *)
WithString(m, s) ==
    IF StringPlaces(m, s) # {} THEN m
    ELSE With(Put(m, fdt + fdt_data_size_(m), Terminated(s)),
              "size_dt_strings", size_dt_strings(m) + Len(s) + 1)

StringOffset(m, s) ==
    IF StringPlaces(m, s) # {} THEN Min(StringPlaces(m, s)) ELSE size_dt_strings(m)

(* Mutated form of RolledBack: the string stays. *)
RolledBack_Not(named, s, allocated) == named

(* fdt_del_last_string_, after the property found no room *)
RolledBack(named, s, allocated) ==
    IF allocated THEN With(named, "size_dt_strings", size_dt_strings(named) - (Len(s) + 1))
    ELSE named

(* The property becomes the first of its node. *)
fdt_add_property_(node, name, value) ==
    LET allocated == StringPlaces(mem, name) = {}
        named     == WithString(mem, name)
        o         == NextTag(mem, node).next
        proplen   == 3 * FDT_TAGSIZE + TagAlign(Len(value))
        prop      == Word(FDT_PROP) \o Word(Len(value)) \o Word(StringOffset(mem, name)) \o value
    IN  IF allocated /\ ~HasRoom(mem, 0, Len(name) + 1) THEN Failed("NOSPACE")
        ELSE IF ~HasRoom(named, 0, proplen)
        THEN [ret |-> "NOSPACE", mem |-> RolledBack(named, name, allocated)]
        ELSE Done(Put(fdt_splice_struct_(named, At(mem, o), 0, proplen), At(mem, o), prop))

(* Room made for len cells in a property; the cells from one on written *)
fdt_resize_property_(prop, len, from, value) ==
    LET data == At(mem, prop) + 3 * FDT_TAGSIZE
        old  == TagAlign(LenOf(mem, prop))
        new  == TagAlign(len)
    IN  IF ~HasRoom(mem, old, new) THEN Failed("NOSPACE")
        ELSE Done(Put([fdt_splice_struct_(mem, data, old, new) EXCEPT
                          ![At(mem, prop) + FDT_TAGSIZE] = len],
                      data + from, value))

(* The value, or what is appended to it; fdt_add_prop_list_u8 to           *)
(* fdt_add_prop_list_string set one that they converted.                   *)
fdt_setprop(node, name, value) ==
    LET found == fdt_get_property(mem, node, name)
    IN  Returns(IF ~Editable(mem) THEN Failed("BADLAYOUT")
                ELSE IF found = {} THEN fdt_add_property_(node, name, value)
                ELSE fdt_resize_property_(Min(found), Len(value), 0, value))

fdt_appendprop(node, name, value) ==
    LET found  == fdt_get_property(mem, node, name)
        oldlen == LenOf(mem, Min(found))
    IN  Returns(IF ~Editable(mem) THEN Failed("BADLAYOUT")
                ELSE IF found = {} THEN fdt_add_property_(node, name, value)
                ELSE fdt_resize_property_(Min(found), oldlen + Len(value), oldlen, value))

fdt_delprop(node, name) ==
    LET found == fdt_get_property(mem, node, name)
        prop  == Min(found)
    IN  Returns(IF ~Editable(mem) THEN Failed("BADLAYOUT")
                ELSE IF found = {} THEN Failed("NOTFOUND")
                ELSE Done(fdt_splice_struct_(mem, At(mem, prop),
                                             3 * FDT_TAGSIZE + TagAlign(LenOf(mem, prop)), 0)))

----------------------------------------------------------------------------
(* Nodes *)

(* A name without a unit address is that of every node called so. *)
fdt_nodename_eq_(m, node, name) ==
    LET found == StringAt(m, At(m, node) + FDT_TAGSIZE)
    IN  found = name \/ (AT \notin ToSet(name) /\ IsPrefix(Append(name, AT), found))

(* Behind the properties of the parent, when it has no subnode of the name *)
fdt_add_subnode(parent, name) ==
    LET o     == PropsEnd(mem, parent)
        entry == Word(FDT_BEGIN_NODE)
                 \o [i \in 1..TagAlign(Len(name) + 1) |-> IF i <= Len(name) THEN name[i] ELSE 0]
                 \o Word(FDT_END_NODE)
    IN  IF ~Editable(mem) THEN Failed("BADLAYOUT")
        ELSE IF \E n \in Subnodes(mem, parent) : fdt_nodename_eq_(mem, n, name)
        THEN Failed("EXISTS")
        ELSE IF ~HasRoom(mem, 0, Len(entry)) THEN Failed("NOSPACE")
        ELSE Done(Put(fdt_splice_struct_(mem, At(mem, o), 0, Len(entry)), At(mem, o), entry))

(* The call of DTBExtnLib takes a name, not a path. *)
fdt_add_node(parent, name) ==
    Returns(IF SLASH \in ToSet(name) THEN Failed("BADPATH") ELSE fdt_add_subnode(parent, name))

fdt_del_node(node) ==
    Returns(IF ~Editable(mem) THEN Failed("BADLAYOUT")
            ELSE Done(fdt_splice_struct_(mem, At(mem, node),
                                         fdt_node_end_offset_(mem, node) - node, 0)))

fdt_set_name(node, name) ==
    LET at  == At(mem, node) + FDT_TAGSIZE
        old == TagAlign(Len(StringAt(mem, at)) + 1)
        new == TagAlign(Len(name) + 1)
    IN  Returns(IF ~Editable(mem) THEN Failed("BADLAYOUT")
                ELSE IF ~HasRoom(mem, old, new) THEN Failed("NOSPACE")
                ELSE Done(Put(fdt_splice_struct_(mem, at, old, new), at, Terminated(name))))

----------------------------------------------------------------------------
(* In place: no block moves, and the order of the blocks does not matter. *)

fdt_setprop_inplace(node, name, value) ==
    LET found == fdt_get_property(mem, node, name)
    IN  Returns(IF found = {} THEN Failed("NOTFOUND")
                ELSE IF LenOf(mem, Min(found)) # Len(value) THEN Failed("NOSPACE")
                ELSE Done(Put(mem, At(mem, Min(found)) + 3 * FDT_TAGSIZE, value)))

(* FDT_NOP over len cells, to the end of the last word *)
fdt_nop_region_(start, len) ==
    Put(mem, start, [i \in 1..TagAlign(len) |-> IF Aligned(i - 1) THEN FDT_NOP ELSE 0])

fdt_nop_property(node, name) ==
    LET found == fdt_get_property(mem, node, name)
        prop  == Min(found)
    IN  Returns(IF found = {} THEN Failed("NOTFOUND")
                ELSE Done(fdt_nop_region_(At(mem, prop), 3 * FDT_TAGSIZE + LenOf(mem, prop))))

fdt_nop_node(node) ==
    Returns(Done(fdt_nop_region_(At(mem, node), fdt_node_end_offset_(mem, node) - node)))

----------------------------------------------------------------------------
(* Whole blobs *)

(* The blocks of the blob, one behind the other, at address new *)
fdt_packblocks_(m, new) ==
    LET rsv     == SizeMemRsv(m)
        struct  == HeaderSize + rsv
        string  == struct + size_dt_struct(m)
        moved   == memmove(memmove(memmove(m, new + HeaderSize, fdt + off_mem_rsvmap(m), rsv),
                                   new + struct, fdt + off_dt_struct(m), size_dt_struct(m)),
                           new + string, fdt + off_dt_strings(m), size_dt_strings(m))
    IN  [moved EXCEPT ![new + Fields["off_mem_rsvmap"]]  = HeaderSize,
                      ![new + Fields["off_dt_struct"]]   = struct,
                      ![new + Fields["size_dt_struct"]]  = size_dt_struct(m),
                      ![new + Fields["off_dt_strings"]]  = string,
                      ![new + Fields["size_dt_strings"]] = size_dt_strings(m)]

fdt_pack ==
    LET packed == fdt_packblocks_(mem, fdt)
    IN  Returns(IF ~Editable(mem) THEN Failed("BADLAYOUT")
                ELSE Done(With(packed, "totalsize", fdt_data_size_(packed))))

(* Mutated form of Apart: the end of the old blob is not looked at. *)
Apart_StartOnly(tmp, newsize) == tmp # fdt

Apart(tmp, newsize) == tmp + newsize <= fdt \/ tmp >= fdt + totalsize(mem)

(* A blob with its blocks in order is moved, another one built anew, at    *)
(* the start of the buffer or, where that is the old blob's, behind it.    *)
fdt_open_into(b) ==
    LET newsize == HeaderSize + SizeMemRsv(mem) + size_dt_struct(mem) + size_dt_strings(mem)
        tmp     == IF Apart(b.addr, newsize) THEN b.addr ELSE fdt + totalsize(mem)
        ordered == ~fdt_blocks_misordered_(mem, SizeMemRsv(mem))
        moved   == memmove(mem, b.addr, fdt, totalsize(mem))
        built   == memmove(fdt_packblocks_(mem, tmp), b.addr, tmp, newsize)
        opened  == [IF ordered THEN moved
                    ELSE [built EXCEPT ![b.addr + Fields["magic"]] = FDT_MAGIC,
                                       ![b.addr + Fields["flags"]] = 0]
                    EXCEPT ![b.addr + Fields["totalsize"]] = b.size]
    IN  \/ /\ IF ordered THEN totalsize(mem) > b.size
              ELSE b.size < newsize \/ tmp + newsize > b.addr + b.size
           /\ Refuse("NOSPACE")
        \/ /\ IF ordered THEN totalsize(mem) <= b.size
              ELSE b.size >= newsize /\ tmp + newsize <= b.addr + b.size
           /\ mem' = Kept(opened, b.addr)
           /\ fdt' = b.addr
           /\ ret' = "OK"

(* fdt_create_empty_tree: what the sequential writer makes of a node       *)
(* without a name, opened for editing.                                     *)
EmptyStruct ==
    Word(FDT_BEGIN_NODE) \o Word(0) \o Word(FDT_END_NODE) \o Word(FDT_END)

fdt_add_tree(b) ==
    LET start == HeaderSize + ReserveSize
        tree  == <<FDT_MAGIC, b.size, start, start + Len(EmptyStruct), HeaderSize, 0,
                   0, Len(EmptyStruct)>> \o <<0, 0>> \o EmptyStruct
    IN  \/ b.size < Len(tree) /\ Refuse("NOSPACE")
        \/ /\ b.size >= Len(tree)
           /\ mem' = Kept(Put(mem, b.addr, tree), b.addr)
           /\ fdt' = b.addr
           /\ ret' = "OK"

----------------------------------------------------------------------------
Blank == [i \in 0..(MemSize - 1) |-> LEFTOVER]

Init ==
    /\ ret = "OK"
    /\ \/ fdt = NULL /\ mem = Blank
       \/ \E blob \in Loaded, b \in Buffers :
            /\ Len(blob.cells) <= b.size
            /\ fdt = b.addr /\ mem = Kept(Put(Blank, b.addr, blob.cells), b.addr)

(* The caller finds the offset of a node anew before each call, and tries  *)
(* a name with a separator in it only where that is looked for.            *)
EditNode(node) ==
    \/ \E name \in Names : fdt_add_node(node, name)
    \/ \E name \in {n \in Names : SLASH \notin ToSet(n)} : fdt_set_name(node, name)
    \/ fdt_del_node(node) \/ fdt_nop_node(node)
    \/ \E name \in PropNames :
        \/ fdt_delprop(node, name) \/ fdt_nop_property(node, name)
        \/ \E value \in Values :
            \/ fdt_setprop(node, name, value) \/ fdt_appendprop(node, name, value)
            \/ fdt_setprop_inplace(node, name, value)

Next ==
    \/ fdt = NULL /\ \E b \in Buffers : fdt_add_tree(b)
    \/ fdt # NULL /\ \E b \in Buffers : fdt_open_into(b)
    \/ fdt # NULL /\ fdt_pack
    \/ fdt # NULL /\ \E r \in Reservations : fdt_add_mem_rsv(r)
    \/ fdt # NULL /\ \E n \in 0..1 : fdt_del_mem_rsv(n)
    \/ fdt # NULL /\ \E node \in NodeOffsets(mem) : EditNode(node)

Spec == Init /\ [][Next]_vars

----------------------------------------------------------------------------
(* Properties *)

reserved == IF fdt = NULL THEN << >> ELSE ReservedUpTo(num_mem_rsv(mem))

(* Whatever is cut out, grows or moves, readers find their way: no block   *)
(* reaches into another one or out of the blob, the walk over the          *)
(* structure ends at FDT_END, and each property's name is a whole string   *)
(* of the block of strings (fdt_rw.c:54-116, :389-492).                    *)
EditedIsReadable ==
    fdt # NULL =>
        LET blocks == {<<0, HeaderSize>>, <<off_mem_rsvmap(mem), SizeMemRsv(mem)>>,
                       <<off_dt_struct(mem), size_dt_struct(mem)>>,
                       <<off_dt_strings(mem), size_dt_strings(mem)>>}
        IN  /\ \A x, y \in blocks : x # y => x[1] + x[2] <= y[1] \/ y[1] + y[2] <= x[1]
            /\ \A x \in blocks : x[1] + x[2] <= totalsize(mem)
            /\ \E b \in Buffers : b.addr = fdt /\ totalsize(mem) <= b.size
            /\ WalkEnds(mem)
            /\ \A o \in ToSet(TagOffsets(mem)) :
                  mem[At(mem, o)] = FDT_PROP =>
                     NulFrom(mem, fdt + off_dt_strings(mem) + mem[At(mem, o) + 2 * FDT_TAGSIZE])
                        < fdt + fdt_data_size_(mem)

(* A call that fails leaves the blob as it was, the room that it took for  *)
(* a name included, so that it can be repeated once the blob was opened    *)
(* into a larger buffer (fdt_rw.c:206-237).                                *)
FailureTakesNothing == [][ret' # "OK" => mem' = mem /\ fdt' = fdt]_vars

Tree == INSTANCE TreeEditor WITH reserved <- reserved, pieces <- pieces

(* Each call changes the one thing it is for, as a reader finds it, and    *)
(* nothing else in the tree: the names whose strings are shared or found   *)
(* inside of others, the values behind the place that grows, the           *)
(* reservations before it (fdt_rw.c:157-401, fdt_wip.c:13-93).             *)
ImplementsTreeEditor == Tree!Spec
=============================================================================
