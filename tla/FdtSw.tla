-------------------------------- MODULE FdtSw --------------------------------
(***************************************************************************)
(* The sequential writer of libs/libfdt/fdt_sw.c, with which a caller      *)
(* builds a device tree in a buffer from first to last: the structure      *)
(* block grows upwards behind the header and the reservations, the strings *)
(* block downwards from the end of the buffer, and what the writer knows   *)
(* is kept in the header's fields.  The caller may move a half-built tree  *)
(* to another buffer, which may overlap the first.                         *)
(***************************************************************************)
EXTENDS FdtBlob

CONSTANT Leftovers   \* what a cell may hold before a call writes to it

NO_NAME_DEDUP == 1

ASSUME LeftoversAreCells == Leftovers \subseteq Nat

struct_top(m) == off_dt_struct(m) + size_dt_struct(m)
strtab(m)     == fdt + totalsize(m)

----------------------------------------------------------------------------
(* The state the header stands for *)

InMemrsv(m) == Field(m, "magic") = FDT_SW_MAGIC /\ off_dt_strings(m) = 0
InStruct(m) == Field(m, "magic") = FDT_SW_MAGIC /\ off_dt_strings(m) = totalsize(m)

(* fdt_grab_space_: room for n more cells of structure. *)
HasSpace(m, n) ==
    size_dt_struct(m) + n <= totalsize(m) - off_dt_struct(m) - size_dt_strings(m)

(* The n cells grabbed, and the first of them written. *)
Grabbed(m, n, s) ==
    With(Put(m, fdt + struct_top(m), s), "size_dt_struct", size_dt_struct(m) + n)

----------------------------------------------------------------------------
(* Strings *)

StringHasSpace(m, s) ==
    totalsize(m) - (size_dt_strings(m) + Len(s) + 1) >= struct_top(m)

(* fdt_add_string_, and fdt_del_last_string_ to take it back *)
StringAdded(m, s) ==
    LET offset == size_dt_strings(m) + Len(s) + 1
    IN  With(Put(m, strtab(m) - offset, Terminated(s)), "size_dt_strings", offset)

StringDeleted(m, s) ==
    With(m, "size_dt_strings", size_dt_strings(m) - (Len(s) + 1))

(* fdt_find_string_: where s begins in the block, also inside another. *)
StringPlaces(m, s) ==
    {p \in (strtab(m) - size_dt_strings(m))..(strtab(m) - (Len(s) + 1)) :
        Cells(m, p, Len(s) + 1) = Terminated(s)}

(* fdt_find_add_string_, or fdt_add_string_ with _NO_NAME_DEDUP; the        *)
(* offset counts down from the end of the buffer.                           *)
IsAllocated(m, s) == Field(m, "flags") = NO_NAME_DEDUP \/ StringPlaces(m, s) = {}

NameOffset(m, s) ==
    IF IsAllocated(m, s) THEN -(size_dt_strings(m) + Len(s) + 1)
    ELSE Min(StringPlaces(m, s)) - strtab(m)

----------------------------------------------------------------------------
(* The calls *)

Init ==
    /\ \E x \in Leftovers : mem = [i \in 0..(MemSize - 1) |-> x]
    /\ fdt = NULL
    /\ ret = "OK"

(* fdt_create_with_flags; 2 is a flag that is not known. *)
Flags == {0, NO_NAME_DEDUP, 2}

fdt_create(b, flags) ==
    \/ b.size < HeaderSize /\ Refuse("NOSPACE")
    \/ b.size >= HeaderSize /\ flags = 2 /\ Refuse("BADFLAGS")
    \/ /\ b.size >= HeaderSize /\ flags # 2
       /\ mem' = Put(Put(mem, b.addr, [i \in 1..b.size |-> 0]), b.addr,
                     <<FDT_SW_MAGIC, b.size, HeaderSize, 0, HeaderSize, flags, 0, 0>>)
       /\ fdt' = b.addr
       /\ ret' = "OK"

(* Mutated form: the head is always moved first. *)
Moved_HeadFirst(m, b, headsize, tailsize) ==
    memmove(memmove(m, b.addr, fdt, headsize),
            b.addr + b.size - tailsize, strtab(m) - tailsize, tailsize)

(* The two parts of the blob moved to buffer b, in an order in which the    *)
(* first does not run over the second.                                      *)
Moved(m, b, headsize, tailsize) ==
    LET HeadOf(n) == memmove(n, b.addr, fdt, headsize)
        TailOf(n) == memmove(n, b.addr + b.size - tailsize, strtab(m) - tailsize, tailsize)
    IN  IF b.addr <= fdt THEN TailOf(HeadOf(m)) ELSE HeadOf(TailOf(m))

(* Mutated form: the state is not carried over to the new size. *)
Resized_StateLost(m, b) == [m EXCEPT ![b.addr + Fields["totalsize"]] = b.size]

Resized(m, b) ==
    [m EXCEPT ![b.addr + Fields["totalsize"]] = b.size,
              ![b.addr + Fields["off_dt_strings"]] = IF @ = 0 THEN 0 ELSE b.size]

fdt_resize(b) ==
    LET headsize == struct_top(mem)
        tailsize == size_dt_strings(mem)
        fits     == headsize + tailsize <= Smaller(totalsize(mem), b.size)
    IN  \/ Field(mem, "magic") # FDT_SW_MAGIC /\ Refuse("BADSTATE")
        \/ /\ Field(mem, "magic") = FDT_SW_MAGIC /\ ~fits
           /\ Refuse(IF headsize + tailsize > totalsize(mem) THEN "INTERNAL" ELSE "NOSPACE")
        \/ /\ Field(mem, "magic") = FDT_SW_MAGIC /\ fits
           /\ mem' = Resized(Moved(mem, b, headsize, tailsize), b)
           /\ fdt' = b.addr
           /\ ret' = "OK"

ReserveHasSpace(m) == off_dt_struct(m) + ReserveSize <= totalsize(m)

Reserved(m, r) ==
    With(Put(m, fdt + off_dt_struct(m), r), "off_dt_struct", off_dt_struct(m) + ReserveSize)

fdt_add_reservemap_entry(r) ==
    \/ ~InMemrsv(mem) /\ Refuse("BADSTATE")
    \/ InMemrsv(mem) /\ ~ReserveHasSpace(mem) /\ Refuse("NOSPACE")
    \/ InMemrsv(mem) /\ ReserveHasSpace(mem) /\ Return(Reserved(mem, r))

fdt_finish_reservemap ==
    \/ ~InMemrsv(mem) /\ Refuse("BADSTATE")
    \/ InMemrsv(mem) /\ ~ReserveHasSpace(mem) /\ Refuse("NOSPACE")
    \/ /\ InMemrsv(mem) /\ ReserveHasSpace(mem)
       /\ Return(With(Reserved(mem, <<0, 0>>), "off_dt_strings", totalsize(mem)))

NodeSize(name) == FDT_TAGSIZE + TagAlign(Len(name) + 1)

fdt_begin_node(name) ==
    \/ ~InStruct(mem) /\ Refuse("BADSTATE")
    \/ InStruct(mem) /\ ~HasSpace(mem, NodeSize(name)) /\ Refuse("NOSPACE")
    \/ /\ InStruct(mem) /\ HasSpace(mem, NodeSize(name))
       /\ Return(Grabbed(mem, NodeSize(name), Word(FDT_BEGIN_NODE) \o Terminated(name)))

fdt_end_node ==
    \/ ~InStruct(mem) /\ Refuse("BADSTATE")
    \/ InStruct(mem) /\ ~HasSpace(mem, FDT_TAGSIZE) /\ Refuse("NOSPACE")
    \/ /\ InStruct(mem) /\ HasSpace(mem, FDT_TAGSIZE)
       /\ Return(Grabbed(mem, FDT_TAGSIZE, Word(FDT_END_NODE)))

(* Mutated form: the string is not taken back. *)
WithoutString_Kept(named, name, allocated) == named

(* The blob when the property finds no room behind its name. *)
WithoutString(named, name, allocated) ==
    IF allocated THEN StringDeleted(named, name) ELSE named

(* fdt_property: the name into the strings, then the property. *)
fdt_property(name, value) ==
    LET allocated == IsAllocated(mem, name)
        named     == IF allocated THEN StringAdded(mem, name) ELSE mem
        n         == 3 * FDT_TAGSIZE + TagAlign(Len(value))
        prop      == Word(FDT_PROP) \o Word(Len(value)) \o Word(NameOffset(mem, name))
    IN  \/ ~InStruct(mem) /\ Refuse("BADSTATE")
        \/ InStruct(mem) /\ allocated /\ ~StringHasSpace(mem, name) /\ Refuse("NOSPACE")
        \/ /\ InStruct(mem) /\ (allocated => StringHasSpace(mem, name))
           /\ \/ HasSpace(named, n) /\ Return(Grabbed(named, n, prop \o value))
              \/ /\ ~HasSpace(named, n)
                 /\ mem' = WithoutString(named, name, allocated)
                 /\ ret' = "NOSPACE"
                 /\ UNCHANGED fdt

(* The string table behind the structure block. *)
Relocated(m) ==
    With(memmove(m, fdt + struct_top(m), strtab(m) - size_dt_strings(m), size_dt_strings(m)),
         "off_dt_strings", struct_top(m))

(* Mutated form: the offsets still count from the end of the buffer. *)
Corrected_Not(m) == m

(* The names' offsets counted from the start of the strings. *)
Corrected(m) ==
    LET names == {fdt + off_dt_struct(m) + o + 2 * FDT_TAGSIZE :
                    o \in {x \in 0..size_dt_struct(m) :
                            x \in ToSet(TagOffsets(m)) /\ NextTag(m, x).tag = FDT_PROP}}
    IN  [a \in DOMAIN m |-> IF a \in names THEN m[a] + size_dt_strings(m) ELSE m[a]]

Completed(m) ==
    With(With(With(m, "totalsize", struct_top(m) + size_dt_strings(m)),
              "flags", 0), "magic", FDT_MAGIC)

fdt_finish ==
    LET moved == Relocated(Grabbed(mem, FDT_TAGSIZE, Word(FDT_END)))
    IN  \/ ~InStruct(mem) /\ Refuse("BADSTATE")
        \/ InStruct(mem) /\ ~HasSpace(mem, FDT_TAGSIZE) /\ Refuse("NOSPACE")
        \/ /\ InStruct(mem) /\ HasSpace(mem, FDT_TAGSIZE)
           /\ mem' = IF WalkEnds(moved) THEN Completed(Corrected(moved)) ELSE Corrected(moved)
           /\ ret' = IF WalkEnds(moved) THEN "OK" ELSE "BADSTRUCTURE"
           /\ UNCHANGED fdt

(* One tree is written; fdt_create_empty_tree and ufdt_to_fdt are callers   *)
(* that make these calls in their order and give up at the first failure.  *)
Next ==
    \/ fdt = NULL /\ \E b \in Buffers, flags \in Flags : fdt_create(b, flags)
    \/ fdt # NULL /\ \E b \in Buffers : fdt_resize(b)
    \/ fdt # NULL /\ \E r \in Reservations : fdt_add_reservemap_entry(r)
    \/ fdt # NULL /\ fdt_finish_reservemap
    \/ fdt # NULL /\ \E name \in Names : fdt_begin_node(name)
    \/ fdt # NULL /\ fdt_end_node
    \/ fdt # NULL /\ \E name \in PropNames, value \in Values : fdt_property(name, value)
    \/ fdt # NULL /\ fdt_finish

Spec == Init /\ [][Next]_vars

----------------------------------------------------------------------------
(* What the blob stands for *)

InWriting  == fdt # NULL /\ Field(mem, "magic") = FDT_SW_MAGIC

stage ==
    IF fdt = NULL THEN "none"
    ELSE IF IsComplete THEN "complete"
    ELSE IF InMemrsv(mem) THEN "memrsv"
    ELSE IF InStruct(mem) THEN "struct"
    ELSE "lost"

(* While the reservations are written, those written *)
reserved ==
    LET room == (off_dt_struct(mem) - off_mem_rsvmap(mem)) \div ReserveSize
    IN  IF fdt = NULL THEN << >>
        ELSE IF stage = "memrsv"
        THEN [i \in 1..room |->
                Cells(mem, fdt + off_mem_rsvmap(mem) + ReserveSize * (i - 1), ReserveSize)]
        ELSE ReservedUpTo(room)

----------------------------------------------------------------------------
(* Properties *)

(* Types; and a blob that is being written is always in one of the two     *)
(* states that its header encodes (fdt_sw.c:32-81).                        *)
TypeOK ==
    /\ DOMAIN mem = 0..(MemSize - 1) /\ \A a \in DOMAIN mem : mem[a] \in Int
    /\ fdt \in {NULL} \cup {b.addr : b \in Buffers}
    /\ ret \in {"OK", "NOSPACE", "BADFLAGS", "BADSTATE", "INTERNAL", "BADSTRUCTURE"}
    /\ stage # "lost"

(* The structure grows towards the strings and the strings towards the     *)
(* structure; they never meet, whatever room each call found and whatever  *)
(* name was taken back (fdt_sw.c:94-107, :250-274, :305-316).              *)
BlocksNeverMeet ==
    InWriting => struct_top(mem) + size_dt_strings(mem) <= totalsize(mem)

(* A finished blob is one that readers accept: its blocks lie one behind   *)
(* the other and fill it, the walk over it ends at FDT_END, and the name   *)
(* of every property, whose offset counted from the end of the buffer      *)
(* before, lies inside the strings (fdt_sw.c:347-381).                     *)
CompleteIsReadable ==
    IsComplete =>
        /\ struct_top(mem) = off_dt_strings(mem)
        /\ off_dt_strings(mem) + size_dt_strings(mem) = totalsize(mem)
        /\ WalkEnds(mem)
        /\ \A o \in ToSet(TagOffsets(mem)) :
              NextTag(mem, o).tag = FDT_PROP =>
                 LET nameoff == mem[fdt + off_dt_struct(mem) + o + 2 * FDT_TAGSIZE]
                 IN  /\ nameoff \in 0..(size_dt_strings(mem) - 1)
                     /\ NulFrom(mem, fdt + off_dt_strings(mem) + nameoff) < strtab(mem)

(* The blocks of a blob, while it is written and when it is finished       *)
(* (fdt_sw.c:94-107, :347-381).                                            *)
BlocksAreSound == BlocksNeverMeet /\ CompleteIsReadable

(* What a failed call leaves alone: the address of the blob, all up to the *)
(* end of the structure, and the strings.                                  *)
FailureKeepsBlocks ==
    ret' # "OK" /\ fdt # NULL =>
        LET start == strtab(mem) - size_dt_strings(mem)
        IN  /\ fdt' = fdt
            /\ Cells(mem', fdt, struct_top(mem)) = Cells(mem, fdt, struct_top(mem))
            /\ Cells(mem', start, size_dt_strings(mem))
                  = Cells(mem, start, size_dt_strings(mem))

(* A call that fails leaves the tree as it was, so that the caller can     *)
(* move it to a larger buffer and repeat the call (fdt_sw.c:148-186,       *)
(* :311-316).                                                              *)
FailureChangesNothing == [][FailureKeepsBlocks]_vars

Tree == INSTANCE TreeWriter WITH stage <- stage, reserved <- reserved, pieces <- pieces

(* Whatever calls fail, whichever names share their strings and wherever   *)
(* the blob is moved, the pieces written so far are in it in their order,  *)
(* before and after the strings are relocated (fdt_sw.c:109-384).          *)
NothingIsLost == Tree!Spec
=============================================================================
