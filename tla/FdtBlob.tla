------------------------------- MODULE FdtBlob -------------------------------
(***************************************************************************)
(* A flattened device tree in memory, as libs/libfdt writes, edits and     *)
(* reads it: a header, memory reservations, a block of the tags of the     *)
(* structure and a block of the strings that name the properties.          *)
(*                                                                         *)
(* Memory is an array of cells.  A field of the header, a character and a  *)
(* property's datum take a cell each, a word of the structure block        *)
(* FDT_TAGSIZE cells, of which the first holds the value.                  *)
(***************************************************************************)
EXTENDS Integers, Sequences, SequencesExt, FiniteSetsExt

CONSTANTS
    MemSize,       \* the cells of memory
    Buffers,       \* the buffers callers use: records of addr and size
    Reservations,  \* pairs of an address and a size
    Names,         \* names of nodes, as sequences of characters
    PropNames,     \* names of properties
    Values,        \* values of properties, as sequences of cells
    FDT_TAGSIZE

NULL == -1

(* The fields of the header, in cells from its start. *)
Fields == [magic           |-> 0, totalsize        |-> 1, off_dt_struct   |-> 2,
           off_dt_strings  |-> 3, off_mem_rsvmap   |-> 4, flags           |-> 5,
           size_dt_strings |-> 6, size_dt_struct   |-> 7]
HeaderSize  == 8
ReserveSize == 2

FDT_MAGIC == 1
FDT_SW_MAGIC == -2
FDT_BEGIN_NODE == 1
FDT_END_NODE == 2
FDT_PROP == 3
FDT_NOP == 4
FDT_END == 9

(* The strings fit into a header.  The checks for room subtract the length *)
(* of a name from unsigned sizes; a name longer than the buffer would wrap *)
(* them around.  Device tree names are shorter.                            *)
ASSUME ConstantsAreTyped ==
    /\ MemSize \in Nat /\ FDT_TAGSIZE \in Nat \ {0}
    /\ \A b \in Buffers : b.addr \in Nat /\ b.size \in Nat /\ b.addr + b.size <= MemSize
    /\ Names \cup PropNames \subseteq Seq(Nat \ {0})
    /\ \A n \in PropNames : n # << >> /\ Len(n) < HeaderSize
    /\ Values \subseteq Seq(Nat)
    /\ Reservations \subseteq (Nat \ {0}) \X (Nat \ {0})

VARIABLES
    mem,   \* the cells
    fdt,   \* the address of the blob, or NULL
    ret    \* what the last call returned

vars == <<mem, fdt, ret>>

----------------------------------------------------------------------------
(* Cells.  M is a memory in which the blob is at address fdt. *)

Field(m, name)  == m[fdt + Fields[name]]
totalsize(m)       == Field(m, "totalsize")
off_mem_rsvmap(m)  == Field(m, "off_mem_rsvmap")
off_dt_struct(m)   == Field(m, "off_dt_struct")
off_dt_strings(m)  == Field(m, "off_dt_strings")
size_dt_struct(m)  == Field(m, "size_dt_struct")
size_dt_strings(m) == Field(m, "size_dt_strings")

With(m, name, value) == [m EXCEPT ![fdt + Fields[name]] = value]

(* Memory m with the sequence s at address a, and with n cells moved. *)
Put(m, a, s) ==
    [i \in DOMAIN m |-> IF i \in a..(a + Len(s) - 1) THEN s[i - a + 1] ELSE m[i]]

memmove(m, to, from, n) ==
    [i \in DOMAIN m |-> IF i \in to..(to + n - 1) THEN m[from + i - to] ELSE m[i]]

(* The n cells of m from address a on. *)
Cells(m, a, n) == [i \in 1..n |-> m[a + i - 1]]

Word(x)     == [i \in 1..FDT_TAGSIZE |-> IF i = 1 THEN x ELSE 0]
TagAlign(n) == ((n + FDT_TAGSIZE - 1) \div FDT_TAGSIZE) * FDT_TAGSIZE
Terminated(name) == Append(name, 0)

(* The first cell from address a on that is 0, or the end of memory. *)
NulFrom(m, a) ==
    CHOOSE i \in a..MemSize :
        (i = MemSize \/ m[i] = 0) /\ \A j \in a..(i - 1) : m[j] # 0

(* The string at address a. *)
StringAt(m, a) == Cells(m, a, NulFrom(m, a) - a)

Smaller(x, y) == IF x < y THEN x ELSE y

(* What a call that changes the blob returns, and one that changes nothing *)
Return(m)     == mem' = m /\ ret' = "OK" /\ UNCHANGED fdt
Refuse(error) == ret' = error /\ UNCHANGED <<mem, fdt>>

----------------------------------------------------------------------------
(* Reading the structure block *)

(* fdt_next_tag: the tag at an offset and the offset of the next, NULL if  *)
(* the block ends or makes no sense there.  Lengths are unsigned: one that *)
(* is negative here is too large for any block.                            *)
NextTag(m, o) ==
    LET struct == fdt + off_dt_struct(m)
        tag    == m[struct + o]
        size   == size_dt_struct(m)
        end    == CASE tag = FDT_BEGIN_NODE -> NulFrom(m, struct + o + FDT_TAGSIZE) + 1 - struct
                    [] tag = FDT_PROP ->
                            IF o + 2 * FDT_TAGSIZE > size THEN size + 1
                            ELSE o + 3 * FDT_TAGSIZE + m[struct + o + FDT_TAGSIZE]
                    [] tag \in {FDT_END_NODE, FDT_NOP, FDT_END} -> o + FDT_TAGSIZE
                    [] OTHER -> size + 1
    IN  IF o + FDT_TAGSIZE > size \/ end \notin (o + 1)..size THEN [tag |-> FDT_END, next |-> NULL]
        ELSE [tag |-> tag, next |-> TagAlign(end)]

(* Op of the offset of each tag but FDT_NOP, up to the end or to nonsense *)
Walk(m, Op(_)) ==
    LET from[o \in 0..(size_dt_struct(m) + FDT_TAGSIZE)] ==
            LET t == NextTag(m, o)
            IN  IF t.tag = FDT_END THEN << >>
                ELSE IF t.tag = FDT_NOP THEN from[t.next]
                ELSE <<Op(o)>> \o from[t.next]
    IN  from[0]

TagOffsets(m) == Walk(m, LAMBDA o : o)

(* Every tag up to FDT_END makes sense. *)
WalkEnds(m) ==
    LET ends[o \in 0..(size_dt_struct(m) + FDT_TAGSIZE)] ==
            LET t == NextTag(m, o)
            IN  t.next # NULL /\ (t.tag = FDT_END \/ ends[t.next])
    IN  ends[0]

----------------------------------------------------------------------------
(* The structure block as a chain of whole tags, as fdt_next_tag reads it *)

Aligned(x) == x \in Nat /\ TagAlign(x) = x

(* The block at address at has a tag at offset o, and the next at next. *)
IsTag(m, at, o, next) ==
    /\ Aligned(next)
    /\ \/ m[at + o] \in {FDT_END_NODE, FDT_NOP} /\ next = o + FDT_TAGSIZE
       \/ /\ m[at + o] = FDT_BEGIN_NODE
          /\ \E z \in (o + FDT_TAGSIZE)..(next - 1) :
                /\ next < z + 1 + FDT_TAGSIZE
                /\ m[at + z] = 0
                /\ \A y \in (o + FDT_TAGSIZE)..(z - 1) : m[at + y] # 0
       \/ /\ m[at + o] = FDT_PROP /\ m[at + o + FDT_TAGSIZE] \in Nat
          /\ o + 3 * FDT_TAGSIZE + m[at + o + FDT_TAGSIZE] <= next
          /\ next < o + 3 * FDT_TAGSIZE + m[at + o + FDT_TAGSIZE] + FDT_TAGSIZE

(* Next is where the tag at o ends, and no offset of T is between them. *)
IsLink(m, at, T, o, next) ==
    /\ o < next /\ IsTag(m, at, o, next)
    /\ \A p \in T : p <= o \/ next <= p

(* T is the offsets of the tags that fill the first size cells, with size. *)
IsChain(m, at, size, T) ==
    /\ T \subseteq 0..size /\ 0 \in T /\ size \in T
    /\ \A o \in T : Aligned(o)
    /\ \A o \in T \ {size} : \E next \in T : IsLink(m, at, T, o, next)

----------------------------------------------------------------------------
(* What the blob stands for *)

IsComplete == fdt # NULL /\ Field(mem, "magic") = FDT_MAGIC

strings == IF IsComplete THEN fdt + off_dt_strings(mem) ELSE fdt + totalsize(mem)

(* A piece as a reader finds it, with the name that its offset leads to. *)
PieceAt(o) ==
    LET at == fdt + off_dt_struct(mem) + o
        Piece(tag, name, value) == [tag |-> tag, name |-> name, value |-> value]
    IN  CASE mem[at] = FDT_BEGIN_NODE ->
                Piece("BEGIN_NODE", StringAt(mem, at + FDT_TAGSIZE), << >>)
          [] mem[at] = FDT_END_NODE -> Piece("END_NODE", << >>, << >>)
          [] mem[at] = FDT_PROP ->
                Piece("PROP", StringAt(mem, strings + mem[at + 2 * FDT_TAGSIZE]),
                      Cells(mem, at + 3 * FDT_TAGSIZE, mem[at + FDT_TAGSIZE]))

pieces == IF fdt = NULL THEN << >> ELSE Walk(mem, PieceAt)

(* As a reader counts them, up to the entry of size 0 or to so many *)
ReservedUpTo(room) ==
    LET entry(i) == Cells(mem, fdt + off_mem_rsvmap(mem) + ReserveSize * (i - 1), ReserveSize)
        n        == Min({room + 1} \cup {i \in 1..room : entry(i)[2] = 0}) - 1
    IN  [i \in 1..n |-> entry(i)]
=============================================================================
