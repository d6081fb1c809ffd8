----------------------------- MODULE FdtSw_proofs -----------------------------
(***************************************************************************)
(* Proofs about the sequential writer, for any memory, any buffers in it   *)
(* and any names and values: the header always describes the blob, the     *)
(* structure block is a chain of whole tags, and so a call that fails      *)
(* changes nothing and a finished blob can be read; and the pieces that    *)
(* are read along the chain are the tree of TreeWriter, to which each call *)
(* adds one piece or nothing.                                              *)
(***************************************************************************)
EXTENDS FdtSw, FdtBlob_proofs

Mem == [0..(MemSize - 1) -> Int]

(* The header of a blob at address f: its blocks lie in the buffer, the    *)
(* strings end with a terminator, and before the structure is begun both   *)
(* blocks are empty.                                                       *)
Layout(m, f) ==
    /\ \E b \in Buffers : b.addr = f /\ b.size = m[f + 1]
    /\ m[f + 2] \in Nat /\ m[f + 6] \in Nat /\ m[f + 7] \in Nat
    /\ HeaderSize <= m[f + 2] /\ m[f + 4] = HeaderSize
    /\ m[f + 2] + m[f + 7] + m[f + 6] <= m[f + 1]
    /\ m[f + 3] \in {0, m[f + 1]}
    /\ m[f + 3] = 0 => m[f + 6] = 0 /\ m[f + 7] = 0
    /\ m[f + 6] # 0 => m[f + m[f + 1] - 1] = 0

(* Every property of the chain has its name between lo and hi. *)
NamesAreIn(m, at, size, T, lo, hi) ==
    \A o \in T \ {size} : m[at + o] = FDT_PROP => m[at + o + 2 * FDT_TAGSIZE] \in lo..hi

(* The structure block so far, with names that count down from the end *)
IsWritten(m, f) ==
    \E T : /\ IsChain(m, f + m[f + 2], m[f + 7], T)
           /\ NamesAreIn(m, f + m[f + 2], m[f + 7], T, -m[f + 6], -1)

(* A blob in writing *)
Writing(m, f) == m[f] = FDT_SW_MAGIC /\ Layout(m, f) /\ IsWritten(m, f)

(* A finished one: FDT_END is behind the chain, the strings behind that.   *)
Finished(m, f) ==
    /\ m[f] = FDT_MAGIC
    /\ f \in Nat /\ m[f + 2] \in Nat /\ m[f + 6] \in Nat
    /\ m[f + 3] = m[f + 2] + m[f + 7] /\ m[f + 3] + m[f + 6] = m[f + 1]
    /\ f + m[f + 1] <= MemSize
    /\ m[f + 6] # 0 => m[f + m[f + 1] - 1] = 0
    /\ \E size \in Nat :
          /\ size + FDT_TAGSIZE = m[f + 7] /\ m[f + m[f + 2] + size] = FDT_END
          /\ \E T : /\ IsChain(m, f + m[f + 2], size, T)
                    /\ NamesAreIn(m, f + m[f + 2], size, T, 0, m[f + 6] - 1)

WriterInv ==
    /\ mem \in Mem
    /\ fdt \in {NULL} \cup {b.addr : b \in Buffers}
    /\ ret \in {"OK", "NOSPACE", "BADFLAGS", "BADSTATE", "INTERNAL", "BADSTRUCTURE"}
    /\ fdt # NULL => Writing(mem, fdt) \/ Finished(mem, fdt)

----------------------------------------------------------------------------
(* Chains *)

LEMMA EmptyChain ==
    ASSUME NEW m, NEW at
    PROVE  IsChain(m, at, 0, {0})
  BY AlignedTags DEF IsChain

(* One more tag at the end *)
LEMMA ChainExtends ==
    ASSUME NEW m, NEW at \in Int, NEW size \in Nat, NEW T, IsChain(m, at, size, T),
           NEW new \in Nat, size < new, IsTag(m, at, size, new)
    PROVE  IsChain(m, at, new, T \cup {new})
<1> DEFINE U == T \cup {new}
<1>1. T \subseteq 0..size /\ 0 \in T /\ size \in T /\ (\A o \in T : Aligned(o))
  BY DEF IsChain
<1>2. U \subseteq 0..new /\ 0 \in U /\ new \in U
  BY <1>1
<1>3. \A o \in U : Aligned(o)
  BY <1>1 DEF IsTag
<1>4. ASSUME NEW o \in U \ {new}
      PROVE  \E next \in U : IsLink(m, at, U, o, next)
  <2>1. o \in T
    OBVIOUS
  <2>2. CASE o = size
    <3>1. \A p \in U : p <= o \/ new <= p
      BY <1>1, <2>2
    <3> QED
      BY <2>2, <3>1 DEF IsLink
  <2>3. CASE o # size
    <3>1. PICK next \in T : IsLink(m, at, T, o, next)
      BY <2>1, <2>3 DEF IsChain
    <3>2. next <= new
      BY <1>1
    <3>3. \A p \in U : p <= o \/ next <= p
      BY <3>1, <3>2 DEF IsLink
    <3> QED
      BY <3>1, <3>3 DEF IsLink
  <2> QED
    BY <2>2, <2>3
<1> QED
  BY <1>2, <1>3, <1>4 DEF IsChain

LEMMA NamesSurvive ==
    ASSUME NEW m, NEW at \in Int, NEW n, NEW to \in Int, NEW size \in Nat,
           NEW T, IsChain(m, at, size, T),
           NEW lo \in Int, NEW hi \in Int, NamesAreIn(m, at, size, T, lo, hi),
           NEW low \in Int, low <= lo,
           \A x \in 0..(size - 1) : n[to + x] = m[at + x]
    PROVE  NamesAreIn(n, to, size, T, low, hi)
<1>1. ASSUME NEW o \in T \ {size}, n[to + o] = FDT_PROP
      PROVE  n[to + o + 2 * FDT_TAGSIZE] \in low..hi
  <2>0. FDT_TAGSIZE \in Nat \ {0}
    BY TagSize
  <2>1. PICK next \in T : IsLink(m, at, T, o, next)
    BY DEF IsChain
  <2>2. o \in Nat /\ next \in Nat /\ o < next /\ next <= size
    BY <2>1 DEF IsChain, IsLink
  <2>3. m[at + o] = FDT_PROP
    BY <1>1, <2>2
  <2>4. o + 3 * FDT_TAGSIZE <= next
    <3>1. /\ m[at + o + FDT_TAGSIZE] \in Nat
          /\ o + 3 * FDT_TAGSIZE + m[at + o + FDT_TAGSIZE] <= next
      BY <2>1, <2>3 DEF IsLink, IsTag, FDT_BEGIN_NODE, FDT_END_NODE, FDT_NOP, FDT_PROP
    <3> QED
      BY <2>0, <2>2, <3>1
  <2>5. o + 2 * FDT_TAGSIZE \in 0..(size - 1)
    BY <2>0, <2>2, <2>4
  <2>6. n[to + (o + 2 * FDT_TAGSIZE)] = m[at + (o + 2 * FDT_TAGSIZE)]
    BY <2>5
  <2>7. /\ to + (o + 2 * FDT_TAGSIZE) = to + o + 2 * FDT_TAGSIZE
        /\ at + (o + 2 * FDT_TAGSIZE) = at + o + 2 * FDT_TAGSIZE
    BY <2>0, <2>2
  <2>8. n[to + o + 2 * FDT_TAGSIZE] = m[at + o + 2 * FDT_TAGSIZE]
    BY <2>6, <2>7
  <2>9. m[at + o + 2 * FDT_TAGSIZE] \in lo..hi
    BY <2>3 DEF NamesAreIn
  <2> QED
    BY <2>8, <2>9
<1> QED
  BY <1>1 DEF NamesAreIn

(* The offset of the name of a property lies inside the property. *)
LEMMA NameIsInside ==
    ASSUME NEW m, NEW at, NEW T, NEW o \in Nat, NEW next \in Nat,
           IsTag(m, at, o, next), m[at + o] = FDT_PROP
    PROVE  o + 3 * FDT_TAGSIZE <= next
<1>1. /\ m[at + o + FDT_TAGSIZE] \in Nat
      /\ o + 3 * FDT_TAGSIZE + m[at + o + FDT_TAGSIZE] <= next
  BY DEF IsTag, FDT_BEGIN_NODE, FDT_END_NODE, FDT_NOP, FDT_PROP
<1> QED
  BY <1>1, TagSize

(* fdt_finish corrects the offsets of names, which no tag is read from. *)
LEMMA ChainIsCorrected ==
    ASSUME NEW m, NEW at \in Int, NEW n, NEW size \in Nat, NEW T, IsChain(m, at, size, T),
           \A x \in 0..(size - 1) :
              \/ n[at + x] = m[at + x]
              \/ \E p \in T \ {size} : m[at + p] = FDT_PROP /\ x = p + 2 * FDT_TAGSIZE
    PROVE  IsChain(n, at, size, T) /\ \A o \in T \ {size} : n[at + o] = m[at + o]
<1>0. FDT_TAGSIZE \in Nat \ {0} /\ T \subseteq 0..size
  BY TagSize DEF IsChain
<1>1. ASSUME NEW o \in T \ {size}
      PROVE  n[at + o] = m[at + o] /\ \E next \in T : IsLink(n, at, T, o, next)
  <2>1. PICK next \in T : IsLink(m, at, T, o, next)
    BY DEF IsChain
  <2>2. o \in Nat /\ next \in Nat /\ o < next /\ next <= size
    BY <1>0, <2>1 DEF IsLink
  <2>3. ASSUME NEW x \in o..(next - 1), m[at + o] # FDT_PROP \/ x # o + 2 * FDT_TAGSIZE
        PROVE  n[at + x] = m[at + x]
    <3>1. x \in 0..(size - 1)
      BY <2>2
    <3>2. ASSUME NEW p \in T \ {size}, m[at + p] = FDT_PROP, x = p + 2 * FDT_TAGSIZE
          PROVE  FALSE
      <4>1. PICK q \in T : IsLink(m, at, T, p, q)
        BY DEF IsChain
      <4>2. p \in Nat /\ q \in Nat
        BY <1>0
      <4>3. p + 3 * FDT_TAGSIZE <= q
        BY <3>2, <4>1, <4>2, NameIsInside DEF IsLink
      <4>4. (o <= p \/ q <= o) /\ (p <= o \/ next <= p)
        BY <2>1, <4>1 DEF IsLink
      <4>5. p # o
        BY <2>3, <3>2
      <4> QED
        BY <1>0, <2>2, <3>1, <3>2, <4>2, <4>3, <4>4, <4>5
    <3> QED
      BY <3>1, <3>2
  <2>4. IsTag(n, at, o, next)
    BY <2>1, <2>2, <2>3, TagSurvives DEF IsLink
  <2>5. n[at + o] = m[at + o]
    <3>1. o \in o..(next - 1) /\ o # o + 2 * FDT_TAGSIZE
      BY <1>0, <2>2
    <3> QED
      BY <2>3, <3>1
  <2> QED
    BY <2>1, <2>4, <2>5 DEF IsLink
<1> QED
  BY <1>1 DEF IsChain

----------------------------------------------------------------------------
(* The cells of a blob *)

LEMMA FieldsAre ==
    ASSUME fdt \in Nat, NEW m
    PROVE  /\ Field(m, "magic") = m[fdt] /\ totalsize(m) = m[fdt + 1]
           /\ off_dt_struct(m) = m[fdt + 2] /\ off_dt_strings(m) = m[fdt + 3]
           /\ off_mem_rsvmap(m) = m[fdt + 4] /\ Field(m, "flags") = m[fdt + 5]
           /\ size_dt_strings(m) = m[fdt + 6] /\ size_dt_struct(m) = m[fdt + 7]
           /\ struct_top(m) = m[fdt + 2] + m[fdt + 7] /\ strtab(m) = fdt + m[fdt + 1]
<1>1. fdt + 0 = fdt
  OBVIOUS
<1>2. /\ Fields["magic"] = 0 /\ Fields["totalsize"] = 1 /\ Fields["off_dt_struct"] = 2
      /\ Fields["off_dt_strings"] = 3 /\ Fields["off_mem_rsvmap"] = 4
      /\ Fields["flags"] = 5 /\ Fields["size_dt_strings"] = 6
      /\ Fields["size_dt_struct"] = 7
  BY DEF Fields
<1>3. /\ Field(m, "magic") = m[fdt] /\ totalsize(m) = m[fdt + 1]
      /\ off_dt_struct(m) = m[fdt + 2] /\ off_dt_strings(m) = m[fdt + 3]
      /\ off_mem_rsvmap(m) = m[fdt + 4] /\ Field(m, "flags") = m[fdt + 5]
      /\ size_dt_strings(m) = m[fdt + 6] /\ size_dt_struct(m) = m[fdt + 7]
  BY <1>1, <1>2, Zenon DEF Field, totalsize, off_dt_struct, off_dt_strings, off_mem_rsvmap,
                           size_dt_strings, size_dt_struct
<1> QED
  BY <1>3, Zenon DEF struct_top, strtab

(* The buffer of a blob lies in memory. *)
LEMMA LayoutIsInside ==
    ASSUME NEW m, NEW f, Layout(m, f)
    PROVE  /\ f \in Nat /\ m[f + 1] \in Nat /\ f + m[f + 1] <= MemSize
           /\ f + 8 <= MemSize /\ 8 <= m[f + 1] /\ MemSize \in Nat
<1>1. PICK b \in Buffers : b.addr = f /\ b.size = m[f + 1]
  BY DEF Layout
<1>2. f \in Nat /\ m[f + 1] \in Nat /\ f + m[f + 1] <= MemSize /\ MemSize \in Nat
  BY <1>1, ConstantsAreTyped
<1>3. 8 <= m[f + 1]
  BY <1>2 DEF Layout, HeaderSize
<1> QED
  BY <1>2, <1>3

LEMMA PutCells ==
    ASSUME NEW m \in Mem, NEW a \in Nat, NEW s \in Seq(Int)
    PROVE  /\ Put(m, a, s) \in Mem
           /\ \A i \in 0..(MemSize - 1) :
                 Put(m, a, s)[i] = IF a <= i /\ i < a + Len(s) THEN s[i - a + 1] ELSE m[i]
<1>1. Len(s) \in Nat /\ MemSize \in Nat
  BY TagSize
<1>2. DOMAIN m = 0..(MemSize - 1) /\ \A i \in 0..(MemSize - 1) : m[i] \in Int
  BY DEF Mem
<1>3. Put(m, a, s) = [i \in 0..(MemSize - 1) |->
                         IF i \in a..(a + Len(s) - 1) THEN s[i - a + 1] ELSE m[i]]
  BY <1>2, Zenon DEF Put
<1>4. \A i \in 0..(MemSize - 1) : i \in a..(a + Len(s) - 1) <=> a <= i /\ i < a + Len(s)
  BY <1>1
<1>5. \A i \in a..(a + Len(s) - 1) : s[i - a + 1] \in Int
  <2>1. \A i \in a..(a + Len(s) - 1) : i - a + 1 \in 1..Len(s)
    BY <1>1
  <2> QED
    BY <2>1
<1>6. \A i \in 0..(MemSize - 1) :
          (IF i \in a..(a + Len(s) - 1) THEN s[i - a + 1] ELSE m[i]) \in Int
  BY <1>2, <1>5
<1>7. Put(m, a, s) \in Mem
  BY <1>3, <1>6 DEF Mem
<1>8. \A i \in 0..(MemSize - 1) :
          Put(m, a, s)[i] = IF a <= i /\ i < a + Len(s) THEN s[i - a + 1] ELSE m[i]
  BY <1>3, <1>4
<1> QED
  BY <1>7, <1>8

(* One field of the header set *)
LEMMA WithCells ==
    ASSUME NEW m \in Mem, fdt \in Nat, fdt + 8 <= MemSize, NEW v \in Int,
           NEW name \in DOMAIN Fields
    PROVE  /\ With(m, name, v) \in Mem
           /\ With(m, name, v)[fdt + Fields[name]] = v
           /\ \A i \in 0..(MemSize - 1) : i # fdt + Fields[name] => With(m, name, v)[i] = m[i]
<1>1. Fields[name] \in 0..7
  BY DEF Fields
<1>2. PICK k \in 0..7 : k = Fields[name]
  BY <1>1
<1>3. With(m, name, v) = [m EXCEPT ![fdt + k] = v] /\ fdt + k \in 0..(MemSize - 1)
  BY <1>2, TagSize DEF With
<1> QED
  BY <1>2, <1>3 DEF Mem

LEMMA FieldNumbers ==
    /\ Fields["magic"] = 0 /\ Fields["totalsize"] = 1 /\ Fields["off_dt_struct"] = 2
    /\ Fields["off_dt_strings"] = 3 /\ Fields["flags"] = 5 /\ Fields["size_dt_strings"] = 6
    /\ Fields["size_dt_struct"] = 7
    /\ {"magic", "totalsize", "off_dt_struct", "off_dt_strings", "flags", "size_dt_strings",
        "size_dt_struct"} \subseteq DOMAIN Fields
  BY DEF Fields

(* The numbers in the header of a blob in writing *)
Sizes(m, total, off, strs, size) ==
    /\ fdt \in Nat /\ total \in Nat /\ off \in Nat /\ strs \in Nat /\ size \in Nat
    /\ m[fdt + 1] = total /\ m[fdt + 2] = off /\ m[fdt + 6] = strs /\ m[fdt + 7] = size
    /\ 8 <= off /\ off + size + strs <= total /\ fdt + total <= MemSize /\ MemSize \in Nat

LEMMA SizesAre ==
    ASSUME NEW m, Layout(m, fdt)
    PROVE  \E total, off, strs, size : Sizes(m, total, off, strs, size)
<1> PICK total, off, strs, size : /\ m[fdt + 1] = total /\ m[fdt + 2] = off
                                  /\ m[fdt + 6] = strs /\ m[fdt + 7] = size
  OBVIOUS
<1>1. fdt \in Nat /\ total \in Nat /\ fdt + total <= MemSize /\ MemSize \in Nat
  <2>1. fdt \in Nat /\ m[fdt + 1] \in Nat /\ fdt + m[fdt + 1] <= MemSize /\ MemSize \in Nat
    BY LayoutIsInside
  <2> QED
    BY <2>1, Zenon
<1>2. /\ off \in Nat /\ strs \in Nat /\ size \in Nat
      /\ HeaderSize <= off /\ off + size + strs <= total
  BY Zenon DEF Layout
<1> QED
  BY <1>1, <1>2 DEF Sizes, HeaderSize

(* fdt_grab_space_ touches the cells it grabs and the size in the header. *)
LEMMA GrabbedCells ==
    ASSUME NEW m \in Mem, NEW total, NEW off, NEW strs, NEW size,
           Sizes(m, total, off, strs, size), NEW n \in Nat, HasSpace(m, n),
           NEW s \in Seq(Int), NEW len, len = Len(s), len <= n,
           NEW top, top = fdt + off + size
    PROVE  /\ top \in Nat /\ top >= fdt + 8 /\ top + n <= fdt + total - strs
           /\ len \in Nat
           /\ Grabbed(m, n, s) \in Mem
           /\ Grabbed(m, n, s)[fdt + 7] = size + n
           /\ \A i \in 0..(MemSize - 1) :
                 i # fdt + 7 /\ (i < top \/ top + len <= i) => Grabbed(m, n, s)[i] = m[i]
           /\ \A j \in 1..len : Grabbed(m, n, s)[top + j - 1] = s[j]
<1>1. /\ fdt \in Nat /\ total \in Nat /\ off \in Nat /\ strs \in Nat /\ size \in Nat
      /\ 8 <= off /\ off + size + strs <= total /\ fdt + total <= MemSize /\ MemSize \in Nat
  BY DEF Sizes
<1>2. /\ totalsize(m) = total /\ off_dt_struct(m) = off /\ size_dt_strings(m) = strs
      /\ size_dt_struct(m) = size /\ struct_top(m) = off + size
  BY <1>1, FieldsAre, Zenon DEF Sizes
<1>3. size + n <= total - off - strs
  BY <1>2, Zenon DEF HasSpace
<1>4. top \in Nat /\ top >= fdt + 8 /\ top + n <= fdt + total - strs /\ len \in Nat
  BY <1>1, <1>3
<1>5. PICK p : p = Put(m, top, s)
  OBVIOUS
<1>6. /\ p \in Mem
      /\ \A i \in 0..(MemSize - 1) :
            p[i] = IF top <= i /\ i < top + len THEN s[i - top + 1] ELSE m[i]
  <2>1. /\ Put(m, top, s) \in Mem
        /\ \A i \in 0..(MemSize - 1) :
              Put(m, top, s)[i] = IF top <= i /\ i < top + Len(s) THEN s[i - top + 1] ELSE m[i]
    BY <1>4, PutCells
  <2>2. len = Len(s)
    OBVIOUS
  <2> QED
    BY <1>5, <2>1, <2>2
<1>7. fdt + (off + size) = top /\ size + n \in Int /\ fdt + 8 <= MemSize
  BY <1>1
<1>8. Grabbed(m, n, s) = With(p, "size_dt_struct", size + n)
  BY <1>2, <1>5, <1>7, Zenon DEF Grabbed
<1> PICK g : g = Grabbed(m, n, s)
  OBVIOUS
<1>9. /\ g \in Mem /\ g[fdt + 7] = size + n
      /\ \A i \in 0..(MemSize - 1) : i # fdt + 7 => g[i] = p[i]
  <2>1. "size_dt_struct" \in DOMAIN Fields /\ Fields["size_dt_struct"] = 7
    BY FieldNumbers
  <2>2. /\ With(p, "size_dt_struct", size + n) \in Mem
        /\ With(p, "size_dt_struct", size + n)[fdt + Fields["size_dt_struct"]] = size + n
        /\ \A i \in 0..(MemSize - 1) :
              i # fdt + Fields["size_dt_struct"] => With(p, "size_dt_struct", size + n)[i] = p[i]
    BY <1>1, <1>6, <1>7, <2>1, WithCells, ZenonT(60)
  <2> QED
    BY <1>8, <2>1, <2>2, Zenon
<1>11. ASSUME NEW i \in 0..(MemSize - 1), i # fdt + 7, i < top \/ top + len <= i
       PROVE  g[i] = m[i]
  <2>1. ~(top <= i /\ i < top + len)
    <3>1. i \in Int /\ top \in Int /\ len \in Int
      BY <1>1, <1>4
    <3> QED
      BY <1>11, <3>1
  <2>2. p[i] = m[i]
    BY <1>6, <2>1, Zenon
  <2> QED
    BY <1>9, <1>11, <2>2, Zenon
<1>12. ASSUME NEW j \in 1..len PROVE g[top + j - 1] = s[j]
  <2>1. PICK i : i = top + j - 1
    OBVIOUS
  <2>2. i \in 0..(MemSize - 1) /\ i # fdt + 7 /\ top <= i /\ i < top + len /\ i - top + 1 = j
    BY <1>1, <1>3, <1>4, <2>1
  <2>3. p[i] = s[j]
    BY <1>6, <2>2, Zenon
  <2> QED
    BY <1>9, <2>1, <2>2, <2>3, Zenon
<1> QED
  BY <1>4, <1>9, <1>11, <1>12, Zenon

(* In the state of the structure block the header of a blob in writing     *)
(* says where its blocks are.                                              *)
LEMMA LayoutOf ==
    ASSUME NEW m, NEW total, NEW off, NEW strs, NEW size, Sizes(m, total, off, strs, size),
           NEW b \in Buffers, b.addr = fdt, b.size = total,
           m[fdt + 3] = 0 \/ m[fdt + 3] = total,
           m[fdt + 3] = 0 => strs = 0 /\ size = 0,
           m[fdt + 4] = HeaderSize, strs # 0 => m[fdt + total - 1] = 0
    PROVE  Layout(m, fdt)
  BY Zenon DEF Layout, Sizes, HeaderSize

(* A tag is written behind the chain; its name, if it has one, is known. *)
LEMMA GrabbedIsWritten ==
    ASSUME NEW m \in Mem, Writing(m, fdt), m[fdt + 3] = m[fdt + 1],
           NEW total, NEW off, NEW strs, NEW size, Sizes(m, total, off, strs, size),
           NEW n \in Nat, 0 < n, HasSpace(m, n), NEW s \in Seq(Int), Len(s) <= n,
           NEW at, at = fdt + off, NEW g, g = Grabbed(m, n, s),
           IsTag(g, at, size, size + n),
           g[at + size] = FDT_PROP => g[at + size + 2 * FDT_TAGSIZE] \in -strs..-1
    PROVE  g \in Mem /\ Writing(g, fdt)
<1> PICK len, top : len = Len(s) /\ top = fdt + off + size
  OBVIOUS
<1>1. /\ fdt \in Nat /\ total \in Nat /\ off \in Nat /\ strs \in Nat /\ size \in Nat
      /\ 8 <= off /\ off + size + strs <= total /\ fdt + total <= MemSize /\ MemSize \in Nat
      /\ m[fdt + 1] = total /\ m[fdt + 2] = off /\ m[fdt + 6] = strs /\ m[fdt + 7] = size
  BY DEF Sizes
<1>2. len <= n
  OBVIOUS
<1>3. /\ top \in Nat /\ top >= fdt + 8 /\ top + n <= fdt + total - strs /\ len \in Nat
      /\ g \in Mem /\ g[fdt + 7] = size + n
      /\ \A i \in 0..(MemSize - 1) : i # fdt + 7 /\ (i < top \/ top + len <= i) => g[i] = m[i]
  <2>1. /\ top \in Nat /\ top >= fdt + 8 /\ top + n <= fdt + total - strs /\ len \in Nat
        /\ Grabbed(m, n, s) \in Mem /\ Grabbed(m, n, s)[fdt + 7] = size + n
        /\ \A i \in 0..(MemSize - 1) :
              i # fdt + 7 /\ (i < top \/ top + len <= i) => Grabbed(m, n, s)[i] = m[i]
    BY <1>2, GrabbedCells
  <2> QED
    BY <2>1, Zenon
<1>4. g[fdt] = m[fdt] /\ \A k \in 1..6 : g[fdt + k] = m[fdt + k]
  <2>1. \A k \in 0..6 : fdt + k \in 0..(MemSize - 1) /\ fdt + k # fdt + 7 /\ fdt + k < top
    BY <1>1, <1>3
  <2>2. \A k \in 0..6 : g[fdt + k] = m[fdt + k]
    BY <1>3, <2>1, Zenon
  <2>3. fdt + 0 = fdt /\ 0 \in 0..6 /\ \A k \in 1..6 : k \in 0..6
    BY <1>1
  <2> QED
    BY <2>2, <2>3, Zenon
<1>5. /\ g[fdt + 1] = total /\ g[fdt + 2] = off /\ g[fdt + 3] = total /\ g[fdt + 4] = m[fdt + 4]
      /\ g[fdt + 6] = strs
  <2>1. \A k \in {1, 2, 3, 4, 6} : k \in 1..6
    OBVIOUS
  <2>2. /\ g[fdt + 1] = m[fdt + 1] /\ g[fdt + 2] = m[fdt + 2] /\ g[fdt + 3] = m[fdt + 3]
        /\ g[fdt + 4] = m[fdt + 4] /\ g[fdt + 6] = m[fdt + 6]
    BY <1>4, <2>1, Zenon
  <2> QED
    BY <1>1, <2>2, Zenon
<1>6. Sizes(g, total, off, strs, size + n)
  <2>1. size + n \in Nat /\ off + (size + n) + strs <= total
    BY <1>1, <1>3
  <2> QED
    BY <1>1, <1>3, <1>5, <2>1 DEF Sizes
<1>7. strs # 0 => g[fdt + total - 1] = 0
  <2>1. ASSUME strs # 0
        PROVE  /\ fdt + total - 1 \in 0..(MemSize - 1) /\ fdt + total - 1 # fdt + 7
               /\ top + len <= fdt + total - 1
    BY <1>1, <1>2, <1>3, <2>1
  <2>2. strs # 0 => m[fdt + total - 1] = 0
    BY <1>1, Zenon DEF Writing, Layout
  <2> QED
    BY <1>3, <2>1, <2>2, Zenon
<1>8. PICK b \in Buffers : b.addr = fdt /\ b.size = total
  BY <1>1, Zenon DEF Writing, Layout
<1>9. m[fdt + 4] = HeaderSize /\ total # 0
  <2>1. m[fdt + 4] = HeaderSize
    BY DEF Writing, Layout
  <2> QED
    BY <1>1, <2>1
<1>10. Layout(g, fdt)
  BY <1>5, <1>6, <1>7, <1>8, <1>9, LayoutOf
<1>11. PICK T : IsChain(m, at, size, T) /\ NamesAreIn(m, at, size, T, -strs, -1)
  BY <1>1, Zenon DEF Writing, IsWritten
<1>12. \A x \in 0..(size - 1) : g[at + x] = m[at + x]
  <2>1. \A x \in 0..(size - 1) : /\ at + x \in 0..(MemSize - 1) /\ at + x # fdt + 7
                                 /\ at + x < top
    BY <1>1, <1>3
  <2> QED
    BY <1>3, <2>1, Zenon
<1>13. at \in Int /\ -strs \in Int /\ -strs <= -strs /\ -1 \in Int /\ size + n \in Nat /\ size < size + n
  BY <1>1
<1>14. IsChain(g, at, size, T) /\ NamesAreIn(g, at, size, T, -strs, -1)
  <2>1. IsChain(g, at, size, T)
    <3>1. at \in Int /\ size \in Nat /\ IsChain(m, at, size, T)
      BY <1>1, <1>11, <1>13, Zenon
    <3> HIDE DEF IsChain
    <3> QED
      BY <3>1, <1>12, ChainSurvives
  <2>2. NamesAreIn(g, at, size, T, -strs, -1)
    <3> PICK lo, hi : lo = -strs /\ hi = -1
      OBVIOUS
    <3>1. /\ at \in Int /\ size \in Nat /\ lo \in Int /\ hi \in Int /\ lo <= lo
          /\ IsChain(m, at, size, T) /\ NamesAreIn(m, at, size, T, lo, hi)
      BY <1>1, <1>11, <1>13
    <3>2. NamesAreIn(g, at, size, T, lo, hi)
      <4> HIDE DEF NamesAreIn
      <4>1. \A x \in 0..(size - 1) : g[at + x] = m[at + x]
        BY <1>12
      <4>2. at \in Int /\ size \in Nat /\ lo \in Int /\ hi \in Int /\ lo <= lo
        BY <3>1
      <4>3. IsChain(m, at, size, T) /\ NamesAreIn(m, at, size, T, lo, hi)
        BY <3>1
      <4> QED
        BY ONLY <4>1, <4>2, <4>3, NamesSurvive
    <3> QED
      BY <3>2
  <2> QED
    BY <2>1, <2>2
<1>15. IsChain(g, at, size + n, T \cup {size + n})
  BY <1>1, <1>13, <1>14, ChainExtends
<1>16. NamesAreIn(g, at, size + n, T \cup {size + n}, -strs, -1)
  <2>1. \A o \in (T \cup {size + n}) \ {size + n} : o = size \/ o \in T \ {size}
    OBVIOUS
  <2> QED
    BY <1>14, <2>1, Zenon DEF NamesAreIn
<1>17. IsWritten(g, fdt)
  BY <1>3, <1>5, <1>15, <1>16, Zenon DEF IsWritten
<1> QED
  BY <1>3, <1>4, <1>10, <1>17, Zenon DEF Writing

----------------------------------------------------------------------------
(* The calls keep the invariant *)

LEMMA FieldsInWriting ==
    ASSUME WriterInv, fdt # NULL, Field(mem, "magic") = FDT_SW_MAGIC
    PROVE  fdt \in Nat /\ mem \in Mem /\ Writing(mem, fdt) /\ Layout(mem, fdt)
<1>1. fdt \in Nat
  BY ConstantsAreTyped DEF WriterInv
<1>2. mem[fdt] = FDT_SW_MAGIC
  BY <1>1, FieldsAre, Zenon
<1>3. ~Finished(mem, fdt)
  BY <1>2 DEF Finished, FDT_MAGIC, FDT_SW_MAGIC
<1> QED
  BY <1>1, <1>3, Zenon DEF WriterInv, Writing

LEMMA StructIsBegun ==
    ASSUME WriterInv, fdt # NULL, InStruct(mem)
    PROVE  /\ fdt \in Nat /\ mem \in Mem /\ Writing(mem, fdt) /\ Layout(mem, fdt)
           /\ mem[fdt + 3] = mem[fdt + 1]
<1>1. fdt \in Nat /\ mem \in Mem /\ Writing(mem, fdt) /\ Layout(mem, fdt)
  BY FieldsInWriting, Zenon DEF InStruct
<1>2. mem[fdt + 3] = mem[fdt + 1]
  BY <1>1, FieldsAre, Zenon DEF InStruct
<1> QED
  BY <1>1, <1>2, Zenon

LEMMA RefusalKeeps ==
    ASSUME WriterInv, NEW e \in {"NOSPACE", "BADFLAGS", "BADSTATE", "INTERNAL"}, Refuse(e)
    PROVE  WriterInv'
  BY DEF WriterInv, Refuse

LEMMA ReturnKeeps ==
    ASSUME WriterInv, NEW m \in Mem, Writing(m, fdt), Return(m)
    PROVE  WriterInv'
<1>1. fdt' \in {NULL} \cup {b.addr : b \in Buffers}
  BY DEF WriterInv, Return
<1>2. ret' = "OK" /\ mem' = m /\ fdt' = fdt
  BY DEF Return
<1> QED
  BY <1>1, <1>2 DEF WriterInv

LEMMA SizeIsAligned ==
    ASSUME NEW m, NEW total, NEW off, NEW strs, NEW size,
           Sizes(m, total, off, strs, size), Writing(m, fdt)
    PROVE  Aligned(size) /\ size \in Nat
<1>1. size \in Nat /\ m[fdt + 7] = size
  BY DEF Sizes
<1> QED
  BY <1>1, Zenon DEF Writing, IsWritten, IsChain

(* The cells of what is written, as seen from the start of the block *)
LEMMA GrabbedRead ==
    ASSUME NEW m \in Mem, NEW total, NEW off, NEW strs, NEW size,
           Sizes(m, total, off, strs, size), NEW n \in Nat, HasSpace(m, n),
           NEW s \in Seq(Int), Len(s) <= n,
           NEW at, at = fdt + off, NEW g, g = Grabbed(m, n, s)
    PROVE  \A j \in 1..Len(s) : g[at + (size + j - 1)] = s[j]
<1>a. PICK len, top : len = Len(s) /\ top = fdt + off + size
  OBVIOUS
<1>1. /\ len \in Nat
      /\ \A j \in 1..len : Grabbed(m, n, s)[top + j - 1] = s[j]
  <2>1. len <= n
    BY <1>a
  <2> QED
    BY <1>a, <2>1, GrabbedCells
<1>2. \A j \in 1..len : top + j - 1 = at + (size + j - 1)
  BY <1>1, <1>a DEF Sizes
<1>3. \A j \in 1..len : g[at + (size + j - 1)] = s[j]
  BY <1>1, <1>2, Zenon
<1> QED
  BY <1>3, <1>a

(* The cells s stand in the block at position size and can be read there. *)
ReadsBack(g, at, size, s) == \A j \in 1..Len(s) : g[at + (size + j - 1)] = s[j]

LEMMA GrabbedReadsBack ==
    ASSUME NEW m \in Mem, NEW total, NEW off, NEW strs, NEW size,
           Sizes(m, total, off, strs, size)
    PROVE  \A n \in Nat : \A s \in Seq(Int) :
              HasSpace(m, n) /\ Len(s) <= n => ReadsBack(Grabbed(m, n, s), fdt + off, size, s)
<1>1. TAKE n \in Nat
<1>2. TAKE s \in Seq(Int)
<1>3. HAVE HasSpace(m, n) /\ Len(s) <= n
<1>4. PICK at, g : at = fdt + off /\ g = Grabbed(m, n, s)
  OBVIOUS
<1>5. \A j \in 1..Len(s) : g[at + (size + j - 1)] = s[j]
  <2>1. /\ m \in Mem /\ Sizes(m, total, off, strs, size) /\ n \in Nat /\ HasSpace(m, n)
        /\ s \in Seq(Int) /\ Len(s) <= n /\ at = fdt + off /\ g = Grabbed(m, n, s)
    BY <1>3, <1>4
  <2> QED
    BY ONLY <2>1, GrabbedRead
<1>6. ReadsBack(g, at, size, s)
  BY <1>5, Zenon DEF ReadsBack
<1> QED
  BY <1>4, <1>6, Zenon

LEMMA GrabbedFirst ==
    ASSUME NEW m \in Mem, NEW total, NEW off, NEW strs, NEW size,
           Sizes(m, total, off, strs, size), NEW n \in Nat, HasSpace(m, n),
           NEW s \in Seq(Int), 1 <= Len(s), Len(s) <= n,
           NEW at, at = fdt + off, NEW g, g = Grabbed(m, n, s)
    PROVE  g[at + size] = s[1]
<1>1. \A j \in 1..Len(s) : g[at + (size + j - 1)] = s[j]
  <2>1. /\ m \in Mem /\ Sizes(m, total, off, strs, size) /\ n \in Nat /\ HasSpace(m, n)
        /\ s \in Seq(Int) /\ Len(s) <= n /\ at = fdt + off /\ g = Grabbed(m, n, s)
    OBVIOUS
  <2> QED
    BY ONLY <2>1, GrabbedRead
<1>2. 1 \in 1..Len(s) /\ size + 1 - 1 = size
  BY DEF Sizes
<1> QED
  BY <1>1, <1>2, Zenon

(* The cells s, written into g, begin a node; they take n cells. *)
NodeBegins(g, at, size, n, s, name) ==
    /\ n \in Nat /\ 0 < n /\ s \in Seq(Int) /\ Len(s) <= n
    /\ g[at + size] = FDT_BEGIN_NODE /\ IsTag(g, at, size, size + n)
    /\ FDT_TAGSIZE + Len(name) + 1 <= n
    /\ \A i \in 1..Len(name) : g[at + (size + FDT_TAGSIZE + i - 1)] = name[i]
    /\ g[at + (size + FDT_TAGSIZE + Len(name))] = 0

LEMMA BegunCells ==
    ASSUME mem \in Mem, Writing(mem, fdt),
           NEW total, NEW off, NEW strs, NEW size, Sizes(mem, total, off, strs, size),
           NEW name \in Seq(Nat \ {0}), NEW n, n = NodeSize(name), HasSpace(mem, n),
           NEW s, s = Word(FDT_BEGIN_NODE) \o Terminated(name),
           NEW g, g = Grabbed(mem, n, s), NEW at, at = fdt + off
    PROVE  NodeBegins(g, at, size, n, s, name)
<1> PICK k : k = Len(name)
  OBVIOUS
<1>0. k \in Nat /\ FDT_TAGSIZE \in Nat \ {0}
  BY TagSize
<1>a. PICK w, z : w = Word(FDT_BEGIN_NODE) /\ z = Terminated(name)
  OBVIOUS
<1>b. PICK top : top = fdt + off + size
  OBVIOUS
<1>1. w \in Seq(Int) /\ Len(w) = FDT_TAGSIZE /\ w[1] = FDT_BEGIN_NODE
  BY <1>a, WordIs DEF FDT_BEGIN_NODE
<1>2. z \in Seq(Int) /\ Len(z) = k + 1 /\ z[k + 1] = 0 /\ \A i \in 1..k : z[i] = name[i]
  BY <1>a DEF Terminated
<1>3. /\ s \in Seq(Int) /\ Len(s) = FDT_TAGSIZE + (k + 1) /\ s[1] = FDT_BEGIN_NODE
      /\ \A i \in 1..(k + 1) : s[FDT_TAGSIZE + i] = z[i]
  <2>1. /\ s \in Seq(Int) /\ Len(s) = Len(w) + Len(z)
        /\ \A i \in 1..Len(w) : s[i] = w[i]
        /\ \A i \in 1..Len(z) : s[Len(w) + i] = z[i]
    <3>1. w \in Seq(Int) /\ z \in Seq(Int) /\ s = w \o z
      BY <1>1, <1>2, <1>a, Zenon
    <3> QED
      BY ONLY <3>1, Concatenation
  <2>2. 1 \in 1..FDT_TAGSIZE
    BY <1>0
  <2>3. Len(s) = FDT_TAGSIZE + (k + 1)
    <3>1. Len(w) = FDT_TAGSIZE /\ Len(z) = k + 1 /\ Len(s) = Len(w) + Len(z)
      BY <1>1, <1>2, <2>1
    <3> QED
      BY ONLY <3>1, Zenon
  <2>4. s[1] = FDT_BEGIN_NODE
    BY <1>1, <2>1, <2>2, Zenon
  <2>5. \A i \in 1..(k + 1) : s[FDT_TAGSIZE + i] = z[i]
    BY <1>1, <1>2, <2>1, Zenon
  <2> QED
    BY <2>1, <2>3, <2>4, <2>5
<1>4. n \in Nat /\ 0 < n /\ Len(s) <= n /\ FDT_TAGSIZE + k + 1 <= n
  <2>1. TagAlign(k + 1) \in Nat /\ k + 1 <= TagAlign(k + 1)
    <3>1. k + 1 \in Nat
      BY <1>0
    <3> QED
      BY ONLY <3>1, TagAlignIs
  <2>2. n = FDT_TAGSIZE + TagAlign(k + 1)
    BY DEF NodeSize
  <2> QED
    BY ONLY <1>0, <1>3, <2>1, <2>2
<1>c. PICK len : len = Len(s)
  OBVIOUS
<1>5. \A j \in 1..len : g[at + (size + j - 1)] = s[j]
  <2>1. /\ mem \in Mem /\ Sizes(mem, total, off, strs, size) /\ HasSpace(mem, n)
        /\ at = fdt + off /\ g = Grabbed(mem, n, s) /\ s \in Seq(Int)
    BY <1>3
  <2>2. \A j \in 1..Len(s) : g[at + (size + j - 1)] = s[j]
    BY ONLY <1>4, <2>1, GrabbedRead
  <2> QED
    BY <1>c, <2>2
<1>6. at \in Int /\ Aligned(size) /\ size \in Nat
  <2>1. at \in Int
    BY DEF Sizes
  <2> QED
    BY <2>1, SizeIsAligned
<1>7. g[at + size] = FDT_BEGIN_NODE
  <2>1. 1 \in 1..len /\ at + (size + 1 - 1) = at + size
    BY <1>0, <1>3, <1>6, <1>c
  <2> QED
    BY <1>3, <1>5, <2>1, Zenon
<1>8. ASSUME NEW i \in 1..(k + 1)
      PROVE  g[at + (size + FDT_TAGSIZE + i - 1)] = z[i]
  <2>1. /\ FDT_TAGSIZE + i \in 1..len
        /\ at + (size + (FDT_TAGSIZE + i) - 1) = at + (size + FDT_TAGSIZE + i - 1)
    BY <1>0, <1>3, <1>6, <1>c
  <2>2. g[at + (size + (FDT_TAGSIZE + i) - 1)] = s[FDT_TAGSIZE + i]
    BY <1>5, <2>1, Zenon
  <2> QED
    BY <1>3, <2>1, <2>2, Zenon
<1>9. \A i \in 1..k : g[at + (size + FDT_TAGSIZE + i - 1)] = name[i]
  BY <1>0, <1>2, <1>8
<1>10. g[at + (size + FDT_TAGSIZE + k)] = 0
  <2>1. k + 1 \in 1..(k + 1) /\ size + FDT_TAGSIZE + (k + 1) - 1 = size + FDT_TAGSIZE + k
    BY <1>0, <1>6
  <2>2. g[at + (size + FDT_TAGSIZE + (k + 1) - 1)] = z[k + 1]
    BY <1>8, <2>1
  <2> QED
    BY <1>2, <2>1, <2>2
<1>11. IsTag(g, at, size, size + n)
  <2>1. \A i \in 1..Len(name) : g[at + (size + FDT_TAGSIZE + i - 1)] = name[i]
    BY <1>9
  <2>2. g[at + (size + FDT_TAGSIZE + Len(name))] = 0
    BY <1>10
  <2> QED
    BY <1>6, <1>7, <2>1, <2>2, BeginIsTag DEF NodeSize
<1> QED
  BY <1>3, <1>4, <1>7, <1>9, <1>10, <1>11 DEF NodeBegins

LEMMA BeginNodeKeeps ==
    ASSUME WriterInv, fdt # NULL, NEW name \in Names, fdt_begin_node(name)
    PROVE  WriterInv'
<1>1. CASE ~InStruct(mem) /\ Refuse("BADSTATE")
  BY <1>1, RefusalKeeps
<1>2. CASE InStruct(mem) /\ ~HasSpace(mem, NodeSize(name)) /\ Refuse("NOSPACE")
  BY <1>2, RefusalKeeps
<1>3. CASE /\ InStruct(mem) /\ HasSpace(mem, NodeSize(name))
           /\ Return(Grabbed(mem, NodeSize(name), Word(FDT_BEGIN_NODE) \o Terminated(name)))
  <2>1. /\ fdt \in Nat /\ mem \in Mem /\ Writing(mem, fdt) /\ Layout(mem, fdt)
        /\ mem[fdt + 3] = mem[fdt + 1]
    BY <1>3, StructIsBegun
  <2>2. PICK total, off, strs, size : Sizes(mem, total, off, strs, size)
    BY <2>1, SizesAre
  <2>a. PICK s, n : s = Word(FDT_BEGIN_NODE) \o Terminated(name) /\ n = NodeSize(name)
    OBVIOUS
  <2>b. PICK g, at : g = Grabbed(mem, n, s) /\ at = fdt + off
    OBVIOUS
  <2>3. name \in Seq(Nat \ {0})
    BY ConstantsAreTyped
  <2>4. HasSpace(mem, n)
    BY <1>3, <2>a
  <2>5. /\ n \in Nat /\ 0 < n /\ s \in Seq(Int) /\ Len(s) <= n
        /\ g[at + size] = FDT_BEGIN_NODE /\ IsTag(g, at, size, size + n)
    <3>1. NodeBegins(g, at, size, n, s, name)
      BY ONLY <2>1, <2>2, <2>3, <2>4, <2>a, <2>b, BegunCells
    <3> QED
      BY <3>1, Zenon DEF NodeBegins
  <2>6. g[at + size] # FDT_PROP
    BY <2>5 DEF FDT_BEGIN_NODE, FDT_PROP
  <2>7. g \in Mem /\ Writing(g, fdt)
    BY <2>1, <2>2, <2>4, <2>5, <2>6, <2>b, GrabbedIsWritten
  <2>8. Return(g)
    BY <1>3, <2>a, <2>b
  <2> QED
    BY <2>7, <2>8, ReturnKeeps
<1> QED
  BY <1>1, <1>2, <1>3, Zenon DEF fdt_begin_node

LEMMA EndNodeKeeps ==
    ASSUME WriterInv, fdt # NULL, fdt_end_node
    PROVE  WriterInv'
<1>1. CASE ~InStruct(mem) /\ Refuse("BADSTATE")
  BY <1>1, RefusalKeeps
<1>2. CASE InStruct(mem) /\ ~HasSpace(mem, FDT_TAGSIZE) /\ Refuse("NOSPACE")
  BY <1>2, RefusalKeeps
<1>3. CASE /\ InStruct(mem) /\ HasSpace(mem, FDT_TAGSIZE)
           /\ Return(Grabbed(mem, FDT_TAGSIZE, Word(FDT_END_NODE)))
  <2>1. /\ fdt \in Nat /\ mem \in Mem /\ Writing(mem, fdt) /\ Layout(mem, fdt)
        /\ mem[fdt + 3] = mem[fdt + 1]
    BY <1>3, StructIsBegun
  <2>2. PICK total, off, strs, size : Sizes(mem, total, off, strs, size)
    BY <2>1, SizesAre
  <2>a. PICK s, n : s = Word(FDT_END_NODE) /\ n = FDT_TAGSIZE
    OBVIOUS
  <2>b. PICK g, at : g = Grabbed(mem, n, s) /\ at = fdt + off
    OBVIOUS
  <2>3. n \in Nat /\ 0 < n /\ HasSpace(mem, n)
    BY <1>3, <2>a, TagSize
  <2>4. s \in Seq(Int) /\ Len(s) = n /\ s[1] = FDT_END_NODE
    BY <2>a, WordIs DEF FDT_END_NODE
  <2>5. Len(s) <= n
    BY <2>3, <2>4
  <2>6. g[at + size] = s[1]
    BY <2>1, <2>2, <2>3, <2>4, <2>5, <2>b, GrabbedFirst
  <2>7. Aligned(size)
    BY <2>1, <2>2, SizeIsAligned
  <2>8. IsTag(g, at, size, size + n)
    BY <2>4, <2>6, <2>7, <2>a, EndNodeIsTag
  <2>9. g[at + size] # FDT_PROP
    BY <2>4, <2>6 DEF FDT_END_NODE, FDT_PROP
  <2>10. g \in Mem /\ Writing(g, fdt)
    BY <2>1, <2>2, <2>3, <2>4, <2>5, <2>8, <2>9, <2>b, GrabbedIsWritten
  <2>11. Return(g)
    BY <1>3, <2>a, <2>b
  <2> QED
    BY <2>10, <2>11, ReturnKeeps
<1> QED
  BY <1>1, <1>2, <1>3, Zenon DEF fdt_end_node

(* A blob whose structure block is left alone and whose strings lose no     *)
(* cell stays one in writing.                                              *)
LEMMA StaysWritten ==
    ASSUME NEW m \in Mem, Writing(m, fdt), m[fdt + 3] = m[fdt + 1],
           NEW total, NEW off, NEW strs, NEW size, Sizes(m, total, off, strs, size),
           NEW n \in Mem, NEW more, Sizes(n, total, off, more, size), strs <= more,
           n[fdt] = m[fdt], n[fdt + 3] = m[fdt + 3], n[fdt + 4] = m[fdt + 4],
           more # 0 => n[fdt + total - 1] = 0,
           NEW at, at = fdt + off, \A x \in 0..(size - 1) : n[at + x] = m[at + x]
    PROVE  Writing(n, fdt)
<1>1. /\ fdt \in Nat /\ total \in Nat /\ off \in Nat /\ strs \in Nat /\ size \in Nat
      /\ more \in Nat /\ 8 <= off /\ off + size + strs <= total
      /\ m[fdt + 1] = total /\ m[fdt + 2] = off /\ m[fdt + 6] = strs /\ m[fdt + 7] = size
      /\ n[fdt + 1] = total /\ n[fdt + 2] = off /\ n[fdt + 6] = more /\ n[fdt + 7] = size
  BY Zenon DEF Sizes
<1>2. PICK b \in Buffers : b.addr = fdt /\ b.size = total
  BY <1>1, Zenon DEF Writing, Layout
<1>3. n[fdt + 4] = HeaderSize /\ total # 0 /\ n[fdt + 3] = total
  <2>1. m[fdt + 4] = HeaderSize
    BY DEF Writing, Layout
  <2> QED
    BY <1>1, <2>1
<1>4. Layout(n, fdt)
  BY <1>2, <1>3, LayoutOf
<1>5. PICK T : IsChain(m, at, size, T) /\ NamesAreIn(m, at, size, T, -strs, -1)
  BY <1>1, Zenon DEF Writing, IsWritten
<1>a. PICK lo, hi, low : lo = -strs /\ hi = -1 /\ low = -more
  OBVIOUS
<1>6. at \in Int /\ lo \in Int /\ hi \in Int /\ low \in Int /\ low <= lo
  BY <1>1, <1>a
<1>7. IsChain(n, at, size, T)
  BY <1>1, <1>5, <1>6, ChainSurvives
<1>8. NamesAreIn(n, at, size, T, low, hi)
  <2>1. NamesAreIn(m, at, size, T, lo, hi)
    BY <1>5, <1>a
  <2>2. IsChain(m, at, size, T) /\ size \in Nat
    BY <1>1, <1>5
  <2>3. \A x \in 0..(size - 1) : n[at + x] = m[at + x]
    OBVIOUS
  <2> QED
    BY ONLY <1>6, <2>1, <2>2, <2>3, NamesSurvive
<1>9. IsWritten(n, fdt)
  BY <1>1, <1>7, <1>8, <1>a, Zenon DEF IsWritten
<1> QED
  BY <1>4, <1>9, Zenon DEF Writing

(* g is m with the string name in front of its strings, which are then
   more cells, from cell top on. *)
StringLands(m, total, off, strs, size, name, k, more, top, g) ==
    /\ g \in Mem /\ g[fdt + 6] = more /\ k \in Nat /\ more \in Nat
    /\ total - more >= off + size /\ top \in Nat /\ fdt + 8 <= top
    /\ \A i \in 0..(MemSize - 1) :
          i # fdt + 6 /\ (i < top \/ fdt + total - strs <= i) => g[i] = m[i]
    /\ \A i \in 1..k : g[top + i - 1] = name[i]
    /\ g[top + k] = 0

(* fdt_add_string_ writes the name in front of the strings, and nothing else. *)
LEMMA StringAddedCells ==
    ASSUME NEW m \in Mem,
           NEW total, NEW off, NEW strs, NEW size, Sizes(m, total, off, strs, size),
           NEW name \in Seq(Nat \ {0}), StringHasSpace(m, name),
           NEW k, k = Len(name), NEW more, more = strs + k + 1, NEW g, g = StringAdded(m, name),
           NEW top, top = fdt + total - more
    PROVE  StringLands(m, total, off, strs, size, name, k, more, top, g)
<1>a. PICK z : z = Terminated(name)
  OBVIOUS
<1>1. /\ fdt \in Nat /\ total \in Nat /\ off \in Nat /\ strs \in Nat /\ size \in Nat
      /\ 8 <= off /\ off + size + strs <= total /\ fdt + total <= MemSize /\ MemSize \in Nat
      /\ m[fdt + 1] = total /\ m[fdt + 2] = off /\ m[fdt + 6] = strs /\ m[fdt + 7] = size
  BY DEF Sizes
<1>2. /\ totalsize(m) = total /\ size_dt_strings(m) = strs
      /\ struct_top(m) = off + size /\ strtab(m) = fdt + total
  BY <1>1, FieldsAre, Zenon
<1>3. total - more >= off + size
  BY <1>2 DEF StringHasSpace
<1>4. k \in Nat /\ more = strs + k + 1 /\ more \in Nat /\ strs <= more /\ more # 0
  <2>1. k \in Nat
    BY <1>a
  <2>2. more = strs + k + 1
    BY <1>a
  <2> QED
    BY <1>1, <2>1, <2>2, SMTT(60)
<1>5. z \in Seq(Int) /\ Len(z) = k + 1 /\ z[k + 1] = 0 /\ \A i \in 1..k : z[i] = name[i]
  BY <1>a DEF Terminated
<1>6. top \in Nat /\ top >= fdt + 8 /\ top + (k + 1) = fdt + total - strs
  <2>1. /\ fdt \in Nat /\ total \in Nat /\ off \in Nat /\ strs \in Nat /\ size \in Nat /\ 8 <= off
        /\ k \in Nat /\ more = strs + k + 1 /\ total - more >= off + size /\ top = fdt + total - more
    BY <1>1, <1>3, <1>4, <1>a, Zenon
  <2> QED
    BY ONLY <2>1
<1>b. PICK p : p = Put(m, top, z)
  OBVIOUS
<1>7. /\ p \in Mem
      /\ \A i \in 0..(MemSize - 1) :
            p[i] = IF top <= i /\ i < top + (k + 1) THEN z[i - top + 1] ELSE m[i]
  <2>1. /\ Put(m, top, z) \in Mem
        /\ \A i \in 0..(MemSize - 1) :
              Put(m, top, z)[i] = IF top <= i /\ i < top + Len(z) THEN z[i - top + 1] ELSE m[i]
    BY <1>5, <1>6, PutCells
  <2> QED
    BY <1>5, <1>b, <2>1
<1>8. g = With(p, "size_dt_strings", more)
  <2>1. g = With(Put(m, strtab(m) - (size_dt_strings(m) + Len(name) + 1), Terminated(name)),
                 "size_dt_strings", size_dt_strings(m) + Len(name) + 1)
    BY Zenon DEF StringAdded
  <2>2. size_dt_strings(m) + Len(name) + 1 = more /\ strtab(m) - (size_dt_strings(m) + Len(name) + 1) = top
    <3>1. size_dt_strings(m) + Len(name) + 1 = more
      BY <1>2, Zenon
    <3>2. strtab(m) - more = top
      <4>1. /\ strtab(m) = fdt + total /\ top = fdt + total - more
            /\ fdt \in Nat /\ total \in Nat /\ more \in Nat
        BY <1>1, <1>2, <1>4, <1>a
      <4> QED
        BY ONLY <4>1
    <3> QED
      BY ONLY <3>1, <3>2
  <2>3. g = With(Put(m, top, z), "size_dt_strings", more)
    BY <1>a, <2>1, <2>2, Zenon
  <2> QED
    BY <1>b, <2>3, Zenon
<1>9. /\ g \in Mem /\ g[fdt + 6] = more
      /\ \A i \in 0..(MemSize - 1) : i # fdt + 6 => g[i] = p[i]
  <2>1. "size_dt_strings" \in DOMAIN Fields /\ Fields["size_dt_strings"] = 6
    BY FieldNumbers
  <2>2. more \in Int /\ fdt + 8 <= MemSize
    BY <1>1, <1>4
  <2>3. /\ With(p, "size_dt_strings", more) \in Mem
        /\ With(p, "size_dt_strings", more)[fdt + Fields["size_dt_strings"]] = more
        /\ \A i \in 0..(MemSize - 1) :
              i # fdt + Fields["size_dt_strings"] => With(p, "size_dt_strings", more)[i] = p[i]
    BY <1>1, <1>7, <2>1, <2>2, WithCells, ZenonT(60)
  <2> QED
    BY <1>8, <2>1, <2>3, Zenon
<1>10. \A i \in 0..(MemSize - 1) :
          i # fdt + 6 /\ (i < top \/ fdt + total - strs <= i) => g[i] = m[i]
  <2>1. TAKE i \in 0..(MemSize - 1)
  <2>2. HAVE i # fdt + 6 /\ (i < top \/ fdt + total - strs <= i)
  <2>3. ~(top <= i /\ i < top + (k + 1))
    BY <1>1, <1>4, <1>6, <2>2
  <2> QED
    BY <1>7, <1>9, <2>2, <2>3, Zenon
<1>11. ASSUME NEW i \in 1..(k + 1) PROVE g[top + i - 1] = z[i]
  <2>1. /\ top + i - 1 \in 0..(MemSize - 1) /\ top + i - 1 # fdt + 6
        /\ top <= top + i - 1 /\ top + i - 1 < top + (k + 1) /\ (top + i - 1) - top + 1 = i
    BY <1>1, <1>4, <1>6
  <2>2. p[top + i - 1] = z[(top + i - 1) - top + 1]
    BY <1>7, <2>1, Zenon
  <2> QED
    BY <1>9, <2>1, <2>2, Zenon
<1>12. \A i \in 1..k : g[top + i - 1] = name[i]
  BY <1>4, <1>5, <1>11
<1>13. g[top + k] = 0
  <2>1. k + 1 \in 1..(k + 1) /\ top + (k + 1) - 1 = top + k
    BY <1>4, <1>6
  <2> QED
    BY <1>5, <1>11, <2>1
<1> QED
  <2>1. top \in Nat /\ fdt + 8 <= top
    BY <1>1, <1>6
  <2> QED
    BY <1>3, <1>4, <1>9, <1>10, <1>12, <1>13, <2>1, Zenon DEF StringLands

(* fdt_add_string_ writes in front of the strings only. *)
LEMMA StringAddedIsWritten ==
    ASSUME NEW m \in Mem, Writing(m, fdt), m[fdt + 3] = m[fdt + 1],
           NEW total, NEW off, NEW strs, NEW size, Sizes(m, total, off, strs, size),
           NEW name \in Seq(Nat \ {0}), StringHasSpace(m, name),
           NEW more, more = strs + Len(name) + 1, NEW g, g = StringAdded(m, name)
    PROVE  /\ g \in Mem /\ Writing(g, fdt) /\ Sizes(g, total, off, more, size) /\ strs <= more
           /\ \A i \in 0..(MemSize - 1) :
                 i # fdt + 6 /\ (i < fdt + total - more \/ fdt + total - strs <= i) => g[i] = m[i]
<1>a. PICK k, top : k = Len(name) /\ top = fdt + total - more
  OBVIOUS
<1>1. /\ fdt \in Nat /\ total \in Nat /\ off \in Nat /\ strs \in Nat /\ size \in Nat
      /\ 8 <= off /\ off + size + strs <= total /\ fdt + total <= MemSize /\ MemSize \in Nat
      /\ m[fdt + 1] = total /\ m[fdt + 2] = off /\ m[fdt + 6] = strs /\ m[fdt + 7] = size
  BY DEF Sizes
<1>2. /\ g \in Mem /\ g[fdt + 6] = more /\ k \in Nat /\ more \in Nat
      /\ total - more >= off + size /\ top \in Nat /\ fdt + 8 <= top
      /\ \A i \in 0..(MemSize - 1) :
            i # fdt + 6 /\ (i < top \/ fdt + total - strs <= i) => g[i] = m[i]
      /\ g[top + k] = 0
  <2>1. k = Len(name) /\ top = fdt + total - more
    BY ONLY <1>a
  <2>2. more = strs + k + 1
    BY <2>1, Zenon
  <2>3. StringLands(m, total, off, strs, size, name, k, more, top, g)
    BY <2>1, <2>2, StringAddedCells, Zenon
  <2> QED
    BY <2>3, Zenon DEF StringLands
<1>3. more = strs + k + 1 /\ strs <= more /\ more # 0 /\ top + k = fdt + total - strs - 1
  <2>1. more = strs + k + 1 /\ top = fdt + total - more
    BY <1>a, Zenon
  <2>2. fdt \in Nat /\ total \in Nat /\ strs \in Nat /\ k \in Nat
    BY <1>1, <1>2
  <2> QED
    BY ONLY <2>1, <2>2
<1>4. \A j \in {0, 1, 2, 3, 4, 5, 7} : g[fdt + j] = m[fdt + j]
  <2>1. \A j \in {0, 1, 2, 3, 4, 5, 7} :
           fdt + j \in 0..(MemSize - 1) /\ fdt + j # fdt + 6 /\ fdt + j < top
    BY <1>1, <1>2
  <2> QED
    BY <1>2, <2>1, Zenon
<1>5. /\ g[fdt] = m[fdt] /\ g[fdt + 1] = total /\ g[fdt + 2] = off /\ g[fdt + 7] = size
       /\ g[fdt + 3] = m[fdt + 3] /\ g[fdt + 4] = m[fdt + 4]
  <2>1. fdt + 0 = fdt
    BY <1>1
  <2> QED
    BY <1>1, <1>4, <2>1, Zenon
<1>6. Sizes(g, total, off, more, size)
  <2>1. off + size + more <= total
    <3>1. total \in Nat /\ off \in Nat /\ more \in Nat /\ size \in Nat /\ total - more >= off + size
      BY <1>1, <1>2
    <3> QED
      BY ONLY <3>1
  <2> QED
    BY <1>1, <1>2, <1>5, <2>1, Zenon DEF Sizes
<1>7. g[fdt + total - 1] = 0
  <2>1. CASE strs = 0
    <3>1. top + k = fdt + total - 1
      BY <1>1, <1>3, <2>1
    <3> QED
      BY <1>2, <3>1
  <2>2. CASE strs # 0
    <3>1. /\ fdt + total - strs <= fdt + total - 1
          /\ fdt + total - 1 \in 0..(MemSize - 1) /\ fdt + total - 1 # fdt + 6
      BY <1>1, <1>2, <1>3, <2>2
    <3>2. m[fdt + total - 1] = 0
      BY <1>1, <2>2, Zenon DEF Writing, Layout
    <3> QED
      BY <1>2, <3>1, <3>2, Zenon
  <2> QED
    BY <2>1, <2>2
<1>c. PICK at : at = fdt + off
  OBVIOUS
<1>8. \A x \in 0..(size - 1) : g[at + x] = m[at + x]
  <2>1. \A x \in 0..(size - 1) : /\ at + x \in 0..(MemSize - 1) /\ at + x # fdt + 6
                                 /\ at + x < top
    <3>1. top = fdt + total - more /\ at = fdt + off
      BY ONLY <1>a, <1>c
    <3> QED
      BY ONLY <1>1, <1>2, <3>1
  <2> QED
    BY <1>2, <2>1, Zenon
<1>9. Writing(g, fdt)
  <2>1. more # 0 => g[fdt + total - 1] = 0
    BY <1>7
  <2>2. g[fdt] = m[fdt] /\ g[fdt + 3] = m[fdt + 3] /\ g[fdt + 4] = m[fdt + 4] /\ g \in Mem
    BY <1>2, <1>5
  <2>3. strs <= more
    BY <1>3
  <2>4. /\ m \in Mem /\ Writing(m, fdt) /\ m[fdt + 3] = m[fdt + 1]
        /\ Sizes(m, total, off, strs, size)
    OBVIOUS
  <2> QED
    BY ONLY <1>6, <1>8, <1>c, <2>1, <2>2, <2>3, <2>4, StaysWritten
<1> QED
  BY <1>2, <1>3, <1>6, <1>9, <1>a

(* fdt_del_last_string_ takes back what fdt_add_string_ wrote: all that     *)
(* is different then lies between the two blocks.                          *)
LEMMA StringWithdrawn ==
    ASSUME NEW m \in Mem, Writing(m, fdt), m[fdt + 3] = m[fdt + 1],
           NEW total, NEW off, NEW strs, NEW size, Sizes(m, total, off, strs, size),
           NEW name \in Seq(Nat \ {0}), StringHasSpace(m, name),
           NEW d, d = StringDeleted(StringAdded(m, name), name)
    PROVE  /\ d \in Mem /\ Writing(d, fdt) /\ Sizes(d, total, off, strs, size)
           /\ \A i \in 0..(MemSize - 1) :
                 i < fdt + off + size \/ fdt + total - strs <= i => d[i] = m[i]
<1>a. PICK g, more : g = StringAdded(m, name) /\ more = strs + Len(name) + 1
  OBVIOUS
<1>1. /\ g \in Mem /\ Writing(g, fdt) /\ Sizes(g, total, off, more, size) /\ strs <= more
      /\ \A i \in 0..(MemSize - 1) :
            i # fdt + 6 /\ (i < fdt + total - more \/ fdt + total - strs <= i) => g[i] = m[i]
  BY <1>a, StringAddedIsWritten
<1>2. /\ fdt \in Nat /\ total \in Nat /\ off \in Nat /\ strs \in Nat /\ size \in Nat
      /\ more \in Nat /\ 8 <= off /\ off + size + more <= total /\ fdt + total <= MemSize
      /\ MemSize \in Nat /\ m[fdt + 6] = strs /\ g[fdt + 6] = more
      /\ m[fdt + 1] = total /\ m[fdt + 2] = off /\ m[fdt + 7] = size
  BY <1>1, Zenon DEF Sizes
<1>3. size_dt_strings(g) - (Len(name) + 1) = strs
  <2>1. size_dt_strings(g) = more
    BY <1>2, FieldsAre, Zenon
  <2>2. Len(name) \in Nat /\ more = strs + Len(name) + 1 /\ strs \in Nat
    BY <1>2, <1>a
  <2> QED
    BY ONLY <2>1, <2>2
<1>4. d = With(g, "size_dt_strings", strs)
  <2>1. StringDeleted(g, name)
          = With(g, "size_dt_strings", size_dt_strings(g) - (Len(name) + 1))
    BY Zenon DEF StringDeleted
  <2> QED
    BY <1>3, <1>a, <2>1, Zenon
<1>5. /\ d \in Mem /\ d[fdt + 6] = strs
      /\ \A i \in 0..(MemSize - 1) : i # fdt + 6 => d[i] = g[i]
  <2>1. "size_dt_strings" \in DOMAIN Fields /\ Fields["size_dt_strings"] = 6
    BY FieldNumbers
  <2>2. strs \in Int /\ fdt + 8 <= MemSize
    BY <1>2
  <2>3. /\ With(g, "size_dt_strings", strs) \in Mem
        /\ With(g, "size_dt_strings", strs)[fdt + Fields["size_dt_strings"]] = strs
        /\ \A i \in 0..(MemSize - 1) :
              i # fdt + Fields["size_dt_strings"] => With(g, "size_dt_strings", strs)[i] = g[i]
    BY <1>1, <1>2, <2>1, <2>2, WithCells, ZenonT(60)
  <2> QED
    BY <1>4, <2>1, <2>3, Zenon
<1>6. \A i \in 0..(MemSize - 1) :
          i < fdt + off + size \/ fdt + total - strs <= i => d[i] = m[i]
  <2>1. TAKE i \in 0..(MemSize - 1)
  <2>2. HAVE i < fdt + off + size \/ fdt + total - strs <= i
  <2>3. i < fdt + total - more \/ fdt + total - strs <= i
    BY <1>2, <2>2
  <2> QED
    BY <1>1, <1>2, <1>5, <2>3, Zenon
<1>7. \A j \in 0..7 : d[fdt + j] = m[fdt + j]
  <2>1. \A j \in 0..7 : fdt + j \in 0..(MemSize - 1) /\ fdt + j < fdt + off + size
    BY <1>2
  <2> QED
    BY <1>6, <2>1, Zenon
<1>8. /\ d[fdt] = m[fdt] /\ d[fdt + 1] = total /\ d[fdt + 2] = off /\ d[fdt + 3] = m[fdt + 3]
      /\ d[fdt + 4] = m[fdt + 4] /\ d[fdt + 7] = size
  <2>1. fdt + 0 = fdt /\ {0, 1, 2, 3, 4, 7} \subseteq 0..7
    BY <1>2
  <2> QED
    BY <1>2, <1>7, <2>1
<1>9. Sizes(d, total, off, strs, size)
  <2>1. off + size + strs <= total
    BY DEF Sizes
  <2>2. 8 <= off /\ fdt + total <= MemSize
    BY <1>2
  <2> QED
    BY <1>2, <1>5, <1>8, <2>1, <2>2, Zenon DEF Sizes
<1>10. strs # 0 => d[fdt + total - 1] = 0
  <2>1. HAVE strs # 0
  <2>2. fdt + total - 1 \in 0..(MemSize - 1) /\ fdt + total - strs <= fdt + total - 1
    BY <1>2, <2>1
  <2>3. m[fdt + total - 1] = 0
    BY <1>2, <2>1, Zenon DEF Writing, Layout
  <2> QED
    BY <1>6, <2>2, <2>3, Zenon
<1>b. PICK at : at = fdt + off
  OBVIOUS
<1>11. \A x \in 0..(size - 1) : d[at + x] = m[at + x]
  <2>1. \A x \in 0..(size - 1) : at + x \in 0..(MemSize - 1) /\ at + x < fdt + off + size
    BY <1>2, <1>b
  <2> QED
    BY <1>6, <2>1, Zenon
<1>12. Writing(d, fdt)
  <2>1. strs <= strs
    BY <1>2
  <2> QED
    BY <1>5, <1>8, <1>9, <1>10, <1>11, <1>b, <2>1, StaysWritten
<1> QED
  BY <1>5, <1>6, <1>9, <1>12

(* The offset of a name counts from the end of the strings and leads into   *)
(* them.                                                                   *)
LEMMA NameOffsetIs ==
    ASSUME NEW m, NEW total, NEW off, NEW strs, NEW size, Sizes(m, total, off, strs, size),
           NEW name \in Seq(Nat \ {0})
    PROVE  /\ IsAllocated(m, name) => NameOffset(m, name) = -(strs + Len(name) + 1)
           /\ ~IsAllocated(m, name) => NameOffset(m, name) \in -strs..-1
<1>1. /\ fdt \in Nat /\ total \in Nat /\ strs \in Nat /\ fdt + total - strs \in Nat
      /\ m[fdt + 1] = total /\ m[fdt + 6] = strs
  BY DEF Sizes
<1>2. size_dt_strings(m) = strs /\ strtab(m) = fdt + total
  BY <1>1, FieldsAre, Zenon
<1>3. IsAllocated(m, name) => NameOffset(m, name) = -(strs + Len(name) + 1)
  BY <1>2, Zenon DEF NameOffset
<1>4. ASSUME ~IsAllocated(m, name)
      PROVE  NameOffset(m, name) \in -strs..-1
  <2>a. PICK places, k : places = StringPlaces(m, name) /\ k = Len(name)
    OBVIOUS
  <2>1. k \in Nat
    BY <2>a
  <2>2. places \subseteq (fdt + total - strs)..(fdt + total - (k + 1))
    <3>1. places \subseteq (strtab(m) - size_dt_strings(m))..(strtab(m) - (Len(name) + 1))
      BY <2>a DEF StringPlaces
    <3>2. (strtab(m) - size_dt_strings(m))..(strtab(m) - (Len(name) + 1))
             = (fdt + total - strs)..(fdt + total - (k + 1))
      <4>1. strtab(m) - size_dt_strings(m) = fdt + total - strs
        BY <1>1, <1>2
      <4>2. strtab(m) - (Len(name) + 1) = fdt + total - (k + 1)
        BY <1>1, <1>2, <2>1, <2>a
      <4> QED
        BY <4>1, <4>2, Zenon
    <3> QED
      BY <3>1, <3>2
  <2>3. places # {}
    BY <1>4, <2>a DEF IsAllocated
  <2>4. places \subseteq Nat
    BY <1>1, <2>2
  <2>5. PICK p \in places : \A q \in places : p <= q
    BY <2>3, <2>4, LeastOf
  <2>6. Min(places) \in places
    <3>1. \E x \in places : \A y \in places : x <= y
      BY <2>5
    <3> QED
      BY <3>1, Zenon DEF Min
  <2>7. NameOffset(m, name) = Min(places) - (fdt + total)
    BY <1>2, <1>4, <2>a, Zenon DEF NameOffset
  <2>b. PICK q : q = Min(places)
    OBVIOUS
  <2>8. q \in Nat /\ fdt + total - strs <= q /\ q <= fdt + total - (k + 1)
    <3>1. q \in places
      BY <2>6, <2>b
    <3>2. q \in Nat /\ q \in (fdt + total - strs)..(fdt + total - (k + 1))
      BY <2>2, <2>4, <3>1
    <3> QED
      BY <1>1, <2>1, <3>2
  <2>9. q - (fdt + total) \in -strs..-1
    BY <1>1, <2>1, <2>8
  <2> QED
    BY <2>7, <2>9, <2>b
<1> QED
  BY <1>3, <1>4

(* The blob with the name among its strings *)
LEMMA NamedIsWritten ==
    ASSUME NEW m \in Mem, Writing(m, fdt), m[fdt + 3] = m[fdt + 1],
           NEW total, NEW off, NEW strs, NEW size, Sizes(m, total, off, strs, size),
           NEW name \in Seq(Nat \ {0}), IsAllocated(m, name) => StringHasSpace(m, name),
           NEW named, named = IF IsAllocated(m, name) THEN StringAdded(m, name) ELSE m
    PROVE  \E more : /\ named \in Mem /\ Writing(named, fdt) /\ named[fdt + 3] = named[fdt + 1]
                     /\ Sizes(named, total, off, more, size)
                     /\ NameOffset(m, name) \in -more..-1
<1>1. /\ fdt \in Nat /\ total \in Nat /\ strs \in Nat /\ off \in Nat /\ 8 <= off
      /\ off + size + strs <= total /\ size \in Nat /\ MemSize \in Nat /\ fdt + total <= MemSize
      /\ m[fdt + 1] = total
  BY DEF Sizes
<1>2. CASE ~IsAllocated(m, name)
  <2>1. named = m
    BY <1>2
  <2>2. NameOffset(m, name) \in -strs..-1
    BY <1>2, NameOffsetIs
  <2> QED
    BY <2>1, <2>2
<1>3. CASE IsAllocated(m, name)
  <2>a. PICK g, more : g = StringAdded(m, name) /\ more = strs + Len(name) + 1
    OBVIOUS
  <2>1. StringHasSpace(m, name) /\ named = g
    BY <1>3, <2>a
  <2>2. /\ g \in Mem /\ Writing(g, fdt) /\ Sizes(g, total, off, more, size) /\ strs <= more
        /\ \A i \in 0..(MemSize - 1) :
              i # fdt + 6 /\ (i < fdt + total - more \/ fdt + total - strs <= i) => g[i] = m[i]
    BY <2>1, <2>a, StringAddedIsWritten
  <2>3. more \in Nat /\ off + size + more <= total /\ g[fdt + 1] = total /\ more # 0
    <3>1. more \in Nat /\ off + size + more <= total /\ g[fdt + 1] = total
      BY <2>2 DEF Sizes
    <3>2. Len(name) \in Nat
      OBVIOUS
    <3> QED
      BY <1>1, <2>a, <3>1, <3>2
  <2>4. fdt + 3 \in 0..(MemSize - 1) /\ fdt + 3 # fdt + 6 /\ fdt + 3 < fdt + total - more
    BY <1>1, <2>3
  <2>5. g[fdt + 3] = g[fdt + 1]
    BY <1>1, <2>2, <2>3, <2>4, Zenon
  <2>6. NameOffset(m, name) \in -more..-1
    <3>1. NameOffset(m, name) = -more
      BY <1>3, <2>a, NameOffsetIs
    <3>2. -more \in -more..-1
      BY <2>3
    <3> QED
      BY <3>1, <3>2
  <2> QED
    BY <2>1, <2>2, <2>5, <2>6
<1> QED
  BY <1>2, <1>3

(* A property is written behind the chain of a blob that has its name. *)
LEMMA PropIsWritten ==
    ASSUME NEW m \in Mem, Writing(m, fdt), m[fdt + 3] = m[fdt + 1],
           NEW total, NEW off, NEW strs, NEW size, Sizes(m, total, off, strs, size),
           NEW len \in Nat, NEW nameoff \in -strs..-1,
           NEW n, n = 3 * FDT_TAGSIZE + TagAlign(len), HasSpace(m, n),
           NEW s \in Seq(Int), Len(s) = 3 * FDT_TAGSIZE + len,
           s[1] = FDT_PROP, s[FDT_TAGSIZE + 1] = len, s[2 * FDT_TAGSIZE + 1] = nameoff,
           NEW g, g = Grabbed(m, n, s)
    PROVE  g \in Mem /\ Writing(g, fdt)
<1>b. PICK at : at = fdt + off
  OBVIOUS
<1>0. FDT_TAGSIZE \in Nat \ {0}
  BY TagSize
<1>1. strs \in Nat /\ fdt \in Nat /\ off \in Nat
  BY DEF Sizes
<1>2. nameoff \in Int /\ nameoff \in -strs..-1
  BY <1>1
<1>c. PICK room : room = TagAlign(len)
  OBVIOUS
<1>7. room \in Nat /\ len <= room /\ n = 3 * FDT_TAGSIZE + room
  BY <1>c, TagAlignIs
<1>9. n \in Nat /\ 0 < n /\ Len(s) <= n
  BY <1>0, <1>7
<1>10. Aligned(size) /\ size \in Nat
  BY SizeIsAligned
<1>11. \A j \in 1..Len(s) : g[at + (size + j - 1)] = s[j]
  BY <1>9, <1>b, GrabbedRead
<1>12. /\ 1 \in 1..Len(s) /\ FDT_TAGSIZE + 1 \in 1..Len(s) /\ 2 * FDT_TAGSIZE + 1 \in 1..Len(s)
       /\ at + (size + 1 - 1) = at + size
       /\ at + (size + (FDT_TAGSIZE + 1) - 1) = at + size + FDT_TAGSIZE
       /\ at + (size + (2 * FDT_TAGSIZE + 1) - 1) = at + size + 2 * FDT_TAGSIZE
  BY <1>0, <1>1, <1>10, <1>b
<1>13. g[at + size] = FDT_PROP
  BY <1>11, <1>12, Zenon
<1>14. g[at + size + FDT_TAGSIZE] = len
  BY <1>11, <1>12, Zenon
<1>15. g[at + size + 2 * FDT_TAGSIZE] = nameoff
  BY <1>11, <1>12, Zenon
<1>16. IsTag(g, at, size, size + n)
  <2>1. IsTag(g, at, size, size + (3 * FDT_TAGSIZE + TagAlign(len)))
    BY <1>10, <1>13, <1>14, PropIsTag
  <2> QED
    BY <1>7, <1>c, <2>1, Zenon
<1>17. g[at + size + 2 * FDT_TAGSIZE] \in -strs..-1
  BY <1>2, <1>15, Zenon
<1> QED
  BY <1>9, <1>16, <1>17, <1>b, GrabbedIsWritten

LEMMA PropertyKeeps ==
    ASSUME WriterInv, fdt # NULL, NEW name \in PropNames, NEW value \in Values,
           fdt_property(name, value)
    PROVE  WriterInv'
<1> DEFINE allocated == IsAllocated(mem, name)
           named     == IF allocated THEN StringAdded(mem, name) ELSE mem
           n         == 3 * FDT_TAGSIZE + TagAlign(Len(value))
           prop      == Word(FDT_PROP) \o Word(Len(value)) \o Word(NameOffset(mem, name))
<1>1. \/ ~InStruct(mem) /\ Refuse("BADSTATE")
      \/ InStruct(mem) /\ allocated /\ ~StringHasSpace(mem, name) /\ Refuse("NOSPACE")
      \/ /\ InStruct(mem) /\ (allocated => StringHasSpace(mem, name))
         /\ \/ HasSpace(named, n) /\ Return(Grabbed(named, n, prop \o value))
            \/ /\ ~HasSpace(named, n)
               /\ mem' = WithoutString(named, name, allocated)
               /\ ret' = "NOSPACE"
               /\ UNCHANGED fdt
  BY Zenon DEF fdt_property
<1>2. name \in Seq(Nat \ {0}) /\ value \in Seq(Nat)
  BY ConstantsAreTyped
<1> HIDE DEF allocated, named, n, prop
<1>3. CASE (~InStruct(mem) /\ Refuse("BADSTATE"))
           \/ (InStruct(mem) /\ allocated /\ ~StringHasSpace(mem, name) /\ Refuse("NOSPACE"))
  BY <1>3, RefusalKeeps
<1>4. CASE InStruct(mem) /\ (allocated => StringHasSpace(mem, name))
  <2>1. /\ fdt \in Nat /\ mem \in Mem /\ Writing(mem, fdt) /\ Layout(mem, fdt)
        /\ mem[fdt + 3] = mem[fdt + 1]
    BY <1>4, StructIsBegun
  <2>2. PICK total, off, strs, size : Sizes(mem, total, off, strs, size)
    BY <2>1, SizesAre
  <2>3. CASE HasSpace(named, n) /\ Return(Grabbed(named, n, prop \o value))
    <3>1. PICK more : /\ named \in Mem /\ Writing(named, fdt) /\ named[fdt + 3] = named[fdt + 1]
                      /\ Sizes(named, total, off, more, size)
                      /\ NameOffset(mem, name) \in -more..-1
      <4>1. IsAllocated(mem, name) => StringHasSpace(mem, name)
        BY <1>4 DEF allocated
      <4>2. named = IF IsAllocated(mem, name) THEN StringAdded(mem, name) ELSE mem
        BY DEF named, allocated
      <4> QED
        BY <1>2, <2>1, <2>2, <4>1, <4>2, NamedIsWritten
    <3>a. PICK g, s, nameoff : /\ nameoff = NameOffset(mem, name)
                               /\ s = prop \o value /\ g = Grabbed(named, n, s)
      OBVIOUS
    <3>2. /\ s = (Word(FDT_PROP) \o Word(Len(value)) \o Word(nameoff)) \o value
          /\ n = 3 * FDT_TAGSIZE + TagAlign(Len(value))
      BY <3>a DEF prop, n
    <3>b. PICK len : len = Len(value)
      OBVIOUS
    <3>3. g \in Mem /\ Writing(g, fdt)
      <4>1. HasSpace(named, n) /\ nameoff \in -more..-1 /\ n = 3 * FDT_TAGSIZE + TagAlign(len)
        BY <2>3, <3>1, <3>2, <3>a, <3>b
      <4>2. len \in Nat /\ nameoff \in Int
        <5>1. more \in Nat
          BY <3>1 DEF Sizes
        <5> QED
          BY <1>2, <3>b, <4>1, <5>1
      <4>3. /\ s \in Seq(Int) /\ Len(s) = 3 * FDT_TAGSIZE + len
            /\ s[1] = FDT_PROP /\ s[FDT_TAGSIZE + 1] = len /\ s[2 * FDT_TAGSIZE + 1] = nameoff
        <5>1. PropRecord(s, Len(value), nameoff)
          <6>1. /\ value \in Seq(Nat) /\ nameoff \in Int
                /\ s = ((Word(FDT_PROP) \o Word(Len(value))) \o Word(nameoff)) \o value
            BY <1>2, <3>2, <4>2
          <6> QED
            BY ONLY <6>1, PropCells
        <5> QED
          BY <3>b, <5>1 DEF PropRecord
      <4>4. g = Grabbed(named, n, s)
        BY <3>a
      <4> QED
        BY <3>1, <4>1, <4>2, <4>3, <4>4, PropIsWritten
    <3>4. Return(g)
      BY <2>3, <3>a
    <3> QED
      BY <3>3, <3>4, ReturnKeeps
  <2>4. CASE /\ ~HasSpace(named, n)
             /\ mem' = WithoutString(named, name, allocated)
             /\ ret' = "NOSPACE"
             /\ UNCHANGED fdt
    <3>1. mem' \in Mem /\ Writing(mem', fdt)
      <4>1. CASE allocated
        <5>1. mem' = StringDeleted(StringAdded(mem, name), name)
          BY <2>4, <4>1, Zenon DEF named, WithoutString
        <5>2. StringHasSpace(mem, name)
          BY <1>4, <4>1
        <5> QED
          BY <1>2, <2>1, <2>2, <5>1, <5>2, StringWithdrawn
      <4>2. CASE ~allocated
        <5>1. mem' = mem
          BY <2>4, <4>2, Zenon DEF named, WithoutString
        <5> QED
          BY <2>1, <5>1
      <4> QED
        BY <4>1, <4>2
    <3> QED
      BY <2>4, <3>1 DEF WriterInv
  <2> QED
    BY <1>1, <1>4, <2>3, <2>4, <1>3, RefusalKeeps
<1> QED
  BY <1>1, <1>3, <1>4, Zenon

(* A blob whose blocks are empty *)
LEMMA EmptyIsWritten ==
    ASSUME NEW n, NEW total, NEW off, Sizes(n, total, off, 0, 0),
           n[fdt] = FDT_SW_MAGIC, n[fdt + 3] = 0 \/ n[fdt + 3] = total,
           n[fdt + 4] = HeaderSize, NEW b \in Buffers, b.addr = fdt, b.size = total
    PROVE  Writing(n, fdt)
<1>1. Layout(n, fdt)
  <2>1. 0 # 0 => n[fdt + total - 1] = 0
    OBVIOUS
  <2> QED
    BY <2>1, LayoutOf
<1>2. IsChain(n, fdt + off, 0, {0})
  BY EmptyChain
<1>3. NamesAreIn(n, fdt + off, 0, {0}, -0, -1)
  BY DEF NamesAreIn
<1>4. n[fdt + 2] = off /\ n[fdt + 6] = 0 /\ n[fdt + 7] = 0
  BY DEF Sizes
<1>5. IsWritten(n, fdt)
  BY <1>2, <1>3, <1>4, Zenon DEF IsWritten
<1> QED
  BY <1>1, <1>5, Zenon DEF Writing

(* fdt_add_reservemap_entry *)
LEMMA ReservedCells ==
    ASSUME NEW m \in Mem, Writing(m, fdt), m[fdt + 3] = 0,
           NEW r \in Seq(Int), Len(r) = 2, ReserveHasSpace(m),
           NEW q, q = Reserved(m, r)
    PROVE  \E total, off : /\ q \in Mem /\ Sizes(q, total, off, 0, 0)
                           /\ q[fdt] = m[fdt] /\ q[fdt + 3] = 0 /\ q[fdt + 4] = HeaderSize
                           /\ total = m[fdt + 1]
                           /\ off = m[fdt + 2] + 2 /\ 10 <= off
                           /\ \A x \in 8..(off - 3) : q[fdt + x] = m[fdt + x]
                           /\ q[fdt + off - 2] = r[1] /\ q[fdt + off - 1] = r[2]
<1>1. PICK total, off, strs, size : Sizes(m, total, off, strs, size)
  BY SizesAre DEF Writing
<1>2. /\ fdt \in Nat /\ total \in Nat /\ off \in Nat /\ 8 <= off
      /\ fdt + total <= MemSize /\ MemSize \in Nat
      /\ m[fdt + 1] = total /\ m[fdt + 2] = off /\ m[fdt + 6] = strs /\ m[fdt + 7] = size
  BY <1>1 DEF Sizes
<1>3. m[fdt + 6] = 0 /\ m[fdt + 7] = 0 /\ m[fdt + 4] = HeaderSize
  BY Zenon DEF Writing, Layout
<1>4. off_dt_struct(m) = off /\ totalsize(m) = total
  BY <1>2, FieldsAre, Zenon
<1>5. off + 2 <= total
  BY <1>4 DEF ReserveHasSpace, ReserveSize
<1>a. PICK top, p : top = fdt + off /\ p = Put(m, top, r)
  OBVIOUS
<1>6. top \in Nat /\ top >= fdt + 8
  BY <1>2, <1>a
<1>7. /\ p \in Mem /\ \A i \in 0..(MemSize - 1) : i < top => p[i] = m[i]
      /\ p[top] = r[1] /\ p[top + 1] = r[2]
  <2>1. /\ Put(m, top, r) \in Mem
        /\ \A i \in 0..(MemSize - 1) :
              Put(m, top, r)[i] = IF top <= i /\ i < top + Len(r) THEN r[i - top + 1] ELSE m[i]
    BY <1>6, PutCells
  <2>2. \A i \in 0..(MemSize - 1) : i < top => ~(top <= i /\ i < top + Len(r))
    BY <1>6
  <2>3. \A i \in 0..(MemSize - 1) : i < top => p[i] = m[i]
    BY <1>a, <2>1, <2>2, Zenon
  <2>4. p[top] = r[1] /\ p[top + 1] = r[2]
    <3>1. top \in 0..(MemSize - 1) /\ top + 1 \in 0..(MemSize - 1)
      BY <1>2, <1>5, <1>a
    <3>2. /\ top - top + 1 = 1 /\ (top + 1) - top + 1 = 2
          /\ top <= top /\ top < top + Len(r) /\ top <= top + 1 /\ top + 1 < top + Len(r)
      BY <1>6
    <3>3. p[top] = r[top - top + 1] /\ p[top + 1] = r[(top + 1) - top + 1]
      BY <1>a, <2>1, <3>1, <3>2, Zenon
    <3> QED
      BY <3>2, <3>3
  <2> QED
    BY <1>a, <2>1, <2>3, <2>4
<1>8. q = With(p, "off_dt_struct", off + 2)
  <2>1. Reserved(m, r)
          = With(Put(m, fdt + off_dt_struct(m), r), "off_dt_struct", off_dt_struct(m) + ReserveSize)
    BY Zenon DEF Reserved
  <2>2. ReserveSize = 2
    BY DEF ReserveSize
  <2> QED
    BY <1>4, <1>a, <2>1, <2>2, Zenon
<1>9. /\ q \in Mem /\ q[fdt + 2] = off + 2
      /\ \A i \in 0..(MemSize - 1) : i # fdt + 2 => q[i] = p[i]
  <2>1. "off_dt_struct" \in DOMAIN Fields /\ Fields["off_dt_struct"] = 2
    BY FieldNumbers
  <2>2. off + 2 \in Int /\ fdt + 8 <= MemSize
    BY <1>2, <1>5
  <2>3. /\ With(p, "off_dt_struct", off + 2) \in Mem
        /\ With(p, "off_dt_struct", off + 2)[fdt + Fields["off_dt_struct"]] = off + 2
        /\ \A i \in 0..(MemSize - 1) :
              i # fdt + Fields["off_dt_struct"] => With(p, "off_dt_struct", off + 2)[i] = p[i]
    BY <1>2, <1>7, <2>1, <2>2, WithCells, ZenonT(60)
  <2> QED
    BY <1>8, <2>1, <2>3, Zenon
<1>10. \A j \in {0, 1, 3, 4, 6, 7} : q[fdt + j] = m[fdt + j]
  <2>1. \A j \in {0, 1, 3, 4, 6, 7} :
            fdt + j \in 0..(MemSize - 1) /\ fdt + j # fdt + 2 /\ fdt + j < top
    BY <1>2, <1>5, <1>6
  <2> QED
    BY <1>7, <1>9, <2>1, Zenon
<1>11. /\ q[fdt] = m[fdt] /\ q[fdt + 1] = total /\ q[fdt + 3] = 0 /\ q[fdt + 4] = HeaderSize
       /\ q[fdt + 6] = 0 /\ q[fdt + 7] = 0
  <2>1. fdt + 0 = fdt
    BY <1>2
  <2> QED
    BY <1>2, <1>3, <1>10, <2>1, Zenon
<1>12. Sizes(q, total, off + 2, 0, 0)
  <2>1. off + 2 \in Nat /\ 8 <= off + 2 /\ off + 2 + 0 + 0 <= total /\ 0 \in Nat
    BY <1>2, <1>5
  <2> QED
    BY <1>2, <1>9, <1>11, <2>1, Zenon DEF Sizes
<1>13. \A x \in 8..(off - 1) : q[fdt + x] = m[fdt + x]
  <2>1. \A x \in 8..(off - 1) :
            fdt + x \in 0..(MemSize - 1) /\ fdt + x # fdt + 2 /\ fdt + x < top
    BY <1>2, <1>5, <1>a
  <2> QED
    BY <1>7, <1>9, <2>1, Zenon
<1>14. q[fdt + off] = r[1] /\ q[fdt + off + 1] = r[2]
  <2>1. /\ top \in 0..(MemSize - 1) /\ top + 1 \in 0..(MemSize - 1)
        /\ top # fdt + 2 /\ top + 1 # fdt + 2
    BY <1>2, <1>5, <1>a
  <2>2. q[top] = r[1] /\ q[top + 1] = r[2]
    BY <1>7, <1>9, <2>1, Zenon
  <2> QED
    BY <1>a, <2>2
<1> PICK next : next = off + 2
  OBVIOUS
<1>15. /\ next = m[fdt + 2] + 2 /\ 10 <= next /\ next - 3 = off - 1
       /\ fdt + next - 2 = fdt + off /\ fdt + next - 1 = fdt + off + 1
  BY <1>2
<1>16. /\ \A x \in 8..(next - 3) : q[fdt + x] = m[fdt + x]
       /\ q[fdt + next - 2] = r[1] /\ q[fdt + next - 1] = r[2]
  BY <1>13, <1>14, <1>15
<1>17. Sizes(q, total, next, 0, 0)
  BY <1>12
<1> QED
  BY <1>2, <1>9, <1>11, <1>15, <1>16, <1>17, Zenon

LEMMA ReservationsAreOpen ==
    ASSUME WriterInv, fdt # NULL, InMemrsv(mem)
    PROVE  /\ fdt \in Nat /\ mem \in Mem /\ Writing(mem, fdt) /\ mem[fdt + 3] = 0
           /\ mem[fdt] = FDT_SW_MAGIC
           /\ \E b \in Buffers : b.addr = fdt /\ b.size = mem[fdt + 1]
<1>1. fdt \in Nat /\ mem \in Mem /\ Writing(mem, fdt)
  BY FieldsInWriting, Zenon DEF InMemrsv
<1>2. mem[fdt + 3] = 0
  BY <1>1, FieldsAre, Zenon DEF InMemrsv
<1> QED
  BY <1>1, <1>2, Zenon DEF Writing, Layout

LEMMA ReserveKeeps ==
    ASSUME WriterInv, fdt # NULL, NEW r \in Reservations, fdt_add_reservemap_entry(r)
    PROVE  WriterInv'
<1>1. CASE InMemrsv(mem) /\ ReserveHasSpace(mem) /\ Return(Reserved(mem, r))
  <2>1. /\ fdt \in Nat /\ mem \in Mem /\ Writing(mem, fdt) /\ mem[fdt + 3] = 0
        /\ mem[fdt] = FDT_SW_MAGIC
        /\ \E b \in Buffers : b.addr = fdt /\ b.size = mem[fdt + 1]
    BY <1>1, ReservationsAreOpen
  <2>2. r \in Seq(Int) /\ Len(r) = 2
    <3>1. r \in (Nat \ {0}) \X (Nat \ {0})
      BY ConstantsAreTyped
    <3>2. PICK x \in Nat, y \in Nat : r = <<x, y>>
      BY <3>1
    <3> QED
      BY <3>2
  <2>a. PICK q : q = Reserved(mem, r)
    OBVIOUS
  <2>3. PICK total, off : /\ q \in Mem /\ Sizes(q, total, off, 0, 0)
                          /\ q[fdt] = mem[fdt] /\ q[fdt + 3] = 0 /\ q[fdt + 4] = HeaderSize
                          /\ total = mem[fdt + 1]
    BY <1>1, <2>1, <2>2, <2>a, ReservedCells
  <2>4. Writing(q, fdt)
    BY <2>1, <2>3, EmptyIsWritten
  <2> QED
    BY <1>1, <2>3, <2>4, <2>a, ReturnKeeps
<1>2. CASE ~InMemrsv(mem) /\ Refuse("BADSTATE")
  BY <1>2, RefusalKeeps
<1>3. CASE InMemrsv(mem) /\ ~ReserveHasSpace(mem) /\ Refuse("NOSPACE")
  BY <1>3, RefusalKeeps
<1> QED
  BY <1>1, <1>2, <1>3, Zenon DEF fdt_add_reservemap_entry

LEMMA FinishReservesKeeps ==
    ASSUME WriterInv, fdt # NULL, fdt_finish_reservemap
    PROVE  WriterInv'
<1>1. CASE /\ InMemrsv(mem) /\ ReserveHasSpace(mem)
           /\ Return(With(Reserved(mem, <<0, 0>>), "off_dt_strings", totalsize(mem)))
  <2>1. /\ fdt \in Nat /\ mem \in Mem /\ Writing(mem, fdt) /\ mem[fdt + 3] = 0
        /\ mem[fdt] = FDT_SW_MAGIC
        /\ \E b \in Buffers : b.addr = fdt /\ b.size = mem[fdt + 1]
    BY <1>1, ReservationsAreOpen
  <2>b. PICK r : r = <<0, 0>>
    OBVIOUS
  <2>2. r \in Seq(Int) /\ Len(r) = 2
    BY <2>b
  <2>a. PICK q : q = Reserved(mem, r)
    OBVIOUS
  <2>3. PICK total, off : /\ q \in Mem /\ Sizes(q, total, off, 0, 0)
                          /\ q[fdt] = mem[fdt] /\ q[fdt + 3] = 0 /\ q[fdt + 4] = HeaderSize
                          /\ total = mem[fdt + 1]
    BY <1>1, <2>1, <2>2, <2>a, ReservedCells
  <2>4. totalsize(mem) = total
    BY <2>1, <2>3, FieldsAre, Zenon
  <2>5. /\ total \in Nat /\ off \in Nat /\ 8 <= off /\ off <= total
        /\ fdt + total <= MemSize /\ MemSize \in Nat
        /\ q[fdt + 1] = total /\ q[fdt + 2] = off /\ q[fdt + 6] = 0 /\ q[fdt + 7] = 0
    BY <2>3 DEF Sizes
  <2>c. PICK w : w = With(q, "off_dt_strings", total)
    OBVIOUS
  <2>6. /\ w \in Mem /\ w[fdt + 3] = total
        /\ \A i \in 0..(MemSize - 1) : i # fdt + 3 => w[i] = q[i]
    <3>1. "off_dt_strings" \in DOMAIN Fields /\ Fields["off_dt_strings"] = 3
      BY FieldNumbers
    <3>2. total \in Int /\ fdt + 8 <= MemSize
      BY <2>1, <2>5
    <3>3. /\ With(q, "off_dt_strings", total) \in Mem
          /\ With(q, "off_dt_strings", total)[fdt + Fields["off_dt_strings"]] = total
          /\ \A i \in 0..(MemSize - 1) :
                i # fdt + Fields["off_dt_strings"] => With(q, "off_dt_strings", total)[i] = q[i]
      BY <2>1, <2>3, <3>1, <3>2, WithCells, Zenon
    <3> QED
      BY <2>c, <3>1, <3>3
  <2>7. \A j \in {0, 1, 2, 4, 6, 7} : w[fdt + j] = q[fdt + j]
    <3>1. \A j \in {0, 1, 2, 4, 6, 7} : fdt + j \in 0..(MemSize - 1) /\ fdt + j # fdt + 3
      BY <2>1, <2>5
    <3> QED
      BY <2>6, <3>1, Zenon
  <2>8. /\ w[fdt] = FDT_SW_MAGIC /\ w[fdt + 1] = total /\ w[fdt + 2] = off
        /\ w[fdt + 4] = HeaderSize /\ w[fdt + 6] = 0 /\ w[fdt + 7] = 0
    <3>1. fdt + 0 = fdt
      BY <2>1
    <3> QED
      BY <2>1, <2>3, <2>5, <2>7, <3>1, Zenon
  <2>9. Sizes(w, total, off, 0, 0)
    <3>1. off + 0 + 0 <= total
      BY <2>5
    <3> QED
      BY <2>1, <2>5, <2>8, <3>1, Zenon DEF Sizes
  <2>10. Writing(w, fdt)
    BY <2>1, <2>3, <2>6, <2>8, <2>9, EmptyIsWritten
  <2>11. Return(w)
    BY <1>1, <2>4, <2>a, <2>b, <2>c
  <2> QED
    BY <2>6, <2>10, <2>11, ReturnKeeps
<1> QED
  BY <1>1, RefusalKeeps, Zenon DEF fdt_finish_reservemap

(* The header that fdt_create writes *)
LEMMA CreatedCells ==
    ASSUME mem \in Mem, NEW b \in Buffers, b.size >= HeaderSize, NEW flags \in Flags,
           NEW f, NEW n, f = b.addr, n = b.size,
           NEW q, q = Put(Put(mem, b.addr, [i \in 1..b.size |-> 0]), b.addr,
                          <<FDT_SW_MAGIC, b.size, HeaderSize, 0, HeaderSize, flags, 0, 0>>)
    PROVE  /\ q \in Mem /\ q[f] = FDT_SW_MAGIC /\ q[f + 1] = n /\ q[f + 2] = HeaderSize
           /\ q[f + 3] = 0 /\ q[f + 4] = HeaderSize /\ q[f + 6] = 0 /\ q[f + 7] = 0
<1>1. /\ f \in Nat /\ n \in Nat /\ f + n <= MemSize /\ MemSize \in Nat /\ 8 <= n
      /\ flags \in Int /\ mem \in Mem
  BY ConstantsAreTyped DEF HeaderSize, Flags, NO_NAME_DEDUP
<1> PICK zeros, head : /\ zeros = [i \in 1..n |-> 0]
                         /\ head = <<FDT_SW_MAGIC, n, HeaderSize, 0, HeaderSize, flags, 0, 0>>
  OBVIOUS
<1>2. zeros \in Seq(Int)
  BY <1>1
<1>3. /\ head \in Seq(Int) /\ Len(head) = 8 /\ head[1] = FDT_SW_MAGIC /\ head[2] = n
      /\ head[3] = HeaderSize /\ head[4] = 0 /\ head[5] = HeaderSize
      /\ head[7] = 0 /\ head[8] = 0
  BY <1>1 DEF FDT_SW_MAGIC, HeaderSize
<1> PICK p : p = Put(mem, f, zeros)
  OBVIOUS
<1>4. p \in Mem
  BY <1>1, <1>2, PutCells
<1>d. q = Put(p, f, head)
  OBVIOUS
<1>5. /\ q \in Mem
      /\ \A i \in 0..(MemSize - 1) :
            q[i] = IF f <= i /\ i < f + Len(head) THEN head[i - f + 1] ELSE p[i]
  <2>1. f \in Nat /\ head \in Seq(Int) /\ p \in Mem
    BY <1>1, <1>3, <1>4
  <2> QED
    BY ONLY <1>d, <2>1, PutCells
<1>6. \A j \in 0..7 : q[f + j] = head[j + 1]
  <2>1. TAKE j \in 0..7
  <2>2. /\ f + j \in 0..(MemSize - 1) /\ f <= f + j /\ f + j < f + Len(head)
        /\ (f + j) - f + 1 = j + 1
    <3>1. j \in 0..7
      OBVIOUS
    <3> QED
      BY ONLY <1>1, <1>3, <3>1
  <2>3. q[f + j] = head[(f + j) - f + 1]
    BY <1>5, <2>2, Zenon
  <2> QED
    BY <2>2, <2>3
<1>7. /\ q[f] = FDT_SW_MAGIC /\ q[f + 1] = n /\ q[f + 2] = HeaderSize /\ q[f + 3] = 0
      /\ q[f + 4] = HeaderSize /\ q[f + 6] = 0 /\ q[f + 7] = 0
  <2>1. f + 0 = f /\ \A j \in {0, 1, 2, 3, 4, 6, 7} : q[f + j] = head[j + 1]
    BY <1>1, <1>6
  <2> QED
    BY <1>3, <2>1
<1> QED
  BY <1>5, <1>7, Zenon

LEMMA CreateKeeps ==
    ASSUME WriterInv, NEW b \in Buffers, NEW flags \in Flags, fdt_create(b, flags)
    PROVE  WriterInv'
<1>1. CASE b.size < HeaderSize /\ Refuse("NOSPACE")
  BY <1>1, RefusalKeeps
<1>2. CASE b.size >= HeaderSize /\ flags = 2 /\ Refuse("BADFLAGS")
  BY <1>2, RefusalKeeps
<1>3. CASE /\ b.size >= HeaderSize /\ flags # 2
           /\ mem' = Put(Put(mem, b.addr, [i \in 1..b.size |-> 0]), b.addr,
                         <<FDT_SW_MAGIC, b.size, HeaderSize, 0, HeaderSize, flags, 0, 0>>)
           /\ fdt' = b.addr
           /\ ret' = "OK"
  <2>a. PICK f, n : f = b.addr /\ n = b.size
    OBVIOUS
  <2>1. /\ f \in Nat /\ n \in Nat /\ f + n <= MemSize /\ MemSize \in Nat /\ 8 <= n
        /\ flags \in Int /\ mem \in Mem
    BY <1>3, <2>a, ConstantsAreTyped DEF HeaderSize, Flags, NO_NAME_DEDUP, WriterInv
  <2>b. PICK q : q = Put(Put(mem, b.addr, [i \in 1..b.size |-> 0]), b.addr,
                         <<FDT_SW_MAGIC, b.size, HeaderSize, 0, HeaderSize, flags, 0, 0>>)
    OBVIOUS
  <2>7. /\ q \in Mem /\ q[f] = FDT_SW_MAGIC /\ q[f + 1] = n /\ q[f + 2] = HeaderSize
        /\ q[f + 3] = 0 /\ q[f + 4] = HeaderSize /\ q[f + 6] = 0 /\ q[f + 7] = 0
    <3>1. mem \in Mem /\ b \in Buffers /\ b.size >= HeaderSize /\ flags \in Flags
      BY <1>3, <2>1
    <3> QED
      BY ONLY <2>a, <2>b, <3>1, CreatedCells
  <2>8. Layout(q, f)
    <3>1. HeaderSize \in Nat /\ HeaderSize + 0 + 0 <= n /\ 0 \in Nat /\ HeaderSize <= HeaderSize
      BY <2>1 DEF HeaderSize
    <3>2. b.addr = f /\ b.size = q[f + 1]
      BY <2>7, <2>a
    <3> QED
      BY <2>7, <3>1, <3>2, Zenon DEF Layout
  <2>9. IsWritten(q, f)
    <3>1. IsChain(q, f + HeaderSize, 0, {0})
      BY EmptyChain
    <3>2. NamesAreIn(q, f + HeaderSize, 0, {0}, -0, -1)
      BY DEF NamesAreIn
    <3> QED
      BY <2>7, <3>1, <3>2, Zenon DEF IsWritten
  <2>10. mem' = q
    BY <1>3, <2>b, Zenon
  <2>11. Writing(q, f)
    BY <2>7, <2>8, <2>9, Zenon DEF Writing
  <2>12. fdt' = f /\ fdt' \in {NULL} \cup {x.addr : x \in Buffers}
    BY <1>3, <2>a
  <2> QED
    BY <1>3, <2>7, <2>10, <2>11, <2>12 DEF WriterInv
<1> QED
  BY <1>1, <1>2, <1>3, Zenon DEF fdt_create

LEMMA MoveCells ==
    ASSUME NEW m \in Mem, NEW to \in Nat, NEW from \in Nat, NEW n \in Nat,
           from + n <= MemSize
    PROVE  /\ memmove(m, to, from, n) \in Mem
           /\ \A i \in 0..(MemSize - 1) :
                 memmove(m, to, from, n)[i]
                    = IF to <= i /\ i < to + n THEN m[from + i - to] ELSE m[i]
<1>1. MemSize \in Nat
  BY TagSize
<1>2. DOMAIN m = 0..(MemSize - 1) /\ \A i \in 0..(MemSize - 1) : m[i] \in Int
  BY DEF Mem
<1>3. memmove(m, to, from, n)
        = [i \in 0..(MemSize - 1) |-> IF i \in to..(to + n - 1) THEN m[from + i - to] ELSE m[i]]
  BY <1>2, Zenon DEF memmove
<1>4. \A i \in 0..(MemSize - 1) : i \in to..(to + n - 1) <=> to <= i /\ i < to + n
  BY <1>1
<1>5. \A i \in to..(to + n - 1) : m[from + i - to] \in Int
  <2>1. \A i \in to..(to + n - 1) : from + i - to \in 0..(MemSize - 1)
    BY <1>1
  <2> QED
    BY <1>2, <2>1
<1>6. \A i \in 0..(MemSize - 1) :
          (IF i \in to..(to + n - 1) THEN m[from + i - to] ELSE m[i]) \in Int
  BY <1>2, <1>5
<1>7. memmove(m, to, from, n) \in Mem
  BY <1>3, <1>6 DEF Mem
<1>8. \A i \in 0..(MemSize - 1) :
          memmove(m, to, from, n)[i] = IF to <= i /\ i < to + n THEN m[from + i - to] ELSE m[i]
  BY <1>3, <1>4
<1> QED
  BY <1>7, <1>8

(* fdt_resize moves the head and the strings, neither over the other. *)
LEMMA MovedCells ==
    ASSUME NEW m \in Mem, NEW total, NEW off, NEW strs, NEW size,
           Sizes(m, total, off, strs, size),
           NEW b \in Buffers, NEW f, NEW n, f = b.addr, n = b.size,
           NEW head, head = off + size, head + strs <= n,
           NEW q, q = Moved(m, b, head, strs)
    PROVE  /\ q \in Mem
           /\ \A x \in 0..(head - 1) : q[f + x] = m[fdt + x]
           /\ \A y \in 1..strs : q[f + n - y] = m[fdt + total - y]
<1>1. /\ fdt \in Nat /\ total \in Nat /\ off \in Nat /\ strs \in Nat /\ size \in Nat
      /\ 8 <= off /\ off + size + strs <= total /\ fdt + total <= MemSize /\ MemSize \in Nat
      /\ m[fdt + 1] = total
  BY DEF Sizes
<1>2. f \in Nat /\ n \in Nat /\ f + n <= MemSize
  BY ConstantsAreTyped
<1>3. head \in Nat /\ head + strs <= total
  BY <1>1
<1>a. PICK to, from : to = f + n - strs /\ from = fdt + total - strs
  OBVIOUS
<1>4. /\ to \in Nat /\ from \in Nat /\ to + strs = f + n /\ from + strs = fdt + total
      /\ f + head <= to /\ fdt + head <= from
  BY <1>1, <1>2, <1>3, <1>a
<1>5. strtab(m) - strs = from
  <2>1. strtab(m) = fdt + total
    BY <1>1, FieldsAre, Zenon
  <2> QED
    BY <1>1, <1>a, <2>1
<1>6. q = IF f <= fdt THEN memmove(memmove(m, f, fdt, head), to, from, strs)
          ELSE memmove(memmove(m, to, from, strs), f, fdt, head)
  <2>1. q = IF b.addr <= fdt
            THEN memmove(memmove(m, b.addr, fdt, head), b.addr + b.size - strs, strtab(m) - strs, strs)
            ELSE memmove(memmove(m, b.addr + b.size - strs, strtab(m) - strs, strs), b.addr, fdt, head)
    BY Zenon DEF Moved
  <2> QED
    BY <1>5, <1>a, <2>1, Zenon
<1>7. \A x \in 0..(head - 1) : /\ f + x \in 0..(MemSize - 1) /\ fdt + x \in 0..(MemSize - 1)
                               /\ f <= f + x /\ f + x < f + head /\ fdt + (f + x) - f = fdt + x
                               /\ f + x < to /\ fdt + x < fdt + head
  BY <1>1, <1>2, <1>3, <1>4
<1>8. \A y \in 1..strs : /\ f + n - y \in 0..(MemSize - 1) /\ fdt + total - y \in 0..(MemSize - 1)
                         /\ to <= f + n - y /\ f + n - y < to + strs
                         /\ from + (f + n - y) - to = fdt + total - y
                         /\ f + head <= f + n - y /\ from <= fdt + total - y
  BY <1>1, <1>2, <1>3, <1>4
<1>9. CASE f <= fdt
  <2>a. PICK h : h = memmove(m, f, fdt, head)
    OBVIOUS
  <2>1. q = memmove(h, to, from, strs)
    BY <1>6, <1>9, <2>a, Zenon
  <2>2. /\ h \in Mem
        /\ \A i \in 0..(MemSize - 1) :
              h[i] = IF f <= i /\ i < f + head THEN m[fdt + i - f] ELSE m[i]
    <3>1. fdt + head <= MemSize
      BY <1>1, <1>3
    <3>2. /\ memmove(m, f, fdt, head) \in Mem
          /\ \A i \in 0..(MemSize - 1) :
                memmove(m, f, fdt, head)[i]
                   = IF f <= i /\ i < f + head THEN m[fdt + i - f] ELSE m[i]
      <4>1. m \in Mem /\ f \in Nat /\ fdt \in Nat /\ head \in Nat /\ fdt + head <= MemSize
        BY <1>1, <1>2, <1>3, <3>1
      <4> QED
        BY ONLY <4>1, MoveCells
    <3> QED
      BY <2>a, <3>2, Zenon
  <2>3. /\ q \in Mem
        /\ \A i \in 0..(MemSize - 1) :
              q[i] = IF to <= i /\ i < to + strs THEN h[from + i - to] ELSE h[i]
    <3>1. from + strs <= MemSize
      BY <1>1, <1>4
    <3>2. /\ memmove(h, to, from, strs) \in Mem
          /\ \A i \in 0..(MemSize - 1) :
                memmove(h, to, from, strs)[i]
                   = IF to <= i /\ i < to + strs THEN h[from + i - to] ELSE h[i]
      <4>1. h \in Mem /\ to \in Nat /\ from \in Nat /\ strs \in Nat /\ from + strs <= MemSize
        BY <1>1, <1>4, <2>2, <3>1
      <4> QED
        BY ONLY <4>1, MoveCells
    <3> QED
      BY <2>1, <3>2, Zenon
  <2>4. ASSUME NEW x \in 0..(head - 1) PROVE q[f + x] = m[fdt + x]
    <3>1. ~(to <= f + x)
      BY <1>2, <1>4, <1>7
    <3>2. q[f + x] = h[f + x]
      BY <1>7, <2>3, <3>1, Zenon
    <3>3. h[f + x] = m[fdt + (f + x) - f]
      BY <1>7, <2>2, Zenon
    <3> QED
      BY <1>7, <3>2, <3>3
  <2>5. ASSUME NEW y \in 1..strs PROVE q[f + n - y] = m[fdt + total - y]
    <3>1. q[f + n - y] = h[from + (f + n - y) - to]
      BY <1>8, <2>3, Zenon
    <3>2. ~(fdt + total - y < f + head)
      BY <1>1, <1>2, <1>3, <1>4, <1>8, <1>9
    <3>3. h[fdt + total - y] = m[fdt + total - y]
      BY <1>8, <2>2, <3>2, Zenon
    <3> QED
      BY <1>8, <3>1, <3>3
  <2> QED
    BY <2>3, <2>4, <2>5
<1>10. CASE ~(f <= fdt)
  <2>a. PICK t : t = memmove(m, to, from, strs)
    OBVIOUS
  <2>1. q = memmove(t, f, fdt, head)
    BY <1>6, <1>10, <2>a, Zenon
  <2>2. /\ t \in Mem
        /\ \A i \in 0..(MemSize - 1) :
              t[i] = IF to <= i /\ i < to + strs THEN m[from + i - to] ELSE m[i]
    <3>1. from + strs <= MemSize
      BY <1>1, <1>4
    <3>2. /\ memmove(m, to, from, strs) \in Mem
          /\ \A i \in 0..(MemSize - 1) :
                memmove(m, to, from, strs)[i]
                   = IF to <= i /\ i < to + strs THEN m[from + i - to] ELSE m[i]
      <4>1. m \in Mem /\ to \in Nat /\ from \in Nat /\ strs \in Nat /\ from + strs <= MemSize
        BY <1>1, <1>4, <3>1
      <4> QED
        BY ONLY <4>1, MoveCells
    <3> QED
      BY <2>a, <3>2, Zenon
  <2>3. /\ q \in Mem
        /\ \A i \in 0..(MemSize - 1) :
              q[i] = IF f <= i /\ i < f + head THEN t[fdt + i - f] ELSE t[i]
    <3>1. fdt + head <= MemSize
      BY <1>1, <1>3
    <3>2. /\ memmove(t, f, fdt, head) \in Mem
          /\ \A i \in 0..(MemSize - 1) :
                memmove(t, f, fdt, head)[i]
                   = IF f <= i /\ i < f + head THEN t[fdt + i - f] ELSE t[i]
      <4>1. t \in Mem /\ f \in Nat /\ fdt \in Nat /\ head \in Nat /\ fdt + head <= MemSize
        BY <1>1, <1>2, <1>3, <2>2, <3>1
      <4> QED
        BY ONLY <4>1, MoveCells
    <3> QED
      BY <2>1, <3>2, Zenon
  <2>4. ASSUME NEW x \in 0..(head - 1) PROVE q[f + x] = m[fdt + x]
    <3>1. q[f + x] = t[fdt + (f + x) - f]
      BY <1>7, <2>3, Zenon
    <3>2. ~(to <= fdt + x)
      BY <1>1, <1>2, <1>3, <1>4, <1>7, <1>10
    <3>3. t[fdt + x] = m[fdt + x]
      BY <1>7, <2>2, <3>2, Zenon
    <3> QED
      BY <1>7, <3>1, <3>3
  <2>5. ASSUME NEW y \in 1..strs PROVE q[f + n - y] = m[fdt + total - y]
    <3>1. ~(f + n - y < f + head)
      BY <1>1, <1>2, <1>3, <1>8
    <3>2. q[f + n - y] = t[f + n - y]
      BY <1>8, <2>3, <3>1, Zenon
    <3>3. t[f + n - y] = m[from + (f + n - y) - to]
      BY <1>8, <2>2, Zenon
    <3> QED
      BY <1>8, <3>2, <3>3
  <2> QED
    BY <2>3, <2>4, <2>5
<1> QED
  BY <1>9, <1>10

(* The blob that fdt_resize makes: the head and the strings of the one it   *)
(* is made from, but for the fields that tell its size.                    *)
LEMMA ResizedCells ==
    ASSUME mem \in Mem, NEW total, NEW off, NEW strs, NEW size,
           Sizes(mem, total, off, strs, size),
           NEW b \in Buffers, NEW f, NEW n, f = b.addr, n = b.size,
           NEW head, head = off + size, head + strs <= n,
           NEW r, r = Resized(Moved(mem, b, head, strs), b)
    PROVE  /\ f \in Nat /\ n \in Nat /\ f + n <= MemSize /\ head \in Nat /\ 8 <= head
           /\ r \in Mem /\ r[f + 1] = n /\ r[f + 3] = IF mem[fdt + 3] = 0 THEN 0 ELSE n
           /\ \A x \in 0..(head - 1) : x # 1 /\ x # 3 => r[f + x] = mem[fdt + x]
           /\ \A y \in 1..strs : r[f + n - y] = mem[fdt + total - y]
<1>1. /\ fdt \in Nat /\ total \in Nat /\ off \in Nat /\ strs \in Nat /\ size \in Nat
      /\ 8 <= off /\ off + size + strs <= total /\ MemSize \in Nat /\ fdt + total <= MemSize
  BY DEF Sizes
<1>2. f \in Nat /\ n \in Nat /\ f + n <= MemSize
  BY ConstantsAreTyped
<1>3. head \in Nat /\ 8 <= head
  BY <1>1
<1> PICK q : q = Moved(mem, b, head, strs)
  OBVIOUS
<1>4. /\ q \in Mem
      /\ \A x \in 0..(head - 1) : q[f + x] = mem[fdt + x]
      /\ \A y \in 1..strs : q[f + n - y] = mem[fdt + total - y]
  BY <1>3, MovedCells
<1>5. q[f + 3] = mem[fdt + 3]
  <2>1. 3 \in 0..(head - 1)
    BY <1>3
  <2> QED
    BY <1>4, <2>1
<1> PICK state, p : /\ state = IF mem[fdt + 3] = 0 THEN 0 ELSE n
                    /\ p = [q EXCEPT ![f + 1] = n, ![f + 3] = state]
  OBVIOUS
<1>6. Resized(q, b) = p
  <2>1. Fields["totalsize"] = 1 /\ Fields["off_dt_strings"] = 3
    BY FieldNumbers
  <2>2. Resized(q, b) = [q EXCEPT ![b.addr + Fields["totalsize"]] = b.size,
                ![b.addr + Fields["off_dt_strings"]] = IF @ = 0 THEN 0 ELSE b.size]
    BY Zenon DEF Resized
  <2>3. Resized(q, b) = [q EXCEPT ![f + 1] = n, ![f + 3] = IF @ = 0 THEN 0 ELSE n]
    BY <2>1, <2>2
  <2>4. f + 1 # f + 3
    BY <1>2
  <2>5. Resized(q, b) = [q EXCEPT ![f + 1] = n, ![f + 3] = IF q[f + 3] = 0 THEN 0 ELSE n]
    <3>1. PICK i, j : i = f + 1 /\ j = f + 3
      OBVIOUS
    <3>2. Resized(q, b) = [q EXCEPT ![i] = n, ![j] = IF @ = 0 THEN 0 ELSE n]
      BY <2>3, <3>1
    <3>3. i # j
      BY <2>4, <3>1
    <3>4. Resized(q, b) = [q EXCEPT ![i] = n, ![j] = IF q[j] = 0 THEN 0 ELSE n]
      BY ONLY <3>2, <3>3
    <3> QED
      BY ONLY <3>1, <3>4
  <2> QED
    BY <1>5, <2>5, Zenon
<1>7. r = p
  BY <1>6
<1>8. /\ r \in Mem /\ r[f + 1] = n /\ r[f + 3] = state
      /\ \A i \in 0..(MemSize - 1) : i # f + 1 /\ i # f + 3 => r[i] = q[i]
  <2>1. f + 1 \in 0..(MemSize - 1) /\ f + 3 \in 0..(MemSize - 1) /\ f + 1 # f + 3
    BY <1>1, <1>2, <1>3
  <2>2. state \in Int
    BY <1>2
  <2> PICK i, j : i = f + 1 /\ j = f + 3
    OBVIOUS
  <2>3. r = [q EXCEPT ![i] = n, ![j] = state]
    BY <1>7
  <2>4. i \in 0..(MemSize - 1) /\ j \in 0..(MemSize - 1) /\ i # j /\ n \in Int /\ q \in Mem
    BY <1>2, <1>4, <2>1
  <2>5. /\ r \in Mem /\ r[i] = n /\ r[j] = state
        /\ \A x \in 0..(MemSize - 1) : x # i /\ x # j => r[x] = q[x]
    BY ONLY <2>2, <2>3, <2>4 DEF Mem
  <2> QED
    BY <2>5
<1>9. \A x \in 0..(head - 1) : x # 1 /\ x # 3 => r[f + x] = mem[fdt + x]
  <2>1. \A x \in 0..(head - 1) : /\ f + x \in 0..(MemSize - 1)
                                 /\ x # 1 /\ x # 3 => f + x # f + 1 /\ f + x # f + 3
    BY <1>1, <1>2, <1>3
  <2> QED
    BY <1>4, <1>8, <2>1, Zenon
<1>10. \A y \in 1..strs : r[f + n - y] = mem[fdt + total - y]
  <2>1. \A y \in 1..strs : /\ f + n - y \in 0..(MemSize - 1)
                           /\ f + n - y # f + 1 /\ f + n - y # f + 3
    BY <1>1, <1>2, <1>3
  <2> QED
    BY <1>4, <1>8, <2>1, Zenon
<1> QED
  BY <1>2, <1>3, <1>8, <1>9, <1>10, Zenon

LEMMA ResizeKeeps ==
    ASSUME WriterInv, fdt # NULL, NEW b \in Buffers, fdt_resize(b)
    PROVE  WriterInv'
<1> DEFINE headsize == struct_top(mem)
           tailsize == size_dt_strings(mem)
           fits     == headsize + tailsize <= Smaller(totalsize(mem), b.size)
<1>1. \/ Field(mem, "magic") # FDT_SW_MAGIC /\ Refuse("BADSTATE")
      \/ /\ Field(mem, "magic") = FDT_SW_MAGIC /\ ~fits
         /\ Refuse(IF headsize + tailsize > totalsize(mem) THEN "INTERNAL" ELSE "NOSPACE")
      \/ /\ Field(mem, "magic") = FDT_SW_MAGIC /\ fits
         /\ mem' = Resized(Moved(mem, b, headsize, tailsize), b)
         /\ fdt' = b.addr
         /\ ret' = "OK"
  BY Zenon DEF fdt_resize
<1>2. CASE Field(mem, "magic") # FDT_SW_MAGIC /\ Refuse("BADSTATE")
  BY <1>2, RefusalKeeps
<1>3. CASE Refuse(IF headsize + tailsize > totalsize(mem) THEN "INTERNAL" ELSE "NOSPACE")
  <2>1. PICK e : e = IF headsize + tailsize > totalsize(mem) THEN "INTERNAL" ELSE "NOSPACE"
    OBVIOUS
  <2>2. e \in {"NOSPACE", "BADFLAGS", "BADSTATE", "INTERNAL"}
    BY <2>1, Zenon
  <2>3. Refuse(e)
    BY <1>3, <2>1, Zenon
  <2> QED
    BY <2>2, <2>3, RefusalKeeps
<1>4. CASE /\ Field(mem, "magic") = FDT_SW_MAGIC /\ fits
           /\ mem' = Resized(Moved(mem, b, headsize, tailsize), b)
           /\ fdt' = b.addr
           /\ ret' = "OK"
  <2>1. fdt \in Nat /\ mem \in Mem /\ Writing(mem, fdt) /\ Layout(mem, fdt)
    BY <1>4, FieldsInWriting
  <2>2. PICK total, off, strs, size : Sizes(mem, total, off, strs, size)
    BY <2>1, SizesAre
  <2>3. /\ total \in Nat /\ off \in Nat /\ strs \in Nat /\ size \in Nat
        /\ 8 <= off /\ off + size + strs <= total /\ MemSize \in Nat /\ fdt + total <= MemSize
        /\ mem[fdt + 1] = total /\ mem[fdt + 2] = off /\ mem[fdt + 6] = strs
        /\ mem[fdt + 7] = size
    BY <2>2 DEF Sizes
  <2>4. headsize = off + size /\ tailsize = strs /\ totalsize(mem) = total
    BY <2>1, <2>3, FieldsAre, Zenon
  <2>a. PICK f, n, head : f = b.addr /\ n = b.size /\ head = off + size
    OBVIOUS
  <2>5. f \in Nat /\ n \in Nat /\ f + n <= MemSize
    BY <2>a, ConstantsAreTyped
  <2>6. head \in Nat /\ 8 <= head /\ head + strs <= n
    <3>1. head + strs <= Smaller(total, n)
      BY <1>4, <2>4, <2>a, Zenon
    <3>2. head + strs <= total
      BY <2>3, <2>a
    <3> QED
      BY <2>3, <2>5, <2>a, <3>1, <3>2 DEF Smaller
  <2>b. PICK r : r = Resized(Moved(mem, b, head, strs), b)
    OBVIOUS
  <2>10. mem' = r
    BY <1>4, <2>4, <2>a, <2>b, Zenon
  <2>11. mem[fdt + 3] \in {0, total} /\ total # 0
    <3>1. mem[fdt + 3] \in {0, mem[fdt + 1]}
      BY <2>1 DEF Layout
    <3> QED
      BY <2>3, <3>1
  <2>12. /\ r \in Mem /\ r[f + 1] = n /\ r[f + 3] = IF mem[fdt + 3] = 0 THEN 0 ELSE n
         /\ \A x \in 0..(head - 1) : x # 1 /\ x # 3 => r[f + x] = mem[fdt + x]
         /\ \A y \in 1..strs : r[f + n - y] = mem[fdt + total - y]
    BY <2>1, <2>2, <2>6, <2>a, <2>b, ResizedCells
  <2>13. \A x \in 0..(head - 1) : x # 1 /\ x # 3 => r[f + x] = mem[fdt + x]
    BY <2>12
  <2>14. /\ r[f] = FDT_SW_MAGIC /\ r[f + 2] = off /\ r[f + 4] = HeaderSize
         /\ r[f + 6] = strs /\ r[f + 7] = size
    <3>1. {0, 2, 4, 6, 7} \subseteq 0..(head - 1) /\ f + 0 = f /\ fdt + 0 = fdt
      BY <2>1, <2>5, <2>6
    <3>2. \A x \in {0, 2, 4, 6, 7} : x # 1 /\ x # 3 /\ x \in 0..(head - 1)
      BY <3>1
    <3>3. \A x \in {0, 2, 4, 6, 7} : r[f + x] = mem[fdt + x]
      BY <2>13, <3>2, Zenon
    <3>4. mem[fdt] = FDT_SW_MAGIC /\ mem[fdt + 4] = HeaderSize
      BY <2>1, Zenon DEF Writing, Layout
    <3> QED
      BY <2>3, <3>1, <3>3, <3>4
  <2>15. strs # 0 => r[f + n - 1] = 0
    <3>1. HAVE strs # 0
    <3>2. 1 \in 1..strs
      BY <2>3, <3>1
    <3>3. mem[fdt + total - 1] = 0
      BY <2>1, <2>3, <3>1, Zenon DEF Layout
    <3> QED
      BY <2>12, <3>2, <3>3, Zenon
  <2>16. Layout(r, f)
    <3>1. off + size + strs <= n /\ HeaderSize <= off
      BY <2>3, <2>6, <2>a DEF HeaderSize
    <3>2. r[f + 3] \in {0, n} /\ (r[f + 3] = 0 => strs = 0 /\ size = 0)
      <4>1. mem[fdt + 3] = 0 => strs = 0 /\ size = 0
        BY <2>1, <2>3, Zenon DEF Layout
      <4>2. n # 0
        BY <2>3, <2>5, <2>6
      <4> QED
        BY <2>12, <4>1, <4>2, Zenon
    <3>3. b.addr = f /\ b.size = r[f + 1]
      BY <2>12, <2>a
    <3> QED
      BY <2>3, <2>12, <2>14, <2>15, <3>1, <3>2, <3>3, Zenon DEF Layout
  <2>17. IsWritten(r, f)
    <3>1. PICK T : /\ IsChain(mem, fdt + off, size, T)
                   /\ NamesAreIn(mem, fdt + off, size, T, -strs, -1)
      BY <2>1, <2>3, Zenon DEF Writing, IsWritten
    <3>a. PICK at, to, lo, hi : at = fdt + off /\ to = f + off /\ lo = -strs /\ hi = -1
      OBVIOUS
    <3>2. at \in Int /\ to \in Int /\ lo \in Int /\ hi \in Int /\ lo <= lo
      BY <2>1, <2>3, <2>5, <3>a
    <3>3. \A x \in 0..(size - 1) : r[to + x] = mem[at + x]
      <4>1. TAKE x \in 0..(size - 1)
      <4>2. /\ off + x \in 0..(head - 1) /\ off + x # 1 /\ off + x # 3
            /\ to + x = f + (off + x) /\ at + x = fdt + (off + x)
        BY <2>1, <2>3, <2>5, <2>a, <3>a
      <4>3. r[f + (off + x)] = mem[fdt + (off + x)]
        BY <2>13, <4>2, Zenon
      <4> QED
        BY <4>2, <4>3, Zenon
    <3>4. IsChain(mem, at, size, T) /\ NamesAreIn(mem, at, size, T, lo, hi) /\ size \in Nat
      BY <2>3, <3>1, <3>a
    <3>5. IsChain(r, to, size, T)
      BY ONLY <3>2, <3>3, <3>4, ChainSurvives
    <3>6. NamesAreIn(r, to, size, T, lo, hi)
      BY ONLY <3>2, <3>3, <3>4, NamesSurvive
    <3> QED
      BY <2>14, <3>5, <3>6, <3>a, Zenon DEF IsWritten
  <2>18. Writing(r, f)
    BY <2>14, <2>16, <2>17, Zenon DEF Writing
  <2>19. fdt' = f /\ fdt' \in {NULL} \cup {x.addr : x \in Buffers}
    BY <1>4, <2>a
  <2> QED
    BY <1>4, <2>10, <2>12, <2>18, <2>19 DEF WriterInv
<1> QED
  BY <1>1, <1>2, <1>3, <1>4, Zenon

LEMMA FieldSet ==
    ASSUME NEW m \in Mem, fdt \in Nat, fdt + 8 <= MemSize, NEW v \in Int,
           NEW name \in DOMAIN Fields, NEW k, Fields[name] = k,
           NEW n, n = With(m, name, v)
    PROVE  /\ n \in Mem /\ n[fdt + k] = v
           /\ \A i \in 0..(MemSize - 1) : i # fdt + k => n[i] = m[i]
<1>1. /\ With(m, name, v) \in Mem
      /\ With(m, name, v)[fdt + Fields[name]] = v
      /\ \A i \in 0..(MemSize - 1) : i # fdt + Fields[name] => With(m, name, v)[i] = m[i]
  BY WithCells, Zenon
<1> QED
  BY <1>1, Zenon

LEMMA CompletedCells ==
    ASSUME NEW m \in Mem, fdt \in Nat, fdt + 8 <= MemSize, NEW total \in Int,
           struct_top(m) + size_dt_strings(m) = total, NEW n, n = Completed(m)
    PROVE  /\ n \in Mem /\ n[fdt] = FDT_MAGIC /\ n[fdt + 1] = total
           /\ \A i \in 0..(MemSize - 1) :
                 i # fdt /\ i # fdt + 1 /\ i # fdt + 5 => n[i] = m[i]
<1>a. PICK p : p = With(m, "totalsize", total)
  OBVIOUS
<1>b. PICK q : q = With(p, "flags", 0)
  OBVIOUS
<1>1. n = With(q, "magic", FDT_MAGIC)
  <2>1. Completed(m) = With(With(With(m, "totalsize", struct_top(m) + size_dt_strings(m)),
                                 "flags", 0), "magic", FDT_MAGIC)
    BY Zenon DEF Completed
  <2> QED
    BY <1>a, <1>b, <2>1
<1>2. /\ p \in Mem /\ p[fdt + 1] = total
      /\ \A i \in 0..(MemSize - 1) : i # fdt + 1 => p[i] = m[i]
  BY <1>a, FieldNumbers, FieldSet
<1>3. /\ q \in Mem
      /\ \A i \in 0..(MemSize - 1) : i # fdt + 5 => q[i] = p[i]
  BY <1>2, <1>b, FieldNumbers, FieldSet
<1>c. PICK magic, zero : magic = FDT_MAGIC /\ zero = 0
  OBVIOUS
<1>4. /\ n \in Mem /\ n[fdt + zero] = magic
      /\ \A i \in 0..(MemSize - 1) : i # fdt + zero => n[i] = q[i]
  <2>1. magic \in Int
    BY <1>c DEF FDT_MAGIC
  <2>2. "magic" \in DOMAIN Fields /\ Fields["magic"] = zero
    BY <1>c, FieldNumbers
  <2>3. n = With(q, "magic", magic)
    BY <1>1, <1>c
  <2>4. fdt \in Nat /\ fdt + 8 <= MemSize /\ q \in Mem
    BY <1>3
  <2> QED
    BY ONLY <2>1, <2>2, <2>3, <2>4, FieldSet
<1>5. fdt + zero = fdt /\ fdt + 1 # fdt /\ fdt + 1 # fdt + 5 /\ fdt + 1 \in 0..(MemSize - 1)
  BY <1>c, TagSize
<1>6. n[fdt + 1] = total
  BY <1>2, <1>3, <1>4, <1>5, Zenon
<1> QED
  BY <1>2, <1>3, <1>4, <1>5, <1>6, <1>c, Zenon

(* The blob of fdt_finish before the offsets of names are corrected *)
LEMMA RelocatedCells ==
    ASSUME NEW m \in Mem, Writing(m, fdt), m[fdt + 3] = m[fdt + 1],
           NEW total, NEW off, NEW strs, NEW size, Sizes(m, total, off, strs, size),
           HasSpace(m, FDT_TAGSIZE),
           NEW top, top = off + size + FDT_TAGSIZE,
           NEW v, v = Relocated(Grabbed(m, FDT_TAGSIZE, Word(FDT_END)))
    PROVE  /\ v \in Mem /\ v[fdt + 2] = off /\ v[fdt + 3] = top /\ v[fdt + 6] = strs
           /\ v[fdt + 7] = size + FDT_TAGSIZE
           /\ top + strs <= total
           /\ v[fdt + off + size] = FDT_END
           /\ v[fdt + 4] = m[fdt + 4] /\ \A x \in 8..(off + size - 1) : v[fdt + x] = m[fdt + x]
           /\ \A y \in 1..strs : v[fdt + (top + strs) - y] = m[fdt + total - y]
<1>1. /\ fdt \in Nat /\ total \in Nat /\ off \in Nat /\ strs \in Nat /\ size \in Nat
      /\ 8 <= off /\ off + size + strs <= total /\ fdt + total <= MemSize /\ MemSize \in Nat
      /\ m[fdt + 1] = total /\ m[fdt + 2] = off /\ m[fdt + 6] = strs /\ m[fdt + 7] = size
      /\ FDT_TAGSIZE \in Nat \ {0}
  BY TagSize DEF Sizes
<1>a. PICK s, g, n, len : /\ n = FDT_TAGSIZE /\ len = FDT_TAGSIZE /\ s = Word(FDT_END)
                          /\ g = Grabbed(m, n, s)
  OBVIOUS
<1>2. s \in Seq(Int) /\ Len(s) = len /\ s[1] = FDT_END
  BY <1>a, WordIs DEF FDT_END
<1>b. PICK end : end = fdt + off + size
  OBVIOUS
<1>3. /\ end \in Nat /\ end >= fdt + 8 /\ end + n <= fdt + total - strs
      /\ g \in Mem /\ g[fdt + 7] = size + n
      /\ \A i \in 0..(MemSize - 1) : i # fdt + 7 /\ (i < end \/ end + len <= i) => g[i] = m[i]
      /\ \A j \in 1..len : g[end + j - 1] = s[j]
  <2>1. HasSpace(m, n) /\ n \in Nat /\ len = Len(s) /\ len <= n
    BY <1>1, <1>2, <1>a
  <2>2. /\ end \in Nat /\ end >= fdt + 8 /\ end + n <= fdt + total - strs
        /\ Grabbed(m, n, s) \in Mem /\ Grabbed(m, n, s)[fdt + 7] = size + n
        /\ \A i \in 0..(MemSize - 1) :
              i # fdt + 7 /\ (i < end \/ end + len <= i) => Grabbed(m, n, s)[i] = m[i]
        /\ \A j \in 1..len : Grabbed(m, n, s)[end + j - 1] = s[j]
    <3>1. m \in Mem /\ Sizes(m, total, off, strs, size) /\ s \in Seq(Int)
      BY <1>2
    <3> QED
      BY ONLY <1>b, <2>1, <3>1, GrabbedCells
  <2> QED
    BY <1>a, <2>2, Zenon
<1>4. g[end] = FDT_END
  <2>1. 1 \in 1..len /\ end + 1 - 1 = end
    BY <1>1, <1>3, <1>a
  <2> QED
    BY <1>2, <1>3, <2>1, Zenon
<1>5. \A k \in {1, 2, 4, 6} : g[fdt + k] = m[fdt + k]
  <2>1. \A k \in {1, 2, 4, 6} : /\ fdt + k \in 0..(MemSize - 1) /\ fdt + k # fdt + 7
                             /\ fdt + k < end
    BY <1>1, <1>3
  <2> QED
    BY <1>3, <2>1, Zenon
<1>6. /\ struct_top(g) = off + (size + n) /\ strtab(g) = fdt + total
      /\ size_dt_strings(g) = strs
  BY <1>1, <1>3, <1>5, FieldsAre, Zenon
<1>c. PICK to, from : to = fdt + top /\ from = fdt + total - strs
  OBVIOUS
<1>7. /\ to \in Nat /\ from \in Nat /\ from + strs <= MemSize /\ to = end + n /\ to <= from
      /\ off + (size + n) = top /\ fdt + struct_top(g) = to /\ strtab(g) - strs = from
      /\ top \in Nat
  BY <1>1, <1>3, <1>6, <1>a, <1>b, <1>c
<1>d. PICK k : k = memmove(g, to, from, strs)
  OBVIOUS
<1>8. /\ k \in Mem
      /\ \A i \in 0..(MemSize - 1) :
            k[i] = IF to <= i /\ i < to + strs THEN g[from + i - to] ELSE g[i]
  <2>1. g \in Mem /\ to \in Nat /\ from \in Nat /\ strs \in Nat /\ from + strs <= MemSize
    BY <1>1, <1>3, <1>7
  <2>2. /\ memmove(g, to, from, strs) \in Mem
        /\ \A i \in 0..(MemSize - 1) :
              memmove(g, to, from, strs)[i]
                 = IF to <= i /\ i < to + strs THEN g[from + i - to] ELSE g[i]
    BY ONLY <2>1, MoveCells
  <2> QED
    BY <1>d, <2>2, Zenon
<1>9. v = With(k, "off_dt_strings", top)
  <2>1. v = Relocated(g)
    BY <1>a
  <2>2. Relocated(g) = With(memmove(g, fdt + struct_top(g), strtab(g) - size_dt_strings(g),
                                    size_dt_strings(g)), "off_dt_strings", struct_top(g))
    BY Zenon DEF Relocated
  <2>3. struct_top(g) = top
    BY <1>6, <1>7
  <2>4. Relocated(g) = With(memmove(g, to, from, strs), "off_dt_strings", top)
    BY <1>6, <1>7, <2>2, <2>3, Zenon
  <2> QED
    BY <1>d, <2>1, <2>4, Zenon
<1>10. /\ v \in Mem /\ v[fdt + 3] = top
       /\ \A i \in 0..(MemSize - 1) : i # fdt + 3 => v[i] = k[i]
  <2>1. "off_dt_strings" \in DOMAIN Fields /\ Fields["off_dt_strings"] = 3
    BY FieldNumbers
  <2>2. top \in Int /\ fdt \in Nat /\ fdt + 8 <= MemSize /\ k \in Mem
    BY <1>1, <1>7, <1>8
  <2>c. PICK three : three = 3
    OBVIOUS
  <2>3. /\ v \in Mem /\ v[fdt + three] = top
        /\ \A i \in 0..(MemSize - 1) : i # fdt + three => v[i] = k[i]
    <3>1. Fields["off_dt_strings"] = three
      BY <2>1, <2>c
    <3> QED
      BY ONLY <1>9, <2>1, <2>2, <3>1, FieldSet
  <2> QED
    BY <2>3, <2>c, Zenon
<1>11. \A i \in 0..(MemSize - 1) : i # fdt + 3 /\ i < to => v[i] = g[i]
  <2>1. \A i \in 0..(MemSize - 1) : i < to => ~(to <= i /\ i < to + strs)
    BY <1>7
  <2> QED
    BY <1>8, <1>10, <2>1, Zenon
<1>12. /\ v[fdt + 2] = off /\ v[fdt + 6] = strs /\ v[fdt + 7] = size + FDT_TAGSIZE
       /\ v[fdt + 4] = m[fdt + 4]
  <2>1. \A j \in {2, 4, 6, 7} : fdt + j \in 0..(MemSize - 1) /\ fdt + j # fdt + 3 /\ fdt + j < to
    BY <1>1, <1>7, <1>c, <1>3
  <2>2. \A j \in {2, 4, 6, 7} : v[fdt + j] = g[fdt + j]
    BY <1>11, <2>1, Zenon
  <2>3. /\ g[fdt + 2] = off /\ g[fdt + 6] = strs /\ g[fdt + 7] = size + FDT_TAGSIZE
        /\ g[fdt + 4] = m[fdt + 4]
    BY <1>1, <1>3, <1>5, <1>a
  <2> QED
    BY <2>2, <2>3
<1>13. v[fdt + off + size] = FDT_END
  <2>1. end \in 0..(MemSize - 1) /\ end # fdt + 3 /\ end < to
    BY <1>1, <1>3, <1>7, <1>a
  <2> QED
    BY <1>4, <1>11, <1>b, <2>1
<1>14. ASSUME NEW x \in 8..(off + size - 1)
       PROVE  v[fdt + x] = m[fdt + x]
  <2>1. PICK i : i = fdt + x
    OBVIOUS
  <2>2. /\ i \in 0..(MemSize - 1) /\ i # fdt + 3 /\ i # fdt + 7 /\ i < to /\ i < end
    BY <1>1, <1>3, <1>7, <1>a, <1>b, <2>1
  <2>3. v[i] = m[i]
    BY <1>3, <1>11, <2>2, Zenon
  <2> QED
    BY <2>1, <2>3
<1>15. ASSUME NEW y \in 1..strs
       PROVE  v[fdt + (top + strs) - y] = m[fdt + total - y]
  <2>1. PICK i, j : i = fdt + (top + strs) - y /\ j = fdt + total - y
    OBVIOUS
  <2>2. /\ i \in 0..(MemSize - 1) /\ i # fdt + 3 /\ to <= i /\ i < to + strs
        /\ from + i - to = j /\ j \in 0..(MemSize - 1) /\ j # fdt + 7 /\ end + len <= j
    BY <1>1, <1>3, <1>7, <1>a, <1>c, <2>1
  <2>3. v[i] = g[from + i - to]
    BY <1>8, <1>10, <2>2, Zenon
  <2>4. g[j] = m[j]
    BY <1>3, <2>2, Zenon
  <2> QED
    BY <2>1, <2>2, <2>3, <2>4
<1>16. top + strs <= total
  BY <1>1, <1>3, <1>7, <1>b, <1>a
<1> QED
  BY <1>10, <1>12, <1>13, <1>14, <1>15, <1>16

(* The cells that fdt_finish corrects are those of the properties' names.  *)
LEMMA CorrectedCells ==
    ASSUME NEW v \in Mem, NEW at \in Nat, at = fdt + off_dt_struct(v),
           size_dt_struct(v) \in Nat, at + size_dt_struct(v) <= MemSize,
           NEW size \in Nat, size + FDT_TAGSIZE = size_dt_struct(v),
           NEW T, IsChain(v, at, size, T), v[at + size] = FDT_END,
           NEW strs \in Nat, strs = size_dt_strings(v)
    PROVE  /\ Corrected(v) \in Mem
           /\ \A i \in 0..(MemSize - 1) :
                 Corrected(v)[i] = IF \E o \in T \ {size} : /\ v[at + o] = FDT_PROP
                                                            /\ i = at + o + 2 * FDT_TAGSIZE
                                   THEN v[i] + strs ELSE v[i]
<1> DEFINE names == {fdt + off_dt_struct(v) + o + 2 * FDT_TAGSIZE :
                       o \in {x \in 0..size_dt_struct(v) :
                               x \in ToSet(TagOffsets(v)) /\ NextTag(v, x).tag = FDT_PROP}}
           IsName(i) == \E o \in T \ {size} : /\ v[at + o] = FDT_PROP
                                              /\ i = at + o + 2 * FDT_TAGSIZE
<1>1. Corrected(v) = [a \in DOMAIN v |-> IF a \in names THEN v[a] + size_dt_strings(v) ELSE v[a]]
  BY Zenon DEF Corrected
<1>2. ToSet(TagOffsets(v)) = {o \in T \ {size} : v[at + o] # FDT_NOP}
  BY ChainOffsets
<1>3. ASSUME NEW o \in T \ {size}
      PROVE  NextTag(v, o).tag = v[at + o] /\ o \in 0..size_dt_struct(v)
  <2>1. PICK next \in T : NextTag(v, o) = [tag |-> v[at + o], next |-> next]
    <3>1. size <= size_dt_struct(v)
      BY TagSize
    <3> QED
      BY <3>1, ChainTags
  <2>2. o \in 0..size
    BY DEF IsChain
  <2> QED
    BY <2>1, <2>2, TagSize
<1>4. ASSUME NEW i
      PROVE  i \in names <=> IsName(i)
  <2>1. ASSUME i \in names PROVE IsName(i)
    <3>1. PICK o \in {x \in 0..size_dt_struct(v) :
                               x \in ToSet(TagOffsets(v)) /\ NextTag(v, x).tag = FDT_PROP} :
             i = fdt + off_dt_struct(v) + o + 2 * FDT_TAGSIZE
      BY <2>1, Zenon
    <3>2. o \in T \ {size} /\ NextTag(v, o).tag = FDT_PROP
      BY <1>2, <3>1, Zenon
    <3>3. v[at + o] = FDT_PROP
      BY <1>3, <3>2, Zenon
    <3>4. i = at + o + 2 * FDT_TAGSIZE
      BY <3>1, Zenon
    <3> QED
      BY <3>2, <3>3, <3>4, Zenon
  <2>2. ASSUME IsName(i) PROVE i \in names
    <3>1. PICK o \in T \ {size} : v[at + o] = FDT_PROP /\ i = at + o + 2 * FDT_TAGSIZE
      BY <2>2, Zenon
    <3>2. FDT_PROP # FDT_NOP
      BY DEF FDT_PROP, FDT_NOP
    <3>3. o \in ToSet(TagOffsets(v))
      BY <1>2, <3>1, <3>2, Zenon
    <3>4. o \in 0..size_dt_struct(v) /\ NextTag(v, o).tag = FDT_PROP
      BY <1>3, <3>1, Zenon
    <3>5. i = fdt + off_dt_struct(v) + o + 2 * FDT_TAGSIZE
      BY <3>1, Zenon
    <3> QED
      BY <3>3, <3>4, <3>5, Zenon
  <2> QED
    BY <2>1, <2>2, Zenon
<1> HIDE DEF names, IsName
<1>5. Corrected(v) = [a \in DOMAIN v |-> IF IsName(a) THEN v[a] + strs ELSE v[a]]
  BY <1>1, <1>4
<1>6. Corrected(v) \in Mem
  BY <1>5 DEF Mem
<1>7. \A i \in 0..(MemSize - 1) : Corrected(v)[i] = IF IsName(i) THEN v[i] + strs ELSE v[i]
  BY <1>5 DEF Mem
<1> QED
  BY <1>6, <1>7, Zenon DEF IsName

(* W is the finished blob that m becomes: the tags of m and their chain T,  *)
(* its strings behind them, and the offsets of the names counted from      *)
(* where the strings begin.                                                *)
FinishedFrom(m, total, off, strs, size, w, T) ==
    /\ w \in Mem /\ w[fdt] = FDT_MAGIC /\ w[fdt + 2] = off /\ w[fdt + 4] = m[fdt + 4]
    /\ w[fdt + 3] = off + size + FDT_TAGSIZE /\ w[fdt + 1] = off + size + FDT_TAGSIZE + strs
    /\ w[fdt + 6] = strs /\ w[fdt + 7] = size + FDT_TAGSIZE
    /\ off + size + FDT_TAGSIZE + strs <= total /\ w[fdt + off + size] = FDT_END
    /\ IsChain(m, fdt + off, size, T) /\ NamesAreIn(m, fdt + off, size, T, -strs, -1)
    /\ \A x \in 8..(off - 1) : w[fdt + x] = m[fdt + x]
    /\ \A x \in 0..(size - 1) :
          w[fdt + off + x] = IF \E p \in T \ {size} : /\ m[fdt + off + p] = FDT_PROP
                                                      /\ x = p + 2 * FDT_TAGSIZE
                             THEN m[fdt + off + x] + strs ELSE m[fdt + off + x]
    /\ \A y \in 1..strs : w[fdt + (off + size + FDT_TAGSIZE + strs) - y] = m[fdt + total - y]

(* What fdt_finish makes of a blob; the walk over it ends. *)
LEMMA FinishedCells ==
    ASSUME NEW m \in Mem, Writing(m, fdt), m[fdt + 3] = m[fdt + 1],
           NEW total, NEW off, NEW strs, NEW size, Sizes(m, total, off, strs, size),
           HasSpace(m, FDT_TAGSIZE),
           NEW v, v = Relocated(Grabbed(m, FDT_TAGSIZE, Word(FDT_END))),
           NEW w, w = Completed(Corrected(v))
    PROVE  WalkEnds(v) /\ \E T : FinishedFrom(m, total, off, strs, size, w, T)
<1>1. /\ fdt \in Nat /\ total \in Nat /\ off \in Nat /\ strs \in Nat /\ size \in Nat
      /\ 8 <= off /\ off + size + strs <= total /\ fdt + total <= MemSize /\ MemSize \in Nat
      /\ m[fdt + 2] = off /\ m[fdt + 6] = strs /\ m[fdt + 7] = size
      /\ FDT_TAGSIZE \in Nat \ {0}
  BY TagSize DEF Sizes
<1>a. PICK top, at, all : /\ top = off + size + FDT_TAGSIZE /\ at = fdt + off
                          /\ all = top + strs
  OBVIOUS
<1>2. /\ v \in Mem /\ v[fdt + 2] = off /\ v[fdt + 3] = top /\ v[fdt + 6] = strs
      /\ v[fdt + 7] = size + FDT_TAGSIZE
      /\ top + strs <= total
      /\ v[fdt + off + size] = FDT_END
      /\ v[fdt + 4] = m[fdt + 4] /\ \A x \in 8..(off + size - 1) : v[fdt + x] = m[fdt + x]
      /\ \A y \in 1..strs : v[fdt + (top + strs) - y] = m[fdt + total - y]
  BY <1>a, RelocatedCells
<1>3. /\ v[at + size] = FDT_END /\ \A x \in 0..(size - 1) : v[at + x] = m[at + x]
      /\ at \in Nat /\ top \in Nat /\ all \in Nat /\ at + size + FDT_TAGSIZE <= MemSize
      /\ all <= total
  <2>1. \A x \in 0..(size - 1) : off + x \in 8..(off + size - 1) /\ fdt + (off + x) = at + x
    BY <1>1, <1>a
  <2>2. \A x \in 0..(size - 1) : v[at + x] = m[at + x]
    BY <1>2, <2>1
  <2>3. v[at + size] = FDT_END
    BY <1>2, <1>a
  <2> QED
    BY <1>1, <1>2, <1>a, <2>2, <2>3
<1>4. PICK T : IsChain(m, at, size, T) /\ NamesAreIn(m, at, size, T, -strs, -1)
  BY <1>1, <1>a DEF Writing, IsWritten
<1>5. IsChain(v, at, size, T)
  <2>1. at \in Int /\ size \in Nat
    BY <1>1, <1>3
  <2> QED
    BY ONLY <1>3, <1>4, <2>1, ChainSurvives
<1>6. T \ {size} \subseteq 0..(size - 1) /\ \A o \in T \ {size} : v[at + o] = m[at + o]
  <2>1. T \subseteq 0..size
    BY <1>4 DEF IsChain
  <2> QED
    BY <1>1, <1>3, <2>1
<1>7. /\ off_dt_struct(v) = off /\ size_dt_struct(v) = size + FDT_TAGSIZE
      /\ size_dt_strings(v) = strs
  BY <1>1, <1>2, FieldsAre
<1>8. /\ at = fdt + off_dt_struct(v) /\ size_dt_struct(v) \in Nat
      /\ at + size_dt_struct(v) <= MemSize /\ size + FDT_TAGSIZE = size_dt_struct(v)
      /\ strs = size_dt_strings(v)
  BY <1>1, <1>3, <1>7, <1>a
<1>9. WalkEnds(v)
  BY <1>1, <1>3, <1>5, <1>8, ChainEnds
<1>b. PICK c : c = Corrected(v)
  OBVIOUS
<1> DEFINE IsName(i) == \E o \in T \ {size} : /\ v[at + o] = FDT_PROP
                                              /\ i = at + o + 2 * FDT_TAGSIZE
           IsNameAt(x) == \E p \in T \ {size} : m[at + p] = FDT_PROP /\ x = p + 2 * FDT_TAGSIZE
<1>10. /\ c \in Mem
       /\ \A i \in 0..(MemSize - 1) : c[i] = IF IsName(i) THEN v[i] + strs ELSE v[i]
  <2>1. v \in Mem /\ at \in Nat /\ size \in Nat /\ strs \in Nat
    BY <1>1, <1>2, <1>3
  <2>2. /\ Corrected(v) \in Mem
        /\ \A i \in 0..(MemSize - 1) :
              Corrected(v)[i] = IF IsName(i) THEN v[i] + strs ELSE v[i]
    BY ONLY <1>3, <1>5, <1>8, <2>1, CorrectedCells
  <2> QED
    BY <1>b, <2>2, Zenon
<1>11. ASSUME NEW i \in 0..(MemSize - 1), i < at \/ at + size <= i
       PROVE  c[i] = v[i]
  <2>1. ~IsName(i)
    <3>1. SUFFICES ASSUME NEW o \in T \ {size}, v[at + o] = FDT_PROP,
                          i = at + o + 2 * FDT_TAGSIZE
                   PROVE  FALSE
      OBVIOUS
    <3>2. PICK next \in T : IsLink(v, at, T, o, next)
      BY <1>5 DEF IsChain
    <3>3. o \in Nat /\ next \in Nat /\ o < next /\ next <= size
      BY <1>1, <1>5, <3>2 DEF IsChain, IsLink
    <3>4. o + 3 * FDT_TAGSIZE <= next
      BY <3>1, <3>2, <3>3, NameIsInside DEF IsLink
    <3> QED
      BY <1>1, <1>3, <1>11, <3>1, <3>3, <3>4
  <2> QED
    BY <1>10, <2>1
<1>12. \A x \in 0..(size - 1) : IsName(at + x) <=> IsNameAt(x)
  <2>1. TAKE x \in 0..(size - 1)
  <2>2. \A o \in T \ {size} :
           /\ v[at + o] = m[at + o]
           /\ at + x = at + o + 2 * FDT_TAGSIZE <=> x = o + 2 * FDT_TAGSIZE
    BY <1>1, <1>3, <1>6
  <2> QED
    BY <2>2, Zenon
<1> HIDE DEF IsName
<1>13. \A x \in 0..(size - 1) : c[at + x] = IF IsNameAt(x) THEN m[at + x] + strs ELSE m[at + x]
  <2>1. TAKE x \in 0..(size - 1)
  <2>2. at + x \in 0..(MemSize - 1)
    BY <1>1, <1>3
  <2>3. c[at + x] = IF IsName(at + x) THEN v[at + x] + strs ELSE v[at + x]
    BY <1>10, <2>2, Zenon
  <2>4. v[at + x] = m[at + x]
    BY <1>3, Zenon
  <2>5. IsName(at + x) <=> IsNameAt(x)
    BY <1>12, Zenon
  <2> QED
    BY <2>3, <2>4, <2>5, Zenon
<1> HIDE DEF IsNameAt
<1>14. /\ c[fdt + 2] = off /\ c[fdt + 3] = top /\ c[fdt + 6] = strs
       /\ c[fdt + 7] = size + FDT_TAGSIZE /\ c[fdt + 4] = m[fdt + 4]
  <2>1. \A k \in {2, 3, 4, 6, 7} : fdt + k \in 0..(MemSize - 1) /\ fdt + k < at
    BY <1>1, <1>a
  <2>2. \A k \in {2, 3, 4, 6, 7} : c[fdt + k] = v[fdt + k]
    BY <1>11, <2>1, Zenon
  <2> QED
    BY <1>2, <2>2
<1>15. struct_top(c) + size_dt_strings(c) = all /\ all \in Int
  <2>1. struct_top(c) = off + (size + FDT_TAGSIZE) /\ size_dt_strings(c) = strs
    BY <1>1, <1>14, FieldsAre
  <2> QED
    BY <1>1, <1>a, <2>1
<1>16. /\ w \in Mem /\ w[fdt] = FDT_MAGIC /\ w[fdt + 1] = all
       /\ \A i \in 0..(MemSize - 1) :
             i # fdt /\ i # fdt + 1 /\ i # fdt + 5 => w[i] = c[i]
  <2>1. fdt \in Nat /\ fdt + 8 <= MemSize /\ all \in Int /\ w = Completed(c)
    BY <1>1, <1>15, <1>b
  <2> QED
    BY ONLY <1>10, <1>15, <2>1, CompletedCells
<1>17. \A i \in 0..(MemSize - 1) : fdt + 8 <= i => w[i] = c[i]
  <2>1. \A i \in 0..(MemSize - 1) : fdt + 8 <= i => i # fdt /\ i # fdt + 1 /\ i # fdt + 5
    BY <1>1
  <2> QED
    BY <1>16, <2>1, Zenon
<1>18. /\ w[fdt + 2] = off /\ w[fdt + 3] = top /\ w[fdt + 6] = strs
       /\ w[fdt + 7] = size + FDT_TAGSIZE /\ w[fdt + 4] = m[fdt + 4]
  <2>1. \A k \in {2, 3, 4, 6, 7} : /\ fdt + k \in 0..(MemSize - 1) /\ fdt + k # fdt
                                   /\ fdt + k # fdt + 1 /\ fdt + k # fdt + 5
    BY <1>1
  <2>2. \A k \in {2, 3, 4, 6, 7} : w[fdt + k] = c[fdt + k]
    BY <1>16, <2>1, Zenon
  <2> QED
    BY <1>14, <2>2
<1>19. \A x \in 8..(off - 1) : w[fdt + x] = m[fdt + x]
  <2>1. TAKE x \in 8..(off - 1)
  <2>2. /\ fdt + x \in 0..(MemSize - 1) /\ fdt + 8 <= fdt + x /\ fdt + x < at
        /\ x \in 8..(off + size - 1)
    BY <1>1, <1>a
  <2> QED
    BY <1>2, <1>11, <1>17, <2>2
<1>20. \A x \in 0..(size - 1) : w[at + x] = IF IsNameAt(x) THEN m[at + x] + strs ELSE m[at + x]
  <2>1. \A x \in 0..(size - 1) : at + x \in 0..(MemSize - 1) /\ fdt + 8 <= at + x
    BY <1>1, <1>3, <1>a
  <2> QED
    BY <1>13, <1>17, <2>1, Zenon
<1>21. w[at + size] = FDT_END
  <2>1. at + size \in 0..(MemSize - 1) /\ fdt + 8 <= at + size /\ at + size <= at + size
    BY <1>1, <1>3, <1>a
  <2> QED
    BY <1>3, <1>11, <1>17, <2>1
<1>22. \A y \in 1..strs : w[fdt + all - y] = m[fdt + total - y]
  <2>1. TAKE y \in 1..strs
  <2>2. PICK i : i = fdt + all - y
    OBVIOUS
  <2>3. i \in 0..(MemSize - 1) /\ fdt + 8 <= i /\ at + size <= i
    BY <1>1, <1>3, <1>a, <2>2
  <2>4. v[i] = m[fdt + total - y]
    BY <1>2, <1>a, <2>2
  <2> QED
    BY <1>11, <1>17, <2>2, <2>3, <2>4
<1>23. FinishedFrom(m, total, off, strs, size, w, T)
  <2>1. /\ at = fdt + off /\ top = off + size + FDT_TAGSIZE
        /\ all = off + size + FDT_TAGSIZE + strs
    BY <1>a
  <2>2. /\ w[fdt + 3] = off + size + FDT_TAGSIZE
        /\ w[fdt + 1] = off + size + FDT_TAGSIZE + strs
        /\ off + size + FDT_TAGSIZE + strs <= total /\ w[fdt + off + size] = FDT_END
    BY <1>3, <1>16, <1>18, <1>21, <2>1
  <2>3. /\ IsChain(m, fdt + off, size, T) /\ NamesAreIn(m, fdt + off, size, T, -strs, -1)
    BY <1>4, <2>1, Zenon
  <2>4. \A x \in 0..(size - 1) :
           w[fdt + off + x] = IF \E p \in T \ {size} : /\ m[fdt + off + p] = FDT_PROP
                                                       /\ x = p + 2 * FDT_TAGSIZE
                              THEN m[fdt + off + x] + strs ELSE m[fdt + off + x]
    BY <1>20, <2>1, Zenon DEF IsNameAt
  <2>5. \A y \in 1..strs : w[fdt + (off + size + FDT_TAGSIZE + strs) - y] = m[fdt + total - y]
    BY <1>22, <2>1, Zenon
  <2> QED
    BY <1>16, <1>18, <1>19, <2>2, <2>3, <2>4, <2>5, Zenon DEF FinishedFrom
<1> QED
  BY <1>9, <1>23

TagsCorrected(m, at, w, size, T, strs) ==
    /\ IsChain(w, at, size, T)
    /\ \A o \in T \ {size} :
          /\ w[at + o] = m[at + o]
          /\ m[at + o] = FDT_PROP =>
                /\ o + 2 * FDT_TAGSIZE \in 0..(size - 1)
                /\ w[at + o + 2 * FDT_TAGSIZE] = m[at + o + 2 * FDT_TAGSIZE] + strs

(* The tags of the finished blob are those it is made from, and the        *)
(* offsets of names are corrected.                                         *)
LEMMA FinishedTags ==
    ASSUME NEW m, NEW total, NEW off, NEW strs, NEW size \in Nat, NEW w, NEW T,
           NEW at \in Nat, at = fdt + off, FinishedFrom(m, total, off, strs, size, w, T)
    PROVE  TagsCorrected(m, at, w, size, T, strs)
<1> DEFINE IsNameAt(x) == \E p \in T \ {size} : m[at + p] = FDT_PROP /\ x = p + 2 * FDT_TAGSIZE
<1>1. /\ IsChain(m, at, size, T)
      /\ \A x \in 0..(size - 1) : w[at + x] = IF IsNameAt(x) THEN m[at + x] + strs ELSE m[at + x]
  BY Zenon DEF FinishedFrom
<1>2. IsChain(w, at, size, T) /\ \A o \in T \ {size} : w[at + o] = m[at + o]
  <2>1. \A x \in 0..(size - 1) :
           \/ w[at + x] = m[at + x]
           \/ \E p \in T \ {size} : m[at + p] = FDT_PROP /\ x = p + 2 * FDT_TAGSIZE
    BY <1>1, Zenon
  <2>2. at \in Int /\ size \in Nat
    OBVIOUS
  <2>3. IsChain(m, at, size, T)
    BY <1>1
  <2> QED
    BY ONLY <2>1, <2>2, <2>3, ChainIsCorrected
<1>3. ASSUME NEW o \in T \ {size}, m[at + o] = FDT_PROP
      PROVE  /\ o + 2 * FDT_TAGSIZE \in 0..(size - 1)
             /\ w[at + o + 2 * FDT_TAGSIZE] = m[at + o + 2 * FDT_TAGSIZE] + strs
  <2>1. PICK next \in T : IsLink(m, at, T, o, next)
    BY <1>1 DEF IsChain
  <2>2. o \in Nat /\ next \in Nat /\ o < next /\ next <= size
    BY <1>1, <2>1 DEF IsChain, IsLink
  <2>3. o + 3 * FDT_TAGSIZE <= next
    BY <1>3, <2>1, <2>2, NameIsInside DEF IsLink
  <2>4. o + 2 * FDT_TAGSIZE \in 0..(size - 1) /\ at + (o + 2 * FDT_TAGSIZE) = at + o + 2 * FDT_TAGSIZE
    BY <2>2, <2>3, TagSize
  <2>5. IsNameAt(o + 2 * FDT_TAGSIZE)
    BY <1>3, Zenon
  <2> HIDE DEF IsNameAt
  <2>6. w[at + (o + 2 * FDT_TAGSIZE)] = m[at + (o + 2 * FDT_TAGSIZE)] + strs
    BY <1>1, <2>4, <2>5, Zenon
  <2> QED
    BY <2>4, <2>6
<1> QED
  BY <1>2, <1>3, Zenon DEF TagsCorrected

(* The blob that fdt_finish leaves: the walk over it ends, and it is a     *)
(* finished one.                                                           *)
LEMMA FinishedIsReached ==
    ASSUME NEW m \in Mem, Writing(m, fdt), m[fdt + 3] = m[fdt + 1],
           NEW total, NEW off, NEW strs, NEW size, Sizes(m, total, off, strs, size),
           HasSpace(m, FDT_TAGSIZE),
           NEW v, v = Relocated(Grabbed(m, FDT_TAGSIZE, Word(FDT_END)))
    PROVE  /\ WalkEnds(v)
           /\ Completed(Corrected(v)) \in Mem /\ Finished(Completed(Corrected(v)), fdt)
<1>1. /\ fdt \in Nat /\ total \in Nat /\ off \in Nat /\ strs \in Nat /\ size \in Nat
      /\ 8 <= off /\ off + size + strs <= total /\ fdt + total <= MemSize /\ MemSize \in Nat
      /\ m[fdt + 1] = total /\ m[fdt + 6] = strs /\ FDT_TAGSIZE \in Nat \ {0}
  BY TagSize DEF Sizes
<1>a. PICK w, at, all : /\ w = Completed(Corrected(v)) /\ at = fdt + off
                        /\ all = off + size + FDT_TAGSIZE + strs
  OBVIOUS
<1>2. WalkEnds(v) /\ \E T : FinishedFrom(m, total, off, strs, size, w, T)
  BY <1>a, FinishedCells
<1>3. PICK T : FinishedFrom(m, total, off, strs, size, w, T)
  BY <1>2
<1>4. /\ w \in Mem /\ w[fdt] = FDT_MAGIC /\ w[fdt + 2] = off
      /\ w[fdt + 3] = off + size + FDT_TAGSIZE /\ w[fdt + 1] = all
      /\ w[fdt + 6] = strs /\ w[fdt + 7] = size + FDT_TAGSIZE /\ all <= total
      /\ w[at + size] = FDT_END
      /\ NamesAreIn(m, at, size, T, -strs, -1)
      /\ \A y \in 1..strs : w[fdt + all - y] = m[fdt + total - y]
  BY <1>3, <1>a, Zenon DEF FinishedFrom
<1>5. at \in Nat
  BY <1>1, <1>a
<1>6. /\ IsChain(w, at, size, T)
      /\ \A o \in T \ {size} :
            /\ w[at + o] = m[at + o]
            /\ m[at + o] = FDT_PROP =>
                  /\ o + 2 * FDT_TAGSIZE \in 0..(size - 1)
                  /\ w[at + o + 2 * FDT_TAGSIZE] = m[at + o + 2 * FDT_TAGSIZE] + strs
  <2>1. TagsCorrected(m, at, w, size, T, strs)
    BY <1>1, <1>3, <1>5, <1>a, FinishedTags
  <2> QED
    BY <2>1, Zenon DEF TagsCorrected
<1>7. NamesAreIn(w, at, size, T, 0, strs - 1)
  <2>1. ASSUME NEW o \in T \ {size}, w[at + o] = FDT_PROP
        PROVE  w[at + o + 2 * FDT_TAGSIZE] \in 0..(strs - 1)
    <3>1. /\ w[at + o + 2 * FDT_TAGSIZE] = m[at + o + 2 * FDT_TAGSIZE] + strs
          /\ m[at + o] = FDT_PROP
      BY <1>6, <2>1
    <3>2. m[at + o + 2 * FDT_TAGSIZE] \in -strs..-1
      BY <1>4, <3>1 DEF NamesAreIn
    <3> QED
      BY <1>1, <3>1, <3>2
  <2> QED
    BY <2>1 DEF NamesAreIn
<1>8. strs # 0 => w[fdt + all - 1] = 0
  <2>1. ASSUME strs # 0 PROVE w[fdt + all - 1] = 0
    <3>1. m[fdt + total - 1] = 0
      BY <1>1, <2>1, Zenon DEF Writing, Layout
    <3>2. 1 \in 1..strs
      BY <1>1, <2>1
    <3> QED
      BY <1>4, <3>1, <3>2, Zenon
  <2> QED
    BY <2>1
<1>9. Finished(w, fdt)
  <2>1. w[fdt + 3] = w[fdt + 2] + w[fdt + 7] /\ w[fdt + 3] + w[fdt + 6] = w[fdt + 1]
    BY <1>1, <1>4, <1>a
  <2>2. fdt + w[fdt + 1] <= MemSize
    <3>1. all \in Nat
      BY <1>1, <1>a
    <3> QED
      BY <1>1, <1>4, <3>1
  <2>3. w[fdt + 6] # 0 => w[fdt + w[fdt + 1] - 1] = 0
    BY <1>4, <1>8
  <2>4. \E z \in Nat :
           /\ z + FDT_TAGSIZE = w[fdt + 7] /\ w[fdt + w[fdt + 2] + z] = FDT_END
           /\ \E T1 : /\ IsChain(w, fdt + w[fdt + 2], z, T1)
                      /\ NamesAreIn(w, fdt + w[fdt + 2], z, T1, 0, w[fdt + 6] - 1)
    <3>1. w[fdt + off + size] = FDT_END
      BY <1>4, <1>a
    <3>2. IsChain(w, fdt + w[fdt + 2], size, T)
      BY <1>4, <1>6, <1>a
    <3>3. NamesAreIn(w, fdt + w[fdt + 2], size, T, 0, w[fdt + 6] - 1)
      BY <1>4, <1>7, <1>a
    <3> QED
      BY <1>1, <1>4, <3>1, <3>2, <3>3, Zenon
  <2>5. w[fdt] = FDT_MAGIC /\ fdt \in Nat /\ w[fdt + 2] \in Nat /\ w[fdt + 6] \in Nat
    BY <1>1, <1>4
  <2> QED
    BY <2>1, <2>2, <2>3, <2>4, <2>5, Zenon DEF Finished
<1> QED
  BY <1>2, <1>4, <1>9, <1>a

LEMMA FinishKeeps ==
    ASSUME WriterInv, fdt # NULL, fdt_finish
    PROVE  WriterInv'
<1>a. PICK v : v = Relocated(Grabbed(mem, FDT_TAGSIZE, Word(FDT_END)))
  OBVIOUS
<1>1. CASE ~InStruct(mem) /\ Refuse("BADSTATE")
  BY <1>1, RefusalKeeps
<1>2. CASE InStruct(mem) /\ ~HasSpace(mem, FDT_TAGSIZE) /\ Refuse("NOSPACE")
  BY <1>2, RefusalKeeps
<1>3. CASE /\ InStruct(mem) /\ HasSpace(mem, FDT_TAGSIZE)
           /\ mem' = IF WalkEnds(v) THEN Completed(Corrected(v)) ELSE Corrected(v)
           /\ ret' = IF WalkEnds(v) THEN "OK" ELSE "BADSTRUCTURE"
           /\ UNCHANGED fdt
  <2>1. /\ mem \in Mem /\ Writing(mem, fdt) /\ Layout(mem, fdt)
        /\ mem[fdt + 3] = mem[fdt + 1]
    BY <1>3, StructIsBegun
  <2>2. PICK total, off, strs, size : Sizes(mem, total, off, strs, size)
    BY <2>1, SizesAre
  <2>3. /\ WalkEnds(v)
        /\ Completed(Corrected(v)) \in Mem /\ Finished(Completed(Corrected(v)), fdt)
    BY <1>3, <1>a, <2>1, <2>2, FinishedIsReached
  <2>4. mem' = Completed(Corrected(v)) /\ ret' = "OK" /\ fdt' = fdt
    BY <1>3, <2>3, Zenon
  <2>5. mem' \in Mem /\ Finished(mem', fdt')
    BY <2>3, <2>4, Zenon
  <2>6. Finished(mem, fdt)' \/ Writing(mem, fdt)'
    BY <2>5
  <2>7. fdt' \in {NULL} \cup {b.addr : b \in Buffers}
    BY <2>4 DEF WriterInv
  <2> QED
    BY <2>4, <2>5, <2>6, <2>7 DEF WriterInv
<1> QED
  BY <1>1, <1>2, <1>3, <1>a, Zenon DEF fdt_finish

----------------------------------------------------------------------------
(* The specification *)

LEMMA WriterInit == Init => WriterInv
<1>1. SUFFICES ASSUME Init PROVE WriterInv
  OBVIOUS
<1>2. mem \in Mem
  BY <1>1, LeftoversAreCells DEF Init, Mem
<1> QED
  BY <1>1, <1>2 DEF Init, WriterInv

LEMMA WriterStep == WriterInv /\ [Next]_vars => WriterInv'
<1>1. SUFFICES ASSUME WriterInv, [Next]_vars PROVE WriterInv'
  OBVIOUS
<1>2. CASE fdt = NULL /\ \E b \in Buffers, flags \in Flags : fdt_create(b, flags)
  BY <1>1, <1>2, CreateKeeps
<1>3. CASE fdt # NULL /\ \E b \in Buffers : fdt_resize(b)
  BY <1>1, <1>3, ResizeKeeps
<1>4. CASE fdt # NULL /\ \E r \in Reservations : fdt_add_reservemap_entry(r)
  BY <1>1, <1>4, ReserveKeeps
<1>5. CASE fdt # NULL /\ fdt_finish_reservemap
  BY <1>1, <1>5, FinishReservesKeeps
<1>6. CASE fdt # NULL /\ \E name \in Names : fdt_begin_node(name)
  BY <1>1, <1>6, BeginNodeKeeps
<1>7. CASE fdt # NULL /\ fdt_end_node
  BY <1>1, <1>7, EndNodeKeeps
<1>8. CASE fdt # NULL /\ \E name \in PropNames, value \in Values : fdt_property(name, value)
  BY <1>1, <1>8, PropertyKeeps
<1>9. CASE fdt # NULL /\ fdt_finish
  BY <1>1, <1>9, FinishKeeps
<1>10. CASE UNCHANGED vars
  BY <1>1, <1>10 DEF WriterInv, vars
<1> QED
  BY <1>1, <1>2, <1>3, <1>4, <1>5, <1>6, <1>7, <1>8, <1>9, <1>10, Zenon DEF Next

LEMMA WriterInvHolds == Spec => []WriterInv
  BY WriterInit, WriterStep, PTL DEF Spec

LEMMA FinishedIs ==
    ASSUME WriterInv, IsComplete
    PROVE  fdt \in Nat /\ Finished(mem, fdt)
<1>1. fdt \in Nat
  BY ConstantsAreTyped DEF WriterInv, IsComplete
<1>2. mem[fdt] = FDT_MAGIC
  BY <1>1, FieldsAre, Zenon DEF IsComplete
<1>3. ~Writing(mem, fdt)
  BY <1>2 DEF Writing, FDT_MAGIC, FDT_SW_MAGIC
<1> QED
  BY <1>1, <1>3, Zenon DEF WriterInv, IsComplete

(* The header of a blob in writing is in one of its two states, whatever   *)
(* calls were made on it, and memory holds numbers.                        *)
THEOREM TypeCorrect == Spec => []TypeOK
<1>1. WriterInv => TypeOK
  <2>1. SUFFICES ASSUME WriterInv PROVE TypeOK
    OBVIOUS
  <2>2. DOMAIN mem = 0..(MemSize - 1) /\ \A a \in DOMAIN mem : mem[a] \in Int
    BY <2>1 DEF WriterInv, Mem
  <2>3. ASSUME fdt # NULL, ~IsComplete
        PROVE  InMemrsv(mem) \/ InStruct(mem)
    <3>1. fdt \in Nat
      BY <2>1, <2>3, ConstantsAreTyped DEF WriterInv
    <3>2. Field(mem, "magic") = mem[fdt] /\ off_dt_strings(mem) = mem[fdt + 3]
          /\ totalsize(mem) = mem[fdt + 1]
      BY <3>1, FieldsAre, Zenon
    <3>3. Writing(mem, fdt)
      BY <2>1, <2>3, <3>2, Zenon DEF WriterInv, IsComplete, Finished
    <3>4. mem[fdt] = FDT_SW_MAGIC /\ (mem[fdt + 3] = 0 \/ mem[fdt + 3] = mem[fdt + 1])
      BY <3>3, Zenon DEF Writing, Layout
    <3> QED
      BY <3>2, <3>4, Zenon DEF InMemrsv, InStruct
  <2>4. stage # "lost"
    BY <2>3 DEF stage
  <2> QED
    BY <2>1, <2>2, <2>4 DEF TypeOK, WriterInv
<1> QED
  BY <1>1, WriterInvHolds, PTL

(* A string that a cell below limit ends is read up to there at most. *)
LEMMA NulIsFound ==
    ASSUME NEW m, NEW a \in Nat, NEW limit \in Nat, a < limit, limit <= MemSize,
           m[limit - 1] = 0
    PROVE  NulFrom(m, a) < limit
<1> DEFINE Nul(i) == (i = MemSize \/ m[i] = 0) /\ \A j \in a..(i - 1) : m[j] # 0
           S == {i \in a..(limit - 1) : m[i] = 0}
<1>1. limit - 1 \in S /\ S \subseteq Nat
  OBVIOUS
<1>2. PICK k \in S : \A j \in S : k <= j
  BY <1>1, LeastOf, Zenon
<1>3. k \in a..MemSize /\ Nul(k)
  <2>1. ASSUME NEW j \in a..(k - 1) PROVE m[j] # 0
    <3>1. j \in a..(limit - 1) /\ ~(k <= j)
      BY <1>2
    <3> QED
      BY <1>2, <3>1
  <2> QED
    BY <1>2, <2>1, TagSize
<1>4. NulFrom(m, a) = CHOOSE i \in a..MemSize : Nul(i)
  BY Zenon DEF NulFrom
<1>5. NulFrom(m, a) \in a..MemSize /\ \A j \in a..(NulFrom(m, a) - 1) : m[j] # 0
  <2> HIDE DEF Nul
  <2>1. NulFrom(m, a) \in a..MemSize /\ Nul(NulFrom(m, a))
    BY <1>3, <1>4, Zenon
  <2> QED
    BY <2>1 DEF Nul
<1> QED
  BY <1>5, TagSize

(* The structure and the strings never meet while a blob is written; and   *)
(* when it is finished its blocks fill it, the walk over it ends at        *)
(* FDT_END, and every property has its name inside the strings.            *)
THEOREM BlocksStaySound == Spec => []BlocksAreSound
<1>1. WriterInv => BlocksNeverMeet
  <2>1. SUFFICES ASSUME WriterInv, InWriting
                 PROVE  struct_top(mem) + size_dt_strings(mem) <= totalsize(mem)
    BY DEF BlocksNeverMeet
  <2>2. fdt \in Nat /\ Layout(mem, fdt)
    BY <2>1, FieldsInWriting, Zenon DEF InWriting
  <2>3. PICK total, off, strs, size : Sizes(mem, total, off, strs, size)
    BY <2>2, SizesAre
  <2>4. /\ struct_top(mem) = off + size /\ size_dt_strings(mem) = strs
        /\ totalsize(mem) = total
    BY <2>2, <2>3, FieldsAre DEF Sizes
  <2> QED
    BY <2>3, <2>4 DEF Sizes
<1>2. WriterInv => CompleteIsReadable
  <2>1. SUFFICES ASSUME WriterInv, IsComplete PROVE CompleteIsReadable
    BY DEF CompleteIsReadable
  <2>2. fdt \in Nat /\ Finished(mem, fdt)
    BY <2>1, FinishedIs
  <2>a. PICK off, strs, all, rest : /\ off = mem[fdt + 2] /\ strs = mem[fdt + 6]
                                    /\ all = mem[fdt + 1] /\ rest = mem[fdt + 7]
    OBVIOUS
  <2>3. /\ off \in Nat /\ strs \in Nat
        /\ mem[fdt + 3] = off + rest /\ mem[fdt + 3] + strs = all
        /\ fdt + all <= MemSize
        /\ strs # 0 => mem[fdt + all - 1] = 0
    BY <2>2, <2>a DEF Finished
  <2>4. PICK size \in Nat :
           /\ size + FDT_TAGSIZE = rest /\ mem[fdt + off + size] = FDT_END
           /\ \E T : /\ IsChain(mem, fdt + off, size, T)
                     /\ NamesAreIn(mem, fdt + off, size, T, 0, strs - 1)
    BY <2>2, <2>a, Zenon DEF Finished
  <2>5. PICK T : /\ IsChain(mem, fdt + off, size, T)
                 /\ NamesAreIn(mem, fdt + off, size, T, 0, strs - 1)
    BY <2>4
  <2>b. PICK at : at = fdt + off
    OBVIOUS
  <2>6. /\ off_dt_struct(mem) = off /\ size_dt_struct(mem) = rest
        /\ size_dt_strings(mem) = strs /\ off_dt_strings(mem) = mem[fdt + 3]
        /\ totalsize(mem) = all /\ struct_top(mem) = off + rest /\ strtab(mem) = fdt + all
    BY <2>2, <2>a, FieldsAre
  <2>7. rest \in Nat /\ all \in Nat /\ FDT_TAGSIZE \in Nat \ {0} /\ MemSize \in Nat
    BY <2>3, <2>4, TagSize
  <2>8. /\ at \in Nat /\ at = fdt + off_dt_struct(mem) /\ size_dt_struct(mem) \in Nat
        /\ at + size_dt_struct(mem) <= MemSize /\ size + FDT_TAGSIZE = size_dt_struct(mem)
        /\ IsChain(mem, at, size, T) /\ mem[at + size] = FDT_END /\ size \in Nat
        /\ size <= size_dt_struct(mem)
    BY <2>2, <2>3, <2>4, <2>5, <2>6, <2>7, <2>b
  <2>9. WalkEnds(mem)
    BY ONLY <2>8, ChainEnds
  <2>10. ASSUME NEW o \in ToSet(TagOffsets(mem)), NextTag(mem, o).tag = FDT_PROP
         PROVE  LET nameoff == mem[fdt + off_dt_struct(mem) + o + 2 * FDT_TAGSIZE]
                IN  /\ nameoff \in 0..(size_dt_strings(mem) - 1)
                    /\ NulFrom(mem, fdt + off_dt_strings(mem) + nameoff) < strtab(mem)
    <3>1. ToSet(TagOffsets(mem)) = {x \in T \ {size} : mem[at + x] # FDT_NOP}
      BY ONLY <2>8, ChainOffsets
    <3>2. o \in T \ {size}
      BY <3>1
    <3>3. NextTag(mem, o).tag = mem[at + o]
      <4>1. \E next \in T : NextTag(mem, o) = [tag |-> mem[at + o], next |-> next]
        BY ONLY <2>8, <3>2, ChainTags
      <4> QED
        BY <4>1
    <3>4. PICK nameoff : nameoff = mem[at + o + 2 * FDT_TAGSIZE]
      OBVIOUS
    <3>5. nameoff \in 0..(strs - 1)
      BY <2>5, <2>10, <2>b, <3>2, <3>3, <3>4 DEF NamesAreIn
    <3>6. PICK a, limit : a = fdt + off_dt_strings(mem) + nameoff /\ limit = fdt + all
      OBVIOUS
    <3>7. a \in Nat /\ limit \in Nat /\ a < limit /\ limit <= MemSize /\ mem[limit - 1] = 0
      <4>1. strs # 0 /\ fdt + all - 1 = limit - 1
        BY <2>2, <2>3, <2>7, <3>5, <3>6
      <4>2. a = fdt + (off + rest) + nameoff
        BY <2>3, <2>6, <3>6
      <4> QED
        BY <2>2, <2>3, <2>7, <3>5, <3>6, <4>1, <4>2
    <3>8. NulFrom(mem, a) < limit
      BY ONLY <3>7, NulIsFound
    <3> QED
      BY <2>6, <2>8, <3>4, <3>5, <3>6, <3>8
  <2>11. /\ struct_top(mem) = off_dt_strings(mem)
         /\ off_dt_strings(mem) + size_dt_strings(mem) = totalsize(mem)
    BY <2>3, <2>6
  <2> QED
    BY <2>9, <2>10, <2>11, Zenon DEF CompleteIsReadable
<1> QED
  BY <1>1, <1>2, WriterInvHolds, PTL DEF BlocksAreSound

(* A property that finds no room takes its name back. *)
LEMMA PropertyFails ==
    ASSUME WriterInv, fdt # NULL, NEW name \in PropNames, NEW value \in Values,
           fdt_property(name, value), ret' # "OK"
    PROVE  FailureKeepsBlocks
<1> DEFINE allocated == IsAllocated(mem, name)
           named     == IF allocated THEN StringAdded(mem, name) ELSE mem
           n         == 3 * FDT_TAGSIZE + TagAlign(Len(value))
           prop      == Word(FDT_PROP) \o Word(Len(value)) \o Word(NameOffset(mem, name))
<1>1. \/ ~InStruct(mem) /\ Refuse("BADSTATE")
      \/ InStruct(mem) /\ allocated /\ ~StringHasSpace(mem, name) /\ Refuse("NOSPACE")
      \/ /\ InStruct(mem) /\ (allocated => StringHasSpace(mem, name))
         /\ \/ HasSpace(named, n) /\ Return(Grabbed(named, n, prop \o value))
            \/ /\ ~HasSpace(named, n)
               /\ mem' = WithoutString(named, name, allocated)
               /\ ret' = "NOSPACE"
               /\ UNCHANGED fdt
  BY Zenon DEF fdt_property
<1>2. name \in Seq(Nat \ {0})
  BY ConstantsAreTyped
<1> HIDE DEF n, prop
<1>3. CASE mem' = mem /\ fdt' = fdt
  BY <1>3, Zenon DEF FailureKeepsBlocks
<1>4. CASE /\ InStruct(mem) /\ (allocated => StringHasSpace(mem, name))
           /\ mem' = WithoutString(named, name, allocated)
           /\ fdt' = fdt
  <2>1. /\ fdt \in Nat /\ mem \in Mem /\ Writing(mem, fdt) /\ Layout(mem, fdt)
        /\ mem[fdt + 3] = mem[fdt + 1]
    BY <1>4, StructIsBegun
  <2>2. PICK total, off, strs, size : Sizes(mem, total, off, strs, size)
    BY <2>1, SizesAre
  <2>3. CASE ~allocated
    <3>1. mem' = mem
      BY <1>4, <2>3, Zenon DEF WithoutString
    <3> QED
      BY <1>3, <1>4, <3>1
  <2>4. CASE allocated
    <3>a. PICK top, start : top = off + size /\ start = fdt + total - strs
      OBVIOUS
    <3>1. mem' = StringDeleted(StringAdded(mem, name), name)
      BY <1>4, <2>4, Zenon DEF WithoutString
    <3>2. \A i \in 0..(MemSize - 1) :
             i < fdt + off + size \/ fdt + total - strs <= i => mem'[i] = mem[i]
      <4>a. PICK d : d = StringDeleted(StringAdded(mem, name), name)
        OBVIOUS
      <4>1. StringHasSpace(mem, name)
        BY <1>4, <2>4, Zenon
      <4>2. \A i \in 0..(MemSize - 1) :
               i < fdt + off + size \/ fdt + total - strs <= i => d[i] = mem[i]
        BY ONLY <1>2, <2>1, <2>2, <4>1, <4>a, StringWithdrawn
      <4> QED
        BY <3>1, <4>2, <4>a, Zenon
    <3>3. struct_top(mem) = top /\ size_dt_strings(mem) = strs /\ strtab(mem) - strs = start
      <4>1. mem[fdt + 1] = total /\ mem[fdt + 2] = off /\ mem[fdt + 6] = strs /\ mem[fdt + 7] = size
        BY <2>2, Zenon DEF Sizes
      <4>2. struct_top(mem) = off + size /\ size_dt_strings(mem) = strs /\ strtab(mem) = fdt + total
        BY <2>1, <4>1, FieldsAre, Zenon
      <4>3. fdt + total - strs = (fdt + total) - strs
        BY <2>2 DEF Sizes
      <4> QED
        BY <3>a, <4>2, <4>3, Zenon
    <3>4. \A j \in 1..top : mem'[fdt + j - 1] = mem[fdt + j - 1]
      <4>1. \A j \in 1..top : /\ fdt + j - 1 \in 0..(MemSize - 1)
                              /\ fdt + j - 1 < fdt + off + size
        BY <2>2, <3>a DEF Sizes
      <4> QED
        BY <3>2, <4>1, Zenon
    <3>5. \A j \in 1..strs : mem'[start + j - 1] = mem[start + j - 1]
      <4>1. \A j \in 1..strs : /\ start + j - 1 \in 0..(MemSize - 1)
                               /\ fdt + total - strs <= start + j - 1
        BY <2>2, <3>a DEF Sizes
      <4> QED
        BY <3>2, <4>1, Zenon
    <3>6. Cells(mem', fdt, top) = Cells(mem, fdt, top)
      BY <3>4 DEF Cells
    <3>7. Cells(mem', start, strs) = Cells(mem, start, strs)
      BY <3>5 DEF Cells
    <3> QED
      BY <1>4, <3>3, <3>6, <3>7, Zenon DEF FailureKeepsBlocks
  <2> QED
    BY <2>3, <2>4
<1> HIDE DEF allocated, named
<1> QED
  BY <1>1, <1>3, <1>4, Zenon DEF Refuse, Return

(* fdt_finish fails before it changes anything, or not at all. *)
LEMMA FinishFails ==
    ASSUME WriterInv, fdt # NULL, fdt_finish, ret' # "OK"
    PROVE  mem' = mem /\ fdt' = fdt
<1>a. PICK v : v = Relocated(Grabbed(mem, FDT_TAGSIZE, Word(FDT_END)))
  OBVIOUS
<1>1. CASE /\ InStruct(mem) /\ HasSpace(mem, FDT_TAGSIZE)
           /\ mem' = IF WalkEnds(v) THEN Completed(Corrected(v)) ELSE Corrected(v)
           /\ ret' = IF WalkEnds(v) THEN "OK" ELSE "BADSTRUCTURE"
           /\ UNCHANGED fdt
  <2>1. /\ mem \in Mem /\ Writing(mem, fdt) /\ Layout(mem, fdt)
        /\ mem[fdt + 3] = mem[fdt + 1]
    BY <1>1, StructIsBegun
  <2>2. PICK total, off, strs, size : Sizes(mem, total, off, strs, size)
    BY <2>1, SizesAre
  <2>3. WalkEnds(v)
    BY <1>1, <1>a, <2>1, <2>2, FinishedIsReached
  <2> QED
    BY <1>1, <2>3, Zenon
<1> QED
  BY <1>1, <1>a, Zenon DEF fdt_finish, Refuse

(* A call that fails leaves the structure and the strings as they were,    *)
(* and the blob where it was: the caller may move it to a larger buffer    *)
(* and repeat the call.                                                    *)
THEOREM FailuresAreHarmless == Spec => FailureChangesNothing
<1>1. WriterInv /\ [Next]_vars => [FailureKeepsBlocks]_vars
  <2>a. ASSUME ret' = "OK" \/ fdt = NULL PROVE FailureKeepsBlocks
    BY <2>a, Zenon DEF FailureKeepsBlocks
  <2>1. SUFFICES ASSUME WriterInv, Next, ret' # "OK", fdt # NULL
                 PROVE  FailureKeepsBlocks
    BY <2>a, Zenon
  <2>2. CASE mem' = mem /\ fdt' = fdt
    BY <2>2, Zenon DEF FailureKeepsBlocks
  <2>3. CASE \E b \in Buffers : fdt_resize(b)
    BY <2>1, <2>2, <2>3, Zenon DEF fdt_resize, Refuse
  <2>4. CASE \E r \in Reservations : fdt_add_reservemap_entry(r)
    BY <2>1, <2>2, <2>4, Zenon DEF fdt_add_reservemap_entry, Refuse, Return
  <2>5. CASE fdt_finish_reservemap
    BY <2>1, <2>2, <2>5, Zenon DEF fdt_finish_reservemap, Refuse, Return
  <2>6. CASE \E name \in Names : fdt_begin_node(name)
    BY <2>1, <2>2, <2>6, Zenon DEF fdt_begin_node, Refuse, Return
  <2>7. CASE fdt_end_node
    BY <2>1, <2>2, <2>7, Zenon DEF fdt_end_node, Refuse, Return
  <2>8. CASE \E name \in PropNames, value \in Values : fdt_property(name, value)
    BY <2>1, <2>8, PropertyFails
  <2>9. CASE fdt_finish
    BY <2>1, <2>2, <2>9, FinishFails
  <2> QED
    BY <2>1, <2>3, <2>4, <2>5, <2>6, <2>7, <2>8, <2>9, Zenon DEF Next
<1> QED
  BY <1>1, WriterInvHolds, PTL DEF Spec, FailureChangesNothing

----------------------------------------------------------------------------
(* What a reader finds *)

(* PieceAt, of the block at address at with the names behind address strs *)
PieceOf(m, at, strs, o) ==
    CASE m[at + o] = FDT_BEGIN_NODE ->
             [tag |-> "BEGIN_NODE", name |-> StringAt(m, at + o + FDT_TAGSIZE), value |-> << >>]
      [] m[at + o] = FDT_END_NODE ->
             [tag |-> "END_NODE", name |-> << >>, value |-> << >>]
      [] m[at + o] = FDT_PROP ->
             [tag |-> "PROP", name |-> StringAt(m, strs + m[at + o + 2 * FDT_TAGSIZE]),
              value |-> Cells(m, at + o + 3 * FDT_TAGSIZE, m[at + o + FDT_TAGSIZE])]

(* E is what is read from each offset of the chain on. *)
Reading(m, at, strs, size, T, e) ==
    /\ e \in [T -> Seq({PieceOf(m, at, strs, o) : o \in T})]
    /\ e[size] = << >>
    /\ \A o \in T \ {size}, next \in T :
          IsLink(m, at, T, o, next) =>
             e[o] = IF m[at + o] = FDT_NOP THEN e[next]
                    ELSE <<PieceOf(m, at, strs, o)>> \o e[next]

SamePieces(m, at, strs, n, to, strt, size, T) ==
    \A o \in T \ {size} :
        /\ n[to + o] = m[at + o]
        /\ m[at + o] # FDT_NOP => PieceOf(n, to, strt, o) = PieceOf(m, at, strs, o)

(* All that U has more lies behind. *)
Continues(T, size, U) == T \subseteq U /\ \A p \in U : p \in T \/ size < p

Then(e, size, h) == h[0] = e[0] \o h[size]

(* Of two blobs, the second with the chain of the first and perhaps more   *)
(* behind it, the second reads as the first and then the rest.             *)
LEMMA ReadingsAgree ==
    ASSUME NEW m, NEW at, NEW strs, NEW size \in Nat, NEW T, NEW e,
           IsChain(m, at, size, T), Reading(m, at, strs, size, T, e),
           NEW n, NEW to, NEW strt, NEW top \in Nat, NEW U, NEW h,
           IsChain(n, to, top, U), Reading(n, to, strt, top, U, h),
           Continues(T, size, U), SamePieces(m, at, strs, n, to, strt, size, T)
    PROVE  Then(e, size, h)
<1> DEFINE S == {PieceOf(m, at, strs, o) : o \in T} \cup {PieceOf(n, to, strt, o) : o \in U}
           Right(o) == h[o] = e[o] \o h[size]
           Bad == {o \in T : ~Right(o)}
<1>1. /\ T \subseteq 0..size /\ 0 \in T /\ size \in T
      /\ U \subseteq 0..top /\ T \subseteq U /\ \A p \in U : p \in T \/ size < p
  BY DEF IsChain, Continues
<1>2. /\ \A o \in T : e[o] \in Seq(S)
      /\ \A o \in U : h[o] \in Seq(S)
      /\ e[size] = << >>
  <2>1. \A A, B, s : s \in Seq(A) /\ A \subseteq B => s \in Seq(B)
    OBVIOUS
  <2>2. /\ \A o \in T : e[o] \in Seq({PieceOf(m, at, strs, x) : x \in T})
        /\ \A o \in U : h[o] \in Seq({PieceOf(n, to, strt, x) : x \in U})
        /\ e[size] = << >>
    BY DEF Reading
  <2>3. /\ {PieceOf(m, at, strs, x) : x \in T} \subseteq S
        /\ {PieceOf(n, to, strt, x) : x \in U} \subseteq S
    OBVIOUS
  <2> HIDE DEF S
  <2> QED
    BY <2>1, <2>2, <2>3
<1>3. Right(size)
  <2>1. h[size] \in Seq(S) /\ e[size] = << >>
    BY <1>1, <1>2
  <2> HIDE DEF S
  <2>2. \A s \in Seq(S) : << >> \o s = s
    OBVIOUS
  <2> QED
    BY <2>1, <2>2
<1>4. ASSUME NEW o \in T, ~Right(o)
      PROVE  \E p \in T : o < p /\ ~Right(p)
  <2>1. o # size
    BY <1>3, <1>4, Zenon
  <2>2. PICK next \in T : IsLink(m, at, T, o, next)
    BY <2>1 DEF IsChain
  <2>3. o \in Nat /\ next \in Nat /\ o < size /\ next <= size /\ o < top /\ o \in U
    BY <1>1, <2>1
  <2>4. PICK after \in U : IsLink(n, to, U, o, after)
    BY <2>3 DEF IsChain
  <2>5. after \in Nat
    BY <1>1
  <2>6. after = next
    <3>1. /\ o < next /\ \A p \in T : p <= o \/ next <= p
          /\ o < after /\ \A p \in U : p <= o \/ after <= p
      BY <2>2, <2>4, Zenon DEF IsLink
    <3>2. after <= next
      <4>1. next \in U /\ ~(next <= o)
        BY <1>1, <2>3, <3>1
      <4> QED
        BY <3>1, <4>1
    <3>3. after \in T
      BY <1>1, <2>3, <2>5, <3>2
    <3>4. next <= after
      <4>1. ~(after <= o)
        BY <2>3, <2>5, <3>1
      <4> QED
        BY <3>1, <3>3, <4>1
    <3> QED
      BY <2>3, <2>5, <3>2, <3>4
  <2>7. /\ n[to + o] = m[at + o]
        /\ m[at + o] # FDT_NOP => PieceOf(n, to, strt, o) = PieceOf(m, at, strs, o)
    BY <2>1 DEF SamePieces
  <2> DEFINE x == PieceOf(m, at, strs, o)
  <2>8. x \in S
    OBVIOUS
  <2>9. e[o] = IF m[at + o] = FDT_NOP THEN e[next] ELSE <<x>> \o e[next]
    BY <2>1, <2>2, Zenon DEF Reading
  <2>10. h[o] = IF m[at + o] = FDT_NOP THEN h[next] ELSE <<x>> \o h[next]
    <3>1. o \in U \ {top}
      BY <2>3
    <3>2. h[o] = IF n[to + o] = FDT_NOP THEN h[after]
                 ELSE <<PieceOf(n, to, strt, o)>> \o h[after]
      BY <2>4, <3>1, Zenon DEF Reading
    <3> QED
      BY <2>6, <2>7, <3>2, Zenon
  <2>11. e[next] \in Seq(S) /\ h[size] \in Seq(S)
    BY <1>1, <1>2
  <2> HIDE DEF S, x
  <2>12. ASSUME Right(next) PROVE Right(o)
    <3>1. \A s, t \in Seq(S) : <<x>> \o (s \o t) = (<<x>> \o s) \o t
      BY <2>8
    <3>2. h[next] = e[next] \o h[size]
      BY <2>12
    <3>3. <<x>> \o (e[next] \o h[size]) = (<<x>> \o e[next]) \o h[size]
      BY <2>11, <3>1
    <3> QED
      BY <2>9, <2>10, <3>2, <3>3, Zenon
  <2>13. o < next
    BY <2>2 DEF IsLink
  <2> HIDE DEF Right
  <2> QED
    BY <1>4, <2>12, <2>13
<1>5. Bad = {}
  <2> HIDE DEF Right
  <2>1. SUFFICES ASSUME Bad # {} PROVE FALSE
    OBVIOUS
  <2>2. Bad \subseteq 0..size
    BY <1>1
  <2>3. PICK k \in Bad : \A j \in Bad : j <= k
    BY <2>1, <2>2, GreatestOf
  <2>4. PICK p \in T : k < p /\ ~Right(p)
    BY <1>4, <2>3
  <2>5. p \in Bad /\ p \in Nat /\ k \in Nat
    BY <2>2, <2>4
  <2> QED
    BY <2>3, <2>4, <2>5
<1> QED
  BY <1>1, <1>5 DEF Then

(* The same tags, the same pieces *)
LEMMA ReadsTheSame ==
    ASSUME NEW m, NEW at, NEW strs, NEW size \in Nat, NEW T, NEW e,
           IsChain(m, at, size, T), Reading(m, at, strs, size, T, e),
           NEW n, NEW to, NEW strt, NEW h,
           IsChain(n, to, size, T), Reading(n, to, strt, size, T, h),
           SamePieces(m, at, strs, n, to, strt, size, T)
    PROVE  h[0] = e[0]
<1> DEFINE S == {PieceOf(m, at, strs, o) : o \in T}
<1>0. Continues(T, size, T)
  BY DEF Continues
<1>1. h[0] = e[0] \o h[size]
  <2> HIDE DEF S
  <2>1. Then(e, size, h)
    BY <1>0, ReadingsAgree
  <2> QED
    BY <2>1 DEF Then
<1>2. h[size] = << >> /\ e[0] \in Seq(S)
  BY DEF Reading, IsChain
<1> HIDE DEF S
<1>3. \A s \in Seq(S) : s \o << >> = s
  OBVIOUS
<1> QED
  BY <1>1, <1>2, <1>3

(* H reads one more piece than e. *)
Grows(m, at, strs, T, e, h, piece) ==
    h[0] = Append(e[0], piece) /\ e[0] \in Seq({PieceOf(m, at, strs, o) : o \in T})

(* One more tag, one more piece *)
LEMMA ReadsOneMore ==
    ASSUME NEW m, NEW at, NEW strs, NEW size \in Nat, NEW T, NEW e,
           IsChain(m, at, size, T), Reading(m, at, strs, size, T, e),
           NEW n, NEW to, NEW strt, NEW top \in Nat, size < top, NEW h,
           IsChain(n, to, top, T \cup {top}), Reading(n, to, strt, top, T \cup {top}, h),
           SamePieces(m, at, strs, n, to, strt, size, T),
           n[to + size] # FDT_NOP, NEW piece, PieceOf(n, to, strt, size) = piece
    PROVE  Grows(m, at, strs, T, e, h, piece)
<1> DEFINE U == T \cup {top}
           S == {PieceOf(m, at, strs, o) : o \in T}
<1>0. T \subseteq 0..size /\ size \in T /\ 0 \in T
  BY DEF IsChain
<1>1. h[0] = e[0] \o h[size]
  <2>1. Continues(T, size, U)
    BY DEF Continues
  <2> HIDE DEF U, S
  <2>2. IsChain(n, to, top, U) /\ Reading(n, to, strt, top, U, h)
    BY DEF U
  <2>3. Then(e, size, h)
    BY <2>1, <2>2, ReadingsAgree
  <2> QED
    BY <2>3 DEF Then
<1>2. h[size] = <<piece>>
  <2>1. size \in U \ {top}
    BY <1>0
  <2>2. PICK next \in U : IsLink(n, to, U, size, next)
    BY <2>1 DEF IsChain
  <2>3. next = top
    BY <1>0, <2>2 DEF IsLink
  <2>4. h[size] = <<piece>> \o h[top] /\ h[top] = << >>
    BY <2>1, <2>2, <2>3, Zenon DEF Reading
  <2>5. <<piece>> \o << >> = <<piece>>
    OBVIOUS
  <2> QED
    BY <2>4, <2>5
<1>3. e[0] \in Seq(S)
  BY <1>0 DEF Reading
<1> HIDE DEF S
<1>4. \A s \in Seq(S) : s \o <<piece>> = Append(s, piece)
  OBVIOUS
<1>5. h[0] = Append(e[0], piece)
  BY <1>1, <1>2, <1>3, <1>4
<1> QED
  BY <1>3, <1>5 DEF S, Grows

SameCells(m, a, n, b, len) == \A j \in 0..(len - 1) : n[b + j] = m[a + j]

LEMMA CellsSame ==
    ASSUME NEW m, NEW a \in Int, NEW n, NEW b \in Int, NEW len \in Int,
           SameCells(m, a, n, b, len)
    PROVE  Cells(n, b, len) = Cells(m, a, len)
<1>1. \A i \in 1..len : n[b + i - 1] = m[a + i - 1]
  <2>1. ASSUME NEW i \in 1..len PROVE n[b + i - 1] = m[a + i - 1]
    <3>1. i - 1 \in 0..(len - 1) /\ b + i - 1 = b + (i - 1) /\ a + i - 1 = a + (i - 1)
      OBVIOUS
    <3> QED
      BY <3>1 DEF SameCells
  <2> QED
    BY <2>1
<1> QED
  BY <1>1, Zenon DEF Cells

(* The same characters up to a terminator *)
LEMMA StringSame ==
    ASSUME NEW m, NEW a \in Nat, NEW n, NEW b \in Nat, NEW k \in Nat,
           a + k < MemSize, b + k < MemSize, m[a + k] = 0, SameCells(m, a, n, b, k + 1)
    PROVE  StringAt(n, b) = StringAt(m, a)
<1>0. \A j \in 0..k : n[b + j] = m[a + j]
  <2>1. (k + 1) - 1 = k
    OBVIOUS
  <2> QED
    BY <2>1 DEF SameCells
<1> DEFINE S == {j \in 0..k : m[a + j] = 0}
<1>1. S \subseteq Nat /\ k \in S
  OBVIOUS
<1>2. PICK z \in S : \A j \in S : z <= j
  BY <1>1, LeastOf, Zenon
<1>3. z \in 0..k /\ m[a + z] = 0 /\ \A j \in 0..k : m[a + j] = 0 => z <= j
  BY <1>2
<1> HIDE DEF S
<1> PICK c, d : c = a + z /\ d = b + z
  OBVIOUS
<1>4. NulFrom(m, a) = c
  <2>1. c \in Nat /\ a <= c /\ c < MemSize /\ m[c] = 0
    BY <1>3, TagSize
  <2>2. ASSUME NEW j \in a..(c - 1) PROVE m[j] # 0
    <3>1. j - a \in 0..k /\ a + (j - a) = j /\ ~(z <= j - a)
      BY <1>3
    <3> QED
      BY <1>3, <3>1
  <2> QED
    BY <2>1, <2>2, NulFromIs
<1>5. NulFrom(n, b) = d
  <2>1. d \in Nat /\ b <= d /\ d < MemSize /\ n[d] = 0
    BY <1>0, <1>3, TagSize
  <2>2. ASSUME NEW j \in b..(d - 1) PROVE n[j] # 0
    <3>1. j - b \in 0..k /\ b + (j - b) = j /\ ~(z <= j - b)
      BY <1>3
    <3> QED
      BY <1>0, <1>3, <3>1
  <2> QED
    BY <2>1, <2>2, NulFromIs
<1>6. Cells(n, b, z) = Cells(m, a, z)
  <2>1. SameCells(m, a, n, b, z)
    BY <1>0, <1>3 DEF SameCells
  <2> QED
    BY <1>3, <2>1, CellsSame
<1>7. c - a = z /\ d - b = z
  BY <1>3
<1> QED
  BY <1>4, <1>5, <1>6, <1>7, Zenon DEF StringAt

(* A string that was written is read. *)
LEMMA StringIs ==
    ASSUME NEW m, NEW a \in Nat, NEW s \in Seq(Nat \ {0}), NEW len, len = Len(s),
           a + len < MemSize, m[a + len] = 0, \A j \in 1..len : m[a + j - 1] = s[j]
    PROVE  StringAt(m, a) = s
<1>0. len \in Nat /\ MemSize \in Nat /\ \A j \in 1..len : s[j] # 0
  BY TagSize
<1> PICK z : z = a + len
  OBVIOUS
<1>1. NulFrom(m, a) = z
  <2>1. z \in Nat /\ a <= z /\ z < MemSize /\ m[z] = 0
    BY <1>0
  <2>2. ASSUME NEW j \in a..(z - 1) PROVE m[j] # 0
    <3>1. j - a + 1 \in 1..len /\ a + (j - a + 1) - 1 = j
      BY <1>0
    <3> QED
      BY <1>0, <3>1
  <2> QED
    BY <2>1, <2>2, NulFromIs
<1>2. Cells(m, a, len) = [i \in 1..len |-> s[i]]
  BY Zenon DEF Cells
<1>3. s = [i \in 1..len |-> s[i]]
  OBVIOUS
<1>4. z - a = len
  BY <1>0
<1> QED
  BY <1>1, <1>2, <1>3, <1>4, Zenon DEF StringAt

Begins(name)      == [tag |-> "BEGIN_NODE", name |-> name, value |-> << >>]
Ended             == [tag |-> "END_NODE", name |-> << >>, value |-> << >>]
Prop(name, value) == [tag |-> "PROP", name |-> name, value |-> value]

LEMMA PieceOfBegin ==
    ASSUME NEW m, NEW at, NEW strs, NEW o, m[at + o] = FDT_BEGIN_NODE
    PROVE  PieceOf(m, at, strs, o) = Begins(StringAt(m, at + o + FDT_TAGSIZE))
<1>1. FDT_BEGIN_NODE # FDT_END_NODE /\ FDT_BEGIN_NODE # FDT_PROP
  BY DEF FDT_BEGIN_NODE, FDT_END_NODE, FDT_PROP
<1> QED
  BY <1>1, Zenon DEF PieceOf, Begins

LEMMA PieceOfEnd ==
    ASSUME NEW m, NEW at, NEW strs, NEW o, m[at + o] = FDT_END_NODE
    PROVE  PieceOf(m, at, strs, o) = Ended
<1>1. FDT_BEGIN_NODE # FDT_END_NODE /\ FDT_END_NODE # FDT_PROP
  BY DEF FDT_BEGIN_NODE, FDT_END_NODE, FDT_PROP
<1> QED
  BY <1>1, Zenon DEF PieceOf, Ended

LEMMA PieceOfProp ==
    ASSUME NEW m, NEW at, NEW strs, NEW o, m[at + o] = FDT_PROP,
           NEW len, len = m[at + o + FDT_TAGSIZE], NEW a, a = at + o + 3 * FDT_TAGSIZE,
           NEW name, StringAt(m, strs + m[at + o + 2 * FDT_TAGSIZE]) = name
    PROVE  PieceOf(m, at, strs, o) = Prop(name, Cells(m, a, len))
<1>1. FDT_BEGIN_NODE # FDT_PROP /\ FDT_END_NODE # FDT_PROP
  BY DEF FDT_BEGIN_NODE, FDT_END_NODE, FDT_PROP
<1>2. PieceOf(m, at, strs, o) =
          Prop(StringAt(m, strs + m[at + o + 2 * FDT_TAGSIZE]),
               Cells(m, at + o + 3 * FDT_TAGSIZE, m[at + o + FDT_TAGSIZE]))
  BY <1>1, Zenon DEF PieceOf, Prop
<1> QED
  BY <1>2, Zenon

(* The cells of one block are those of the other, but for those of names' *)
(* offsets.                                                                *)
OnlyNamesDiffer(m, at, n, to, size, T) ==
    \A x \in 0..(size - 1) :
        \/ n[to + x] = m[at + x]
        \/ \E p \in T \ {size} : m[at + p] = FDT_PROP /\ x = p + 2 * FDT_TAGSIZE

KeepsTag(m, at, n, to, size, T, o, next) ==
    /\ IsLink(m, at, T, o, next) /\ o \in Nat /\ next \in Nat /\ o < next /\ next <= size
    /\ \A x \in o..(next - 1) :
          m[at + o] # FDT_PROP \/ x # o + 2 * FDT_TAGSIZE => n[to + x] = m[at + x]

(* Every property has the same name in both. *)
SameNames(m, at, strs, n, to, strt, size, T) ==
    \A o \in T \ {size} :
        m[at + o] = FDT_PROP =>
            StringAt(n, strt + n[to + o + 2 * FDT_TAGSIZE])
                = StringAt(m, strs + m[at + o + 2 * FDT_TAGSIZE])

(* The cells of a tag that is there, those of a property's name excepted,  *)
(* are not among the cells fdt_finish corrects.                            *)
LEMMA TagIsKept ==
    ASSUME NEW m, NEW at \in Int, NEW n, NEW to \in Int, NEW size \in Nat,
           NEW T, IsChain(m, at, size, T),
           OnlyNamesDiffer(m, at, n, to, size, T),
           NEW o \in T \ {size}
    PROVE  \E next \in T : KeepsTag(m, at, n, to, size, T, o, next)
<1>0. FDT_TAGSIZE \in Nat \ {0} /\ T \subseteq 0..size
  BY TagSize DEF IsChain
<1>1. PICK next \in T : IsLink(m, at, T, o, next)
  BY DEF IsChain
<1>2. o \in Nat /\ next \in Nat /\ o < next /\ next <= size
  BY <1>0, <1>1 DEF IsLink
<1>3. ASSUME NEW x \in o..(next - 1), m[at + o] # FDT_PROP \/ x # o + 2 * FDT_TAGSIZE
      PROVE  n[to + x] = m[at + x]
  <2>1. x \in 0..(size - 1)
    BY <1>2
  <2>2. ASSUME NEW p \in T \ {size}, m[at + p] = FDT_PROP, x = p + 2 * FDT_TAGSIZE
        PROVE  FALSE
    <3>1. PICK q \in T : IsLink(m, at, T, p, q)
      BY DEF IsChain
    <3>2. p \in Nat /\ q \in Nat
      BY <1>0
    <3>3. p + 3 * FDT_TAGSIZE <= q
      BY <2>2, <3>1, <3>2, NameIsInside DEF IsLink
    <3>4. (o <= p \/ q <= o) /\ (p <= o \/ next <= p)
      BY <1>1, <3>1 DEF IsLink
    <3>5. p # o
      BY <1>3, <2>2
    <3> QED
      BY <1>0, <1>2, <2>1, <2>2, <3>2, <3>3, <3>4, <3>5
  <2> QED
    BY <2>1, <2>2 DEF OnlyNamesDiffer
<1> QED
  BY <1>1, <1>2, <1>3 DEF KeepsTag

(* Two blobs with the same cells, and names at the same strings, have the  *)
(* same pieces.                                                            *)
LEMMA PiecesAreSame ==
    ASSUME NEW m, NEW at \in Nat, NEW strs, NEW size \in Nat, at + size <= MemSize,
           NEW T, IsChain(m, at, size, T),
           NEW n, NEW to \in Nat, NEW strt, to + size <= MemSize,
           OnlyNamesDiffer(m, at, n, to, size, T),
           SameNames(m, at, strs, n, to, strt, size, T)
    PROVE  SamePieces(m, at, strs, n, to, strt, size, T)
<1>0. FDT_TAGSIZE \in Nat \ {0} /\ MemSize \in Nat
  BY TagSize
<1>1. ASSUME NEW o \in T \ {size}
      PROVE  /\ n[to + o] = m[at + o]
             /\ m[at + o] # FDT_NOP => PieceOf(n, to, strt, o) = PieceOf(m, at, strs, o)
  <2>0. PICK next \in T : KeepsTag(m, at, n, to, size, T, o, next)
    BY TagIsKept
  <2>1. /\ IsLink(m, at, T, o, next) /\ o \in Nat /\ next \in Nat
        /\ o < next /\ next <= size
        /\ \A x \in o..(next - 1) :
              m[at + o] # FDT_PROP \/ x # o + 2 * FDT_TAGSIZE => n[to + x] = m[at + x]
    BY <2>0, Zenon DEF KeepsTag
  <2>2. n[to + o] = m[at + o]
    <3>1. o \in o..(next - 1) /\ o # o + 2 * FDT_TAGSIZE
      BY <1>0, <2>1
    <3> QED
      BY <2>1, <3>1
  <2>3. IsTag(m, at, o, next)
    BY <2>1 DEF IsLink
  <2>4. m[at + o] \in {FDT_BEGIN_NODE, FDT_END_NODE, FDT_PROP, FDT_NOP}
    BY <2>3, Zenon DEF IsTag
  <2>5. CASE m[at + o] = FDT_BEGIN_NODE
    <3>1. PICK z \in (o + FDT_TAGSIZE)..(next - 1) : m[at + z] = 0
      BY <2>3, <2>5 DEF IsTag, FDT_BEGIN_NODE, FDT_END_NODE, FDT_NOP, FDT_PROP
    <3> PICK a, b, k : a = at + o + FDT_TAGSIZE /\ b = to + o + FDT_TAGSIZE
                       /\ k = z - (o + FDT_TAGSIZE)
      OBVIOUS
    <3>2. /\ a \in Nat /\ b \in Nat /\ k \in Nat /\ a + k = at + z /\ b + k = to + z
          /\ a + k < MemSize /\ b + k < MemSize
      BY <1>0, <2>1
    <3>3. ASSUME NEW j \in 0..((k + 1) - 1) PROVE n[b + j] = m[a + j]
      <4>1. /\ (o + FDT_TAGSIZE) + j \in o..(next - 1)
            /\ b + j = to + ((o + FDT_TAGSIZE) + j) /\ a + j = at + ((o + FDT_TAGSIZE) + j)
        BY <1>0, <2>1
      <4>2. m[at + o] # FDT_PROP
        BY <2>5 DEF FDT_BEGIN_NODE, FDT_PROP
      <4> QED
        BY <2>1, <4>1, <4>2
    <3>4. SameCells(m, a, n, b, k + 1)
      BY <3>3, Zenon DEF SameCells
    <3>5. m[a + k] = 0
      BY <3>1, <3>2
    <3>6. StringAt(n, b) = StringAt(m, a)
      BY ONLY <3>2, <3>4, <3>5, StringSame
    <3>7. PieceOf(m, at, strs, o) = Begins(StringAt(m, a))
      BY <2>5, PieceOfBegin, Zenon
    <3>8. PieceOf(n, to, strt, o) = Begins(StringAt(n, b))
      BY <2>2, <2>5, PieceOfBegin, Zenon
    <3> QED
      BY <2>2, <3>6, <3>7, <3>8, Zenon
  <2>6. CASE m[at + o] = FDT_END_NODE
    BY <2>2, <2>6, PieceOfEnd, Zenon
  <2>7. CASE m[at + o] = FDT_PROP
    <3>1. /\ m[at + o + FDT_TAGSIZE] \in Nat
          /\ o + 3 * FDT_TAGSIZE + m[at + o + FDT_TAGSIZE] <= next
      BY <2>3, <2>7 DEF IsTag, FDT_BEGIN_NODE, FDT_END_NODE, FDT_NOP, FDT_PROP
    <3> PICK len : len = m[at + o + FDT_TAGSIZE]
      OBVIOUS
    <3>2. len \in Nat /\ o + 3 * FDT_TAGSIZE + len <= next
      BY <3>1
    <3>3. n[to + o + FDT_TAGSIZE] = len
      <4>1. /\ o + FDT_TAGSIZE \in o..(next - 1) /\ o + FDT_TAGSIZE # o + 2 * FDT_TAGSIZE
            /\ to + (o + FDT_TAGSIZE) = to + o + FDT_TAGSIZE
            /\ at + (o + FDT_TAGSIZE) = at + o + FDT_TAGSIZE
        BY <1>0, <2>1, <3>2
      <4>2. n[to + (o + FDT_TAGSIZE)] = m[at + (o + FDT_TAGSIZE)]
        BY <2>1, <4>1
      <4> QED
        BY <4>1, <4>2
    <3> PICK a, b : a = at + o + 3 * FDT_TAGSIZE /\ b = to + o + 3 * FDT_TAGSIZE
      OBVIOUS
    <3>4. ASSUME NEW j \in 0..(len - 1) PROVE n[b + j] = m[a + j]
      <4>1. /\ (o + 3 * FDT_TAGSIZE) + j \in o..(next - 1)
            /\ (o + 3 * FDT_TAGSIZE) + j # o + 2 * FDT_TAGSIZE
            /\ b + j = to + ((o + 3 * FDT_TAGSIZE) + j)
            /\ a + j = at + ((o + 3 * FDT_TAGSIZE) + j)
        BY <1>0, <2>1, <3>2
      <4> QED
        BY <2>1, <4>1
    <3>5. a \in Int /\ b \in Int /\ len \in Int /\ SameCells(m, a, n, b, len)
      <4>1. a \in Int /\ b \in Int /\ len \in Int
        BY <1>0, <2>1, <3>2
      <4> QED
        BY <3>4, <4>1, Zenon DEF SameCells
    <3>6. Cells(n, b, len) = Cells(m, a, len)
      BY ONLY <3>5, CellsSame
    <3> PICK name : name = StringAt(m, strs + m[at + o + 2 * FDT_TAGSIZE])
      OBVIOUS
    <3>7. StringAt(n, strt + n[to + o + 2 * FDT_TAGSIZE]) = name
      BY <2>7, Zenon DEF SameNames
    <3>8. PieceOf(m, at, strs, o) = Prop(name, Cells(m, a, len))
      <4>1. len = m[at + o + FDT_TAGSIZE] /\ a = at + o + 3 * FDT_TAGSIZE
            /\ StringAt(m, strs + m[at + o + 2 * FDT_TAGSIZE]) = name
        OBVIOUS
      <4> QED
        BY ONLY <2>7, <4>1, PieceOfProp
    <3>9. PieceOf(n, to, strt, o) = Prop(name, Cells(n, b, len))
      <4>1. len = n[to + o + FDT_TAGSIZE] /\ b = to + o + 3 * FDT_TAGSIZE
            /\ n[to + o] = FDT_PROP
        BY <2>2, <2>7, <3>3
      <4> QED
        BY ONLY <3>7, <4>1, PieceOfProp
    <3> QED
      BY <2>2, <3>6, <3>8, <3>9, Zenon
  <2> QED
    BY <2>2, <2>4, <2>5, <2>6, <2>7, Zenon
<1> QED
  BY <1>1, Zenon DEF SamePieces

LEMMA PieceAtIs ==
    ASSUME NEW at, at = fdt + off_dt_struct(mem), NEW o,
           mem[at + o] \in {FDT_BEGIN_NODE, FDT_END_NODE, FDT_PROP}
    PROVE  PieceAt(o) = PieceOf(mem, at, strings, o)
<1>1. FDT_BEGIN_NODE # FDT_END_NODE /\ FDT_BEGIN_NODE # FDT_PROP /\ FDT_END_NODE # FDT_PROP
  BY DEF FDT_BEGIN_NODE, FDT_END_NODE, FDT_PROP
<1>2. CASE mem[at + o] = FDT_BEGIN_NODE
  <2>1. PieceAt(o) = Begins(StringAt(mem, at + o + FDT_TAGSIZE))
    BY <1>1, <1>2, Zenon DEF PieceAt, Begins
  <2> QED
    BY <1>2, <2>1, PieceOfBegin, Zenon
<1>3. CASE mem[at + o] = FDT_END_NODE
  <2>1. PieceAt(o) = Ended
    BY <1>1, <1>3, Zenon DEF PieceAt, Ended
  <2> QED
    BY <1>3, <2>1, PieceOfEnd, Zenon
<1>4. CASE mem[at + o] = FDT_PROP
  <2> DEFINE len == mem[at + o + FDT_TAGSIZE]
             name == StringAt(mem, strings + mem[at + o + 2 * FDT_TAGSIZE])
             a == at + o + 3 * FDT_TAGSIZE
  <2>1. PieceAt(o) = Prop(name, Cells(mem, a, len))
    BY <1>1, <1>4, Zenon DEF PieceAt, Prop
  <2>2. /\ len = mem[at + o + FDT_TAGSIZE] /\ a = at + o + 3 * FDT_TAGSIZE
        /\ StringAt(mem, strings + mem[at + o + 2 * FDT_TAGSIZE]) = name
    OBVIOUS
  <2> HIDE DEF len, name, a
  <2>3. PieceOf(mem, at, strings, o) = Prop(name, Cells(mem, a, len))
    BY ONLY <1>4, <2>2, PieceOfProp
  <2> QED
    BY <2>1, <2>3
<1> QED
  BY <1>2, <1>3, <1>4

(* The walk over a chain reads it. *)
LEMMA PiecesOverChain ==
    ASSUME fdt \in Nat, NEW at \in Nat, at = fdt + off_dt_struct(mem),
           size_dt_struct(mem) \in Nat, at + size_dt_struct(mem) <= MemSize,
           NEW size \in Nat, size <= size_dt_struct(mem),
           NEW T, IsChain(mem, at, size, T), NextTag(mem, size).tag = FDT_END
    PROVE  \E e : Reading(mem, at, strings, size, T, e) /\ e[0] = pieces
<1> DEFINE N == size_dt_struct(mem) + FDT_TAGSIZE
           what == [o \in 0..N |-> PieceAt(o)]
<1>0. size <= size_dt_struct(mem) /\ N \in Nat /\ T \subseteq 0..size /\ T \subseteq 0..N
      /\ size \in T
  BY TagSize DEF IsChain
<1>1. \E f : f = [o \in 0..N |-> Walked(mem, what, f, o)]
  <2>1. PICK f : f = [o \in 0..N |-> Computed("walk", mem, what, f, o)]
    <3> HIDE DEF what
    <3> QED
      BY WalkExists
  <2>2. \A o \in 0..N : Computed("walk", mem, what, f, o) = Walked(mem, what, f, o)
    <3>1. "walk" # "ends" /\ "walk" # "props" /\ "walk" # "node"
      OBVIOUS
    <3> HIDE DEF N, what
    <3> QED
      BY <3>1, Zenon DEF Computed
  <2> HIDE DEF N, what
  <2>3. f = [o \in 0..N |-> Walked(mem, what, f, o)]
    BY <2>1, <2>2, Zenon
  <2> QED
    BY <2>3
<1>2. PICK from : /\ from = [o \in 0..N |-> Walked(mem, what, from, o)]
                  /\ pieces = from[0]
  <2> DEFINE body(f) == [o \in 0..N |-> Walked(mem, what, f, o)]
             plain(f) == [o \in 0..N |->
                            LET t == NextTag(mem, o)
                            IN  IF t.tag = FDT_END THEN << >>
                                ELSE IF t.tag = FDT_NOP THEN f[t.next]
                                ELSE <<PieceAt(o)>> \o f[t.next]]
             from == CHOOSE f : f = plain(f)
  <2>1. pieces = from[0]
    <3>1. fdt # NULL
      BY DEF NULL
    <3>2. pieces = Walk(mem, PieceAt)
      BY <3>1, Zenon DEF pieces
    <3> QED
      BY <3>2, Zenon DEF Walk
  <2>2. ASSUME NEW f PROVE body(f) = plain(f)
    <3>1. \A o \in 0..N : what[o] = PieceAt(o)
      OBVIOUS
    <3>2. \A o \in 0..N : Walked(mem, what, f, o) =
              LET t == NextTag(mem, o)
              IN  IF t.tag = FDT_END THEN << >>
                  ELSE IF t.tag = FDT_NOP THEN f[t.next]
                  ELSE <<PieceAt(o)>> \o f[t.next]
      <4> HIDE DEF N, what
      <4> QED
        BY <3>1, Zenon DEF Walked
    <3> HIDE DEF N, what
    <3> QED
      BY <3>2, Zenon
  <2>3. \E f : f = plain(f)
    <3> HIDE DEF plain
    <3> QED
      BY <1>1, <2>2, Zenon
  <2> HIDE DEF plain
  <2>4. from = plain(from)
    BY <2>3, Zenon
  <2> HIDE DEF from
  <2>5. from = body(from)
    BY <2>2, <2>4, Zenon
  <2> QED
    BY <2>1, <2>5, Zenon
<1> HIDE DEF what
<1>3. \A o \in T : from[o] = Walked(mem, what, from, o)
  <2> HIDE DEF N
  <2>1. \A o \in 0..N : from[o] = Walked(mem, what, from, o)
    BY <1>2, Zenon
  <2> QED
    BY <1>0, <2>1
<1> DEFINE S == {PieceOf(mem, at, strings, o) : o \in T}
           Right(o) == from[o] \in Seq(S)
           Bad == {o \in T : ~Right(o)}
<1>4. from[size] = << >>
  <2>1. from[size] = Walked(mem, what, from, size)
    BY <1>0, <1>3
  <2>2. Walked(mem, what, from, size) = << >>
    BY Zenon DEF Walked
  <2> QED
    BY <2>1, <2>2
<1>5. ASSUME NEW o \in T \ {size}
      PROVE  \E next \in T :
                /\ o < next /\ IsLink(mem, at, T, o, next)
                /\ from[o] = IF mem[at + o] = FDT_NOP THEN from[next]
                             ELSE <<PieceOf(mem, at, strings, o)>> \o from[next]
  <2>1. PICK next \in T : /\ IsLink(mem, at, T, o, next)
                          /\ NextTag(mem, o) = [tag |-> mem[at + o], next |-> next]
                          /\ mem[at + o] # FDT_END
    BY <1>0, ChainTags
  <2>2. NextTag(mem, o).next = next /\ NextTag(mem, o).tag = mem[at + o]
    BY <2>1
  <2>3. what[o] = PieceAt(o)
    BY <1>0 DEF what
  <2>4. mem[at + o] # FDT_NOP => PieceAt(o) = PieceOf(mem, at, strings, o)
    <3>1. mem[at + o] # FDT_NOP => mem[at + o] \in {FDT_BEGIN_NODE, FDT_END_NODE, FDT_PROP}
      BY <2>1, Zenon DEF IsLink, IsTag
    <3>2. at = fdt + off_dt_struct(mem)
      OBVIOUS
    <3>3. ASSUME mem[at + o] \in {FDT_BEGIN_NODE, FDT_END_NODE, FDT_PROP}
          PROVE  PieceAt(o) = PieceOf(mem, at, strings, o)
      BY ONLY <3>2, <3>3, PieceAtIs
    <3> QED
      BY <3>1, <3>3
  <2>5. from[o] = Walked(mem, what, from, o)
    BY <1>3
  <2>6. from[o] = IF mem[at + o] = FDT_NOP THEN from[next] ELSE <<what[o]>> \o from[next]
    BY <2>1, <2>2, <2>5, Zenon DEF Walked
  <2>7. from[o] = IF mem[at + o] = FDT_NOP THEN from[next]
                  ELSE <<PieceOf(mem, at, strings, o)>> \o from[next]
    BY <2>3, <2>4, <2>6, Zenon
  <2>8. o < next
    BY <2>1, Zenon DEF IsLink
  <2> QED
    BY <2>1, <2>7, <2>8, Zenon
<1>6. Bad = {}
  <2>1. SUFFICES ASSUME Bad # {} PROVE FALSE
    OBVIOUS
  <2>2. Bad \subseteq 0..size
    BY <1>0
  <2>3. PICK k \in Bad : \A j \in Bad : j <= k
    BY <2>1, <2>2, GreatestOf
  <2>4. k # size
    <3>1. << >> \in Seq(S)
      OBVIOUS
    <3> QED
      BY <1>4, <2>3, <3>1, Zenon
  <2>5. PICK p \in T :
                /\ k < p
                /\ from[k] = IF mem[at + k] = FDT_NOP THEN from[p]
                             ELSE <<PieceOf(mem, at, strings, k)>> \o from[p]
    BY <1>5, <2>4
  <2>6. Right(p)
    <3>1. p \in Nat /\ k \in Nat
      BY <1>0, <2>2
    <3>2. p \notin Bad
      BY <2>3, <2>5, <3>1
    <3> QED
      BY <3>2, Zenon
  <2>7. Right(k)
    <3>1. PieceOf(mem, at, strings, k) \in S
      OBVIOUS
    <3> PICK x : x = PieceOf(mem, at, strings, k)
      OBVIOUS
    <3> HIDE DEF S
    <3>2. \A s \in Seq(S) : <<x>> \o s \in Seq(S)
      BY <3>1
    <3> QED
      BY <2>5, <2>6, <3>2, Zenon
  <2> QED
    BY <2>3, <2>7, Zenon
<1> DEFINE e == [o \in T |-> from[o]]
<1>7. e \in [T -> Seq(S)]
  <2>1. \A o \in T : from[o] \in Seq(S)
    BY <1>6, Zenon
  <2> HIDE DEF S
  <2> QED
    BY <2>1
<1>8. e[size] = << >> /\ e[0] = pieces
  <2>1. 0 \in T
    BY DEF IsChain
  <2> QED
    BY <1>0, <1>2, <1>4, <2>1
<1>9. ASSUME NEW o \in T \ {size}, NEW next \in T, IsLink(mem, at, T, o, next)
      PROVE  e[o] = IF mem[at + o] = FDT_NOP THEN e[next]
                    ELSE <<PieceOf(mem, at, strings, o)>> \o e[next]
  <2>1. PICK after \in T :
                /\ o < after /\ IsLink(mem, at, T, o, after)
                /\ from[o] = IF mem[at + o] = FDT_NOP THEN from[after]
                             ELSE <<PieceOf(mem, at, strings, o)>> \o from[after]
    BY <1>5
  <2>2. after = next
    <3>1. o \in Nat /\ next \in Nat /\ after \in Nat
      BY <1>0
    <3>2. /\ o < next /\ \A p \in T : p <= o \/ next <= p
          /\ o < after /\ \A p \in T : p <= o \/ after <= p
      BY <1>9, <2>1, Zenon DEF IsLink
    <3> QED
      BY <3>1, <3>2
  <2>3. e[o] = from[o] /\ e[next] = from[next]
    OBVIOUS
  <2> HIDE DEF e
  <2> QED
    BY <2>1, <2>2, <2>3, Zenon
<1> HIDE DEF e, S
<1>10. Reading(mem, at, strings, size, T, e)
  BY <1>7, <1>8, <1>9, Zenon DEF Reading, S
<1> QED
  BY <1>8, <1>10, Zenon

(* Where a blob has its tags, up to FDT_END, and its names *)
HasBlock(m, f, at, strs, size) ==
    /\ at = f + m[f + 2] /\ size \in Nat
    /\ \/ m[f] = FDT_SW_MAGIC /\ size = m[f + 7] /\ strs = f + m[f + 1]
       \/ /\ m[f] = FDT_MAGIC /\ size + FDT_TAGSIZE = m[f + 7] /\ m[at + size] = FDT_END
          /\ strs = f + m[f + 3]

(* The pieces of the blob are what is read from its tags. *)
PiecesAreRead ==
    fdt # NULL =>
        \A at, strs, size, T :
            HasBlock(mem, fdt, at, strs, size) /\ IsChain(mem, at, size, T) =>
                \E e : Reading(mem, at, strs, size, T, e) /\ e[0] = pieces

LEMMA PiecesRead == WriterInv => PiecesAreRead
<1> SUFFICES ASSUME WriterInv, fdt # NULL, NEW at, NEW strs, NEW size, NEW T,
                    HasBlock(mem, fdt, at, strs, size), IsChain(mem, at, size, T)
             PROVE  \E e : Reading(mem, at, strs, size, T, e) /\ e[0] = pieces
  BY Zenon DEF PiecesAreRead
<1>1. fdt \in Nat
  BY TagSize, ConstantsAreTyped DEF WriterInv
<1>2. /\ Field(mem, "magic") = mem[fdt] /\ totalsize(mem) = mem[fdt + 1]
      /\ off_dt_struct(mem) = mem[fdt + 2] /\ off_dt_strings(mem) = mem[fdt + 3]
      /\ size_dt_struct(mem) = mem[fdt + 7]
  BY <1>1, FieldsAre
<1>3. at = fdt + off_dt_struct(mem) /\ size \in Nat
  BY <1>2 DEF HasBlock
<1>4. CASE mem[fdt] = FDT_SW_MAGIC
  <2>1. Layout(mem, fdt)
    BY <1>4 DEF WriterInv, Writing, Finished, FDT_SW_MAGIC, FDT_MAGIC
  <2>2. PICK total, off, s, z : Sizes(mem, total, off, s, z)
    BY <2>1, SizesAre
  <2>3. size = mem[fdt + 7] /\ strs = fdt + mem[fdt + 1]
    BY <1>4 DEF HasBlock, FDT_SW_MAGIC, FDT_MAGIC
  <2>4. /\ at \in Nat /\ size_dt_struct(mem) \in Nat /\ at + size_dt_struct(mem) <= MemSize
        /\ size = size_dt_struct(mem)
    BY <1>2, <1>3, <2>2, <2>3 DEF Sizes
  <2>5. NextTag(mem, size).tag = FDT_END
    <3>1. size + FDT_TAGSIZE > size_dt_struct(mem)
      BY <1>3, <2>4, TagSize
    <3>2. NextTag(mem, size) = [tag |-> FDT_END, next |-> NULL]
      BY <3>1, Zenon DEF NextTag
    <3> QED
      BY <3>2
  <2>6. strings = strs
    <3>1. ~IsComplete
      BY <1>2, <1>4 DEF IsComplete, FDT_SW_MAGIC, FDT_MAGIC
    <3> QED
      BY <1>2, <2>3, <3>1, Zenon DEF strings
  <2>7. size <= size_dt_struct(mem)
    BY <2>4
  <2> QED
    BY <1>1, <1>3, <2>4, <2>5, <2>6, <2>7, PiecesOverChain
<1>5. CASE mem[fdt] # FDT_SW_MAGIC
  <2>1. Finished(mem, fdt)
    BY <1>5 DEF WriterInv, Writing
  <2>2. /\ mem[fdt] = FDT_MAGIC /\ size + FDT_TAGSIZE = mem[fdt + 7] /\ mem[at + size] = FDT_END
        /\ strs = fdt + mem[fdt + 3]
    BY <1>5 DEF HasBlock
  <2>3. /\ mem[fdt + 2] \in Nat /\ mem[fdt + 6] \in Nat
        /\ mem[fdt + 3] = mem[fdt + 2] + mem[fdt + 7]
        /\ mem[fdt + 3] + mem[fdt + 6] = mem[fdt + 1]
        /\ fdt + mem[fdt + 1] <= MemSize
    BY <2>1, Zenon DEF Finished
  <2>4. /\ at \in Nat /\ size_dt_struct(mem) \in Nat /\ at + size_dt_struct(mem) <= MemSize
        /\ size + FDT_TAGSIZE = size_dt_struct(mem) /\ size <= size_dt_struct(mem)
    BY <1>1, <1>2, <1>3, <2>2, <2>3, TagSize
  <2>5. NextTag(mem, size).tag = FDT_END
    BY <1>3, <2>2, <2>4, EndTag
  <2>6. strings = strs
    <3>1. IsComplete
      BY <1>2, <2>2 DEF IsComplete
    <3> QED
      BY <1>2, <2>2, <3>1, Zenon DEF strings
  <2> QED
    BY <1>1, <1>3, <2>4, <2>5, <2>6, PiecesOverChain
<1> QED
  BY <1>4, <1>5

----------------------------------------------------------------------------
(* The reservations *)

(* Where entry i of the reservations begins *)
EntryAt(f, i) == f + HeaderSize + ReserveSize * (i - 1)

Entries(m, f, n) == [i \in 1..n |-> Cells(m, EntryAt(f, i), ReserveSize)]

(* N reservations are written, none of size 0; when they are finished an   *)
(* entry of size 0 is behind them.                                         *)
HasReserved(m, f, n) ==
    /\ n \in Nat /\ m[f + 4] = HeaderSize
    /\ \A i \in 1..n : m[f + 2 * i + 7] # 0
    /\ m[f + 3] = 0 => m[f + 2] = 2 * n + 8
    /\ m[f + 3] # 0 => m[f + 2] = 2 * n + 10 /\ m[f + 2 * n + 9] = 0

StageOf(m, f) ==
    IF m[f] = FDT_MAGIC THEN "complete" ELSE IF m[f + 3] = 0 THEN "memrsv" ELSE "struct"

LEMMA EntryCells ==
    ASSUME NEW m, NEW f \in Nat, NEW i \in Nat
    PROVE  /\ EntryAt(f, i) = f + 2 * i + 6
           /\ Cells(m, EntryAt(f, i), ReserveSize)[2] = m[f + 2 * i + 7]
<1>1. EntryAt(f, i) = f + 2 * i + 6
  BY DEF EntryAt, HeaderSize, ReserveSize
<1> PICK a : a = EntryAt(f, i)
  OBVIOUS
<1>2. Cells(m, a, ReserveSize)[2] = m[a + 2 - 1]
  BY DEF Cells, ReserveSize
<1>3. a + 2 - 1 = f + 2 * i + 7
  BY <1>1
<1> QED
  BY <1>1, <1>2, <1>3

(* What a reader counts up to the entry of size 0 *)
LEMMA ReservedUpToIs ==
    ASSUME fdt \in Nat, off_mem_rsvmap(mem) = HeaderSize, NEW n \in Nat,
           \A i \in 1..n : mem[fdt + 2 * i + 7] # 0, mem[fdt + 2 * n + 9] = 0
    PROVE  ReservedUpTo(n + 1) = Entries(mem, fdt, n)
<1> DEFINE entry(i) == Cells(mem, EntryAt(fdt, i), ReserveSize)
           S == {n + 1 + 1} \cup {i \in 1..(n + 1) : entry(i)[2] = 0}
<1>1. ASSUME NEW i \in 1..(n + 1) PROVE entry(i)[2] = 0 <=> i = n + 1
  <2>1. entry(i)[2] = mem[fdt + 2 * i + 7]
    BY EntryCells
  <2>2. i = n + 1 \/ i \in 1..n
    OBVIOUS
  <2>3. fdt + 2 * (n + 1) + 7 = fdt + 2 * n + 9
    OBVIOUS
  <2>4. i \in 1..n => i # n + 1
    OBVIOUS
  <2> HIDE DEF entry
  <2>5. CASE i = n + 1
    BY <2>1, <2>3, <2>5
  <2>6. CASE i \in 1..n
    BY <2>1, <2>4, <2>6
  <2> QED
    BY <2>2, <2>5, <2>6
<1>2. S = {n + 2, n + 1}
  <2>1. n + 1 \in 1..(n + 1) /\ n + 1 + 1 = n + 2
    OBVIOUS
  <2> HIDE DEF entry
  <2> QED
    BY <1>1, <2>1
<1>3. Min(S) = n + 1
  <2> HIDE DEF S
  <2>1. Min(S) = CHOOSE x \in S : \A y \in S : x <= y
    BY Zenon DEF Min
  <2>2. n + 1 \in S /\ \A y \in S : n + 1 <= y
    BY <1>2
  <2>3. \A x \in S : (\A y \in S : x <= y) => x = n + 1
    BY <1>2
  <2> QED
    BY <2>1, <2>2, <2>3, Zenon
<1>4. ReservedUpTo(n + 1) = [i \in 1..(Min(S) - 1) |-> entry(i)]
  BY Zenon DEF ReservedUpTo, EntryAt
<1>5. Min(S) - 1 = n
  BY <1>3
<1> HIDE DEF S
<1> QED
  BY <1>4, <1>5, Zenon DEF Entries

(* The stage and the reservations, as the header tells them *)
HeaderIsRead ==
    fdt # NULL =>
        /\ stage = StageOf(mem, fdt)
        /\ \A n : HasReserved(mem, fdt, n) => reserved = Entries(mem, fdt, n)

LEMMA HeaderRead == WriterInv => HeaderIsRead
<1> SUFFICES ASSUME WriterInv, fdt # NULL
             PROVE  /\ stage = StageOf(mem, fdt)
                    /\ \A n : HasReserved(mem, fdt, n) => reserved = Entries(mem, fdt, n)
  BY Zenon DEF HeaderIsRead
<1>1. fdt \in Nat
  BY TagSize, ConstantsAreTyped DEF WriterInv
<1>2. /\ Field(mem, "magic") = mem[fdt] /\ totalsize(mem) = mem[fdt + 1]
      /\ off_dt_struct(mem) = mem[fdt + 2] /\ off_dt_strings(mem) = mem[fdt + 3]
      /\ off_mem_rsvmap(mem) = mem[fdt + 4]
  BY <1>1, FieldsAre
<1>3. \/ mem[fdt] = FDT_MAGIC /\ mem[fdt + 3] # 0
      \/ mem[fdt] = FDT_SW_MAGIC /\ mem[fdt + 3] \in {0, mem[fdt + 1]} /\ mem[fdt + 1] # 0
  <2>1. CASE Writing(mem, fdt)
    BY <2>1, LayoutIsInside DEF Writing, Layout
  <2>2. CASE Finished(mem, fdt)
    <3>1. /\ mem[fdt] = FDT_MAGIC /\ mem[fdt + 2] \in Nat
          /\ mem[fdt + 3] = mem[fdt + 2] + mem[fdt + 7]
          /\ \E size \in Nat : size + FDT_TAGSIZE = mem[fdt + 7]
      BY <2>2, Zenon DEF Finished
    <3> QED
      BY <3>1, TagSize
  <2> QED
    BY <2>1, <2>2 DEF WriterInv
<1>4. FDT_MAGIC # FDT_SW_MAGIC
  BY DEF FDT_MAGIC, FDT_SW_MAGIC
<1>5. /\ IsComplete <=> mem[fdt] = FDT_MAGIC
      /\ InMemrsv(mem) <=> mem[fdt] = FDT_SW_MAGIC /\ mem[fdt + 3] = 0
      /\ InStruct(mem) <=> mem[fdt] = FDT_SW_MAGIC /\ mem[fdt + 3] = mem[fdt + 1]
  BY <1>2, Zenon DEF IsComplete, InMemrsv, InStruct
<1>6. stage = StageOf(mem, fdt)
  BY <1>3, <1>4, <1>5, Zenon DEF stage, StageOf
<1>7. ASSUME NEW n, HasReserved(mem, fdt, n)
      PROVE  reserved = Entries(mem, fdt, n)
  <2> DEFINE room == (off_dt_struct(mem) - off_mem_rsvmap(mem)) \div ReserveSize
  <2>1. n \in Nat /\ off_mem_rsvmap(mem) = HeaderSize /\ mem[fdt + 4] = 8
    BY <1>2, <1>7 DEF HasReserved, HeaderSize
  <2>2. reserved = IF stage = "memrsv"
                   THEN [i \in 1..room |->
                          Cells(mem, fdt + off_mem_rsvmap(mem) + ReserveSize * (i - 1), ReserveSize)]
                   ELSE ReservedUpTo(room)
    BY Zenon DEF reserved
  <2>3. CASE mem[fdt + 3] = 0
    <3>1. stage = "memrsv"
      BY <1>3, <1>4, <1>6, <2>3 DEF StageOf
    <3>2. mem[fdt + 2] = 2 * n + 8
      BY <1>7, <2>3 DEF HasReserved
    <3>3. room = n
      <4>1. off_dt_struct(mem) - off_mem_rsvmap(mem) = n * 2
        <5>1. off_dt_struct(mem) = 2 * n + 8 /\ off_mem_rsvmap(mem) = 8
          BY <1>2, <2>1, <3>2, Zenon
        <5> QED
          BY <2>1, <5>1
      <4>2. \A k \in Nat : (k * 2) \div 2 = k
        OBVIOUS
      <4> QED
        BY <2>1, <4>1, <4>2 DEF ReserveSize
    <3> HIDE DEF room
    <3> QED
      BY <2>1, <2>2, <3>1, <3>3, Zenon DEF Entries, EntryAt
  <2>4. CASE mem[fdt + 3] # 0
    <3>1. stage # "memrsv"
      BY <1>6, <2>4 DEF StageOf
    <3>2. mem[fdt + 2] = 2 * n + 10 /\ mem[fdt + 2 * n + 9] = 0
      BY <1>7, <2>4 DEF HasReserved
    <3>3. room = n + 1
      <4>1. off_dt_struct(mem) - off_mem_rsvmap(mem) = (n + 1) * 2
        <5>1. off_dt_struct(mem) = 2 * n + 10 /\ off_mem_rsvmap(mem) = 8
          BY <1>2, <2>1, <3>2, Zenon
        <5> QED
          BY <2>1, <5>1
      <4>2. \A k \in Nat : (k * 2) \div 2 = k
        OBVIOUS
      <4> QED
        BY <2>1, <4>1, <4>2 DEF ReserveSize
    <3> HIDE DEF room
    <3>4. ReservedUpTo(n + 1) = Entries(mem, fdt, n)
      BY <1>1, <1>7, <2>1, <3>2, ReservedUpToIs DEF HasReserved
    <3> QED
      BY <2>2, <3>1, <3>3, <3>4
  <2> QED
    BY <2>3, <2>4
<1> QED
  BY <1>6, <1>7

----------------------------------------------------------------------------
(* Blobs that stand for the same tree *)

SameStrings(m, base, n, end, strs) == \A y \in 1..strs : n[end - y] = m[base - y]

(* In the second block the names' offsets lead to where they led. *)
NamesFollow(m, at, n, to, strt, end, size, T) ==
    \A o \in T \ {size} :
        m[at + o] = FDT_PROP =>
            strt + n[to + o + 2 * FDT_TAGSIZE] = end + m[at + o + 2 * FDT_TAGSIZE]

LEMMA NamesAreSame ==
    ASSUME NEW m, NEW at, NEW size, NEW T, NEW strs \in Nat,
           NamesAreIn(m, at, size, T, -strs, -1),
           NEW base \in Nat, strs <= base, base <= MemSize, strs # 0 => m[base - 1] = 0,
           NEW n, NEW to, NEW strt, NEW end \in Nat, strs <= end, end <= MemSize,
           SameStrings(m, base, n, end, strs), NamesFollow(m, at, n, to, strt, end, size, T)
    PROVE  SameNames(m, at, base, n, to, strt, size, T)
<1>1. ASSUME NEW o \in T \ {size}, m[at + o] = FDT_PROP
      PROVE  StringAt(n, strt + n[to + o + 2 * FDT_TAGSIZE])
                = StringAt(m, base + m[at + o + 2 * FDT_TAGSIZE])
  <2> PICK v : v = m[at + o + 2 * FDT_TAGSIZE]
    OBVIOUS
  <2>1. v \in -strs..-1
    BY <1>1 DEF NamesAreIn
  <2>2. strt + n[to + o + 2 * FDT_TAGSIZE] = end + v
    BY <1>1 DEF NamesFollow
  <2> PICK a, b, k : a = base + v /\ b = end + v /\ k = -v - 1
    OBVIOUS
  <2>3. /\ a \in Nat /\ b \in Nat /\ k \in Nat /\ a + k < MemSize /\ b + k < MemSize
        /\ a + k = base - 1 /\ strs # 0
    BY <2>1, TagSize
  <2>4. m[a + k] = 0
    BY <2>3
  <2>5. ASSUME NEW j \in 0..((k + 1) - 1) PROVE n[b + j] = m[a + j]
    <3>1. -v - j \in 1..strs /\ end - (-v - j) = b + j /\ base - (-v - j) = a + j
      BY <2>1
    <3> QED
      BY <3>1 DEF SameStrings
  <2>6. SameCells(m, a, n, b, k + 1)
    BY <2>5, Zenon DEF SameCells
  <2>7. StringAt(n, b) = StringAt(m, a)
    BY ONLY <2>3, <2>4, <2>6, StringSame
  <2> QED
    BY <2>2, <2>7
<1> QED
  BY <1>1, Zenon DEF SameNames

LEMMA NamesStay ==
    ASSUME NEW m, NEW at \in Int, NEW size \in Nat, NEW T, IsChain(m, at, size, T),
           NEW n, NEW to \in Int, SameCells(m, at, n, to, size), NEW end
    PROVE  NamesFollow(m, at, n, to, end, end, size, T)
<1>1. ASSUME NEW o \in T \ {size}, m[at + o] = FDT_PROP
      PROVE  n[to + o + 2 * FDT_TAGSIZE] = m[at + o + 2 * FDT_TAGSIZE]
  <2>1. PICK next \in T : IsLink(m, at, T, o, next)
    BY DEF IsChain
  <2>2. o \in Nat /\ next \in Nat /\ next <= size /\ IsTag(m, at, o, next)
    BY <2>1 DEF IsChain, IsLink
  <2>3. o + 3 * FDT_TAGSIZE <= next
    BY <1>1, <2>2, NameIsInside
  <2>4. /\ o + 2 * FDT_TAGSIZE \in 0..(size - 1)
        /\ to + (o + 2 * FDT_TAGSIZE) = to + o + 2 * FDT_TAGSIZE
        /\ at + (o + 2 * FDT_TAGSIZE) = at + o + 2 * FDT_TAGSIZE
    BY <2>2, <2>3, TagSize
  <2>5. n[to + (o + 2 * FDT_TAGSIZE)] = m[at + (o + 2 * FDT_TAGSIZE)]
    BY <2>4 DEF SameCells
  <2> QED
    BY <2>4, <2>5
<1> QED
  BY <1>1, Zenon DEF NamesFollow

(* The same tags and the same strings, wherever they are *)
LEMMA BlocksReadTheSame ==
    ASSUME NEW m, NEW at \in Nat, NEW size \in Nat, at + size <= MemSize,
           NEW T, IsChain(m, at, size, T), NEW strs \in Nat,
           NamesAreIn(m, at, size, T, -strs, -1),
           NEW base \in Nat, strs <= base, base <= MemSize, strs # 0 => m[base - 1] = 0,
           NEW n, NEW to \in Nat, to + size <= MemSize, SameCells(m, at, n, to, size),
           NEW end \in Nat, strs <= end, end <= MemSize, SameStrings(m, base, n, end, strs)
    PROVE  SamePieces(m, at, base, n, to, end, size, T) /\ IsChain(n, to, size, T)
<1>1. NamesFollow(m, at, n, to, end, end, size, T)
  BY NamesStay
<1>2. SameNames(m, at, base, n, to, end, size, T)
  BY <1>1, NamesAreSame
<1>3. OnlyNamesDiffer(m, at, n, to, size, T)
  BY Zenon DEF OnlyNamesDiffer, SameCells
<1>4. SamePieces(m, at, base, n, to, end, size, T)
  BY <1>2, <1>3, PiecesAreSame
<1>5. IsChain(n, to, size, T)
  <2>1. \A x \in 0..(size - 1) : n[to + x] = m[at + x]
    BY Zenon DEF SameCells
  <2>2. at \in Int /\ to \in Int
    OBVIOUS
  <2> QED
    BY ONLY IsChain(m, at, size, T), size \in Nat, <2>1, <2>2, ChainSurvives
<1> QED
  BY <1>4, <1>5

(* The blob at g stands for the pieces that the blob at f stands for. *)
KeepsPieces(m, f, n, g) ==
    \E at, strs, size, T, to, strt :
        /\ HasBlock(m, f, at, strs, size) /\ IsChain(m, at, size, T)
        /\ HasBlock(n, g, to, strt, size) /\ IsChain(n, to, size, T)
        /\ SamePieces(m, at, strs, n, to, strt, size, T)

(* It stands for these and one more. *)
AddsPiece(m, f, n, g, piece) ==
    \E at, strs, size, T, to, strt, top :
        /\ HasBlock(m, f, at, strs, size) /\ IsChain(m, at, size, T)
        /\ HasBlock(n, g, to, strt, top) /\ IsChain(n, to, top, T \cup {top})
        /\ size < top /\ SamePieces(m, at, strs, n, to, strt, size, T)
        /\ n[to + size] # FDT_NOP /\ PieceOf(n, to, strt, size) = piece

LEMMA PiecesKept ==
    ASSUME PiecesAreRead, PiecesAreRead', fdt # NULL, fdt' # NULL,
           KeepsPieces(mem, fdt, mem', fdt')
    PROVE  pieces' = pieces
<1>1. PICK at, strs, size, T, to, strt :
          /\ HasBlock(mem, fdt, at, strs, size) /\ IsChain(mem, at, size, T)
          /\ HasBlock(mem', fdt', to, strt, size) /\ IsChain(mem', to, size, T)
          /\ SamePieces(mem, at, strs, mem', to, strt, size, T)
  BY Zenon DEF KeepsPieces
<1>2. PICK e : Reading(mem, at, strs, size, T, e) /\ e[0] = pieces
  BY <1>1, Zenon DEF PiecesAreRead
<1>3. PICK h : Reading(mem', to, strt, size, T, h) /\ h[0] = pieces'
  BY <1>1, Zenon DEF PiecesAreRead
<1>4. size \in Nat
  BY <1>1, Zenon DEF HasBlock
<1>5. h[0] = e[0]
  BY <1>1, <1>2, <1>3, <1>4, ReadsTheSame
<1> QED
  BY <1>2, <1>3, <1>5

LEMMA PieceAdded ==
    ASSUME PiecesAreRead, PiecesAreRead', fdt # NULL, fdt' # NULL,
           NEW piece, AddsPiece(mem, fdt, mem', fdt', piece)
    PROVE  pieces' = Append(pieces, piece) /\ \E S : pieces \in Seq(S)
<1>1. PICK at, strs, size, T, to, strt, top :
          /\ HasBlock(mem, fdt, at, strs, size) /\ IsChain(mem, at, size, T)
          /\ HasBlock(mem', fdt', to, strt, top) /\ IsChain(mem', to, top, T \cup {top})
          /\ size < top /\ SamePieces(mem, at, strs, mem', to, strt, size, T)
          /\ mem'[to + size] # FDT_NOP /\ PieceOf(mem', to, strt, size) = piece
  BY Zenon DEF AddsPiece
<1>2. PICK e : Reading(mem, at, strs, size, T, e) /\ e[0] = pieces
  BY <1>1, Zenon DEF PiecesAreRead
<1>3. PICK h : Reading(mem', to, strt, top, T \cup {top}, h) /\ h[0] = pieces'
  BY <1>1, Zenon DEF PiecesAreRead
<1>4. size \in Nat /\ top \in Nat
  BY <1>1, Zenon DEF HasBlock
<1>5. /\ h[0] = Append(e[0], piece)
      /\ e[0] \in Seq({PieceOf(mem, at, strs, o) : o \in T})
  <2>1. Grows(mem, at, strs, T, e, h, piece)
    BY <1>1, <1>2, <1>3, <1>4, ReadsOneMore
  <2> QED
    BY <2>1, Zenon DEF Grows
<1> QED
  BY <1>2, <1>3, <1>5, Zenon

LEMMA EntriesSame ==
    ASSUME NEW m, NEW f \in Nat, NEW n, NEW g \in Nat, NEW k \in Nat,
           SameCells(m, f + 8, n, g + 8, 2 * k)
    PROVE  Entries(n, g, k) = Entries(m, f, k)
<1>1. ASSUME NEW i \in 1..k
      PROVE  Cells(n, EntryAt(g, i), ReserveSize) = Cells(m, EntryAt(f, i), ReserveSize)
  <2> PICK a, b : a = EntryAt(f, i) /\ b = EntryAt(g, i)
    OBVIOUS
  <2>1. a = f + 2 * i + 6 /\ b = g + 2 * i + 6
    BY DEF EntryAt, HeaderSize, ReserveSize
  <2>2. a \in Int /\ b \in Int /\ ReserveSize \in Int
    BY <2>1 DEF ReserveSize
  <2>3. ASSUME NEW j \in 0..(ReserveSize - 1) PROVE n[b + j] = m[a + j]
    <3>1. /\ 2 * i - 2 + j \in 0..(2 * k - 1)
          /\ f + 8 + (2 * i - 2 + j) = a + j /\ g + 8 + (2 * i - 2 + j) = b + j
      BY <2>1 DEF ReserveSize
    <3>2. n[g + 8 + (2 * i - 2 + j)] = m[f + 8 + (2 * i - 2 + j)]
      BY <3>1 DEF SameCells
    <3> QED
      BY <3>1, <3>2
  <2>4. SameCells(m, a, n, b, ReserveSize)
    BY <2>3, Zenon DEF SameCells
  <2> QED
    BY <2>2, <2>4, CellsSame
<1> QED
  BY <1>1, Zenon DEF Entries

KeepsReserved(m, f, n, g) ==
    \E k : HasReserved(m, f, k) /\ HasReserved(n, g, k) /\ Entries(n, g, k) = Entries(m, f, k)

AddsReserved(m, f, n, g, r) ==
    \E k : /\ HasReserved(m, f, k) /\ HasReserved(n, g, k + 1)
           /\ Entries(n, g, k + 1) = Append(Entries(m, f, k), r)

LEMMA ReservedStays ==
    ASSUME NEW m, NEW f \in Nat, NEW k, HasReserved(m, f, k), NEW n, NEW g \in Nat,
           n[g + 4] = m[f + 4], n[g + 2] = m[f + 2], n[g + 3] = 0 <=> m[f + 3] = 0,
           NEW off, off = m[f + 2], SameCells(m, f + 8, n, g + 8, off - 8)
    PROVE  KeepsReserved(m, f, n, g)
<1>1. /\ k \in Nat /\ m[f + 4] = HeaderSize
      /\ \A i \in 1..k : m[f + 2 * i + 7] # 0
      /\ m[f + 3] = 0 => off = 2 * k + 8
      /\ m[f + 3] # 0 => off = 2 * k + 10 /\ m[f + 2 * k + 9] = 0
  BY Zenon DEF HasReserved
<1>2. off - 8 = 2 * k \/ off - 8 = 2 * k + 2
  BY <1>1
<1>3. \A x \in 0..(off - 8 - 1) : n[g + 8 + x] = m[f + 8 + x]
  BY Zenon DEF SameCells
<1>4. ASSUME NEW i \in 1..k PROVE n[g + 2 * i + 7] # 0
  <2>1. /\ 2 * i - 1 \in 0..(off - 8 - 1) /\ g + 8 + (2 * i - 1) = g + 2 * i + 7
        /\ f + 8 + (2 * i - 1) = f + 2 * i + 7
    BY <1>1, <1>2
  <2>2. n[g + 8 + (2 * i - 1)] = m[f + 8 + (2 * i - 1)]
    BY <1>3, <2>1
  <2> QED
    BY <1>1, <2>1, <2>2
<1>5. ASSUME m[f + 3] # 0 PROVE n[g + 2 * k + 9] = 0
  <2>1. /\ 2 * k + 1 \in 0..(off - 8 - 1) /\ g + 8 + (2 * k + 1) = g + 2 * k + 9
        /\ f + 8 + (2 * k + 1) = f + 2 * k + 9
    BY <1>1, <1>5
  <2>2. n[g + 8 + (2 * k + 1)] = m[f + 8 + (2 * k + 1)]
    BY <1>3, <2>1
  <2> QED
    BY <1>1, <1>5, <2>1, <2>2
<1>6. HasReserved(n, g, k)
  <2>1. /\ k \in Nat /\ n[g + 4] = HeaderSize
        /\ n[g + 3] = 0 => n[g + 2] = 2 * k + 8
        /\ n[g + 3] # 0 => n[g + 2] = 2 * k + 10 /\ n[g + 2 * k + 9] = 0
    BY <1>1, <1>5, Zenon
  <2> QED
    BY <1>4, <2>1, Zenon DEF HasReserved
<1>7. SameCells(m, f + 8, n, g + 8, 2 * k)
  <2>1. \A x \in 0..(2 * k - 1) : x \in 0..(off - 8 - 1)
    BY <1>1, <1>2
  <2> QED
    BY <1>3, <2>1, Zenon DEF SameCells
<1>8. Entries(n, g, k) = Entries(m, f, k)
  BY <1>1, <1>7, EntriesSame
<1> QED
  BY <1>6, <1>8, Zenon DEF KeepsReserved

(* An invariant: the reservations are well formed. *)
ReservationsAre == fdt # NULL => \E k : HasReserved(mem, fdt, k)

LEMMA ReservedKept ==
    ASSUME HeaderIsRead, HeaderIsRead', fdt # NULL, fdt' # NULL,
           KeepsReserved(mem, fdt, mem', fdt')
    PROVE  reserved' = reserved /\ ReservationsAre'
<1>1. PICK k : /\ HasReserved(mem, fdt, k) /\ HasReserved(mem', fdt', k)
               /\ Entries(mem', fdt', k) = Entries(mem, fdt, k)
  BY Zenon DEF KeepsReserved
<1>2. reserved = Entries(mem, fdt, k) /\ reserved' = Entries(mem', fdt', k)
  BY <1>1, Zenon DEF HeaderIsRead
<1> QED
  BY <1>1, <1>2, Zenon DEF ReservationsAre

LEMMA ReservedAdded ==
    ASSUME HeaderIsRead, HeaderIsRead', fdt # NULL, fdt' # NULL,
           NEW r, AddsReserved(mem, fdt, mem', fdt', r)
    PROVE  reserved' = Append(reserved, r) /\ ReservationsAre'
<1>1. PICK k : /\ HasReserved(mem, fdt, k) /\ HasReserved(mem', fdt', k + 1)
               /\ Entries(mem', fdt', k + 1) = Append(Entries(mem, fdt, k), r)
  BY Zenon DEF AddsReserved
<1>2. reserved = Entries(mem, fdt, k) /\ reserved' = Entries(mem', fdt', k + 1)
  BY <1>1, Zenon DEF HeaderIsRead
<1> QED
  BY <1>1, <1>2, Zenon DEF ReservationsAre

(* A blob in writing, and another with its cells and perhaps more tags, in *)
(* whatever buffer                                                         *)
WritingAt(m, f, total, off, strs, size) ==
    /\ f \in Nat /\ total \in Nat /\ off \in Nat /\ strs \in Nat /\ size \in Nat
    /\ m[f] = FDT_SW_MAGIC /\ m[f + 1] = total /\ m[f + 2] = off
    /\ m[f + 6] = strs /\ m[f + 7] = size
    /\ 8 <= off /\ off + size + strs <= total /\ f + total <= MemSize
    /\ IsWritten(m, f) /\ (strs # 0 => m[f + total - 1] = 0)

CopyAt(m, f, total, off, strs, size, n, g, room, top) ==
    /\ g \in Nat /\ room \in Nat /\ top \in Nat /\ size <= top
    /\ n[g] = FDT_SW_MAGIC /\ n[g + 1] = room /\ n[g + 2] = off /\ n[g + 7] = top
    /\ off + top + strs <= room /\ g + room <= MemSize
    /\ n[g + 4] = m[f + 4] /\ (n[g + 3] = 0 <=> m[f + 3] = 0)
    /\ \A x \in 8..(off + size - 1) : n[g + x] = m[f + x]
    /\ \A y \in 1..strs : n[g + room - y] = m[f + total - y]

LEMMA WritingIsCopied ==
    ASSUME NEW m, NEW f, NEW k, HasReserved(m, f, k),
           NEW total, NEW off, NEW strs, NEW size, WritingAt(m, f, total, off, strs, size),
           NEW n, NEW g, NEW room, NEW top,
           CopyAt(m, f, total, off, strs, size, n, g, room, top),
           NEW at, NEW to, NEW base, NEW end,
           at = f + off, to = g + off, base = f + total, end = g + room
    PROVE  /\ KeepsReserved(m, f, n, g)
           /\ \E T : /\ IsChain(m, at, size, T) /\ IsChain(n, to, size, T)
                     /\ SamePieces(m, at, base, n, to, end, size, T)
<1> USE DEF WritingAt, CopyAt
<1>0. MemSize \in Nat
  BY TagSize
<1>1. PICK T : IsChain(m, at, size, T) /\ NamesAreIn(m, at, size, T, -strs, -1)
  <2>1. at = f + m[f + 2] /\ m[f + 7] = size /\ m[f + 6] = strs
    OBVIOUS
  <2> QED
    BY <2>1, Zenon DEF IsWritten
<1>2. /\ at \in Nat /\ to \in Nat /\ base \in Nat /\ end \in Nat
      /\ at + size <= MemSize /\ to + size <= MemSize /\ strs <= base /\ strs <= end
      /\ base <= MemSize /\ end <= MemSize
  BY <1>0
<1>3. SameCells(m, at, n, to, size)
  <2>1. ASSUME NEW x \in 0..(size - 1) PROVE n[to + x] = m[at + x]
    <3>1. off + x \in 8..(off + size - 1) /\ g + (off + x) = to + x /\ f + (off + x) = at + x
      OBVIOUS
    <3>2. n[g + (off + x)] = m[f + (off + x)]
      BY <3>1
    <3> QED
      BY <3>1, <3>2
  <2> QED
    BY <2>1, Zenon DEF SameCells
<1>4. SameStrings(m, base, n, end, strs)
  <2>1. ASSUME NEW y \in 1..strs PROVE n[end - y] = m[base - y]
    OBVIOUS
  <2> QED
    BY <2>1, Zenon DEF SameStrings
<1>5. strs # 0 => m[base - 1] = 0
  OBVIOUS
<1>6. SamePieces(m, at, base, n, to, end, size, T) /\ IsChain(n, to, size, T)
  BY ONLY <1>1, <1>2, <1>3, <1>4, <1>5, size \in Nat, strs \in Nat, BlocksReadTheSame
<1>7. KeepsReserved(m, f, n, g)
  <2>1. SameCells(m, f + 8, n, g + 8, off - 8)
    <3>1. ASSUME NEW x \in 0..(off - 8 - 1) PROVE n[g + 8 + x] = m[f + 8 + x]
      <4>1. 8 + x \in 8..(off + size - 1) /\ g + (8 + x) = g + 8 + x /\ f + (8 + x) = f + 8 + x
        OBVIOUS
      <4>2. n[g + (8 + x)] = m[f + (8 + x)]
        BY <4>1
      <4> QED
        BY <4>1, <4>2
    <3> QED
      BY <3>1, Zenon DEF SameCells
  <2>2. n[g + 2] = m[f + 2] /\ off = m[f + 2]
    OBVIOUS
  <2> QED
    BY <2>1, <2>2, ReservedStays
<1> QED
  BY <1>1, <1>6, <1>7

(* The same tags *)
LEMMA WritingIsKept ==
    ASSUME NEW m, NEW f, NEW k, HasReserved(m, f, k),
           NEW total, NEW off, NEW strs, NEW size, WritingAt(m, f, total, off, strs, size),
           NEW n, NEW g, NEW room, CopyAt(m, f, total, off, strs, size, n, g, room, size)
    PROVE  KeepsPieces(m, f, n, g) /\ KeepsReserved(m, f, n, g)
<1> PICK at, to, base, end : at = f + off /\ to = g + off /\ base = f + total /\ end = g + room
  OBVIOUS
<1>1. /\ KeepsReserved(m, f, n, g)
      /\ \E T : /\ IsChain(m, at, size, T) /\ IsChain(n, to, size, T)
                /\ SamePieces(m, at, base, n, to, end, size, T)
  BY WritingIsCopied
<1>2. HasBlock(m, f, at, base, size) /\ HasBlock(n, g, to, end, size)
  BY DEF HasBlock, WritingAt, CopyAt
<1> QED
  BY <1>1, <1>2, Zenon DEF KeepsPieces

(* One more tag, which stands for a piece *)
LEMMA TagIsAdded ==
    ASSUME NEW m, NEW f, NEW k, HasReserved(m, f, k),
           NEW total, NEW off, NEW strs, NEW size, WritingAt(m, f, total, off, strs, size),
           NEW n, NEW top, CopyAt(m, f, total, off, strs, size, n, f, total, top),
           NEW at, NEW end, at = f + off, end = f + total,
           IsTag(n, at, size, top), size < top, n[at + size] # FDT_NOP,
           NEW piece, PieceOf(n, at, end, size) = piece
    PROVE  AddsPiece(m, f, n, f, piece) /\ KeepsReserved(m, f, n, f)
<1>1. PICK T : /\ IsChain(m, at, size, T) /\ IsChain(n, at, size, T)
               /\ SamePieces(m, at, end, n, at, end, size, T)
  BY WritingIsCopied
<1>2. KeepsReserved(m, f, n, f)
  BY WritingIsCopied
<1>3. HasBlock(m, f, at, end, size) /\ HasBlock(n, f, at, end, top)
  BY DEF HasBlock, WritingAt, CopyAt
<1>4. at \in Int /\ size \in Nat /\ top \in Nat
  BY DEF WritingAt, CopyAt
<1>5. IsChain(n, at, top, T \cup {top})
  BY ONLY <1>1, <1>4, size < top, IsTag(n, at, size, top), ChainExtends
<1> QED
  BY <1>1, <1>2, <1>3, <1>5, Zenon DEF AddsPiece

----------------------------------------------------------------------------
(* The calls, as steps of a tree that is written *)

TreeUnchanged == stage' = stage /\ reserved' = reserved /\ pieces' = pieces

LEMMA AllAreRead ==
    ASSUME WriterInv, WriterInv'
    PROVE  PiecesAreRead /\ PiecesAreRead' /\ HeaderIsRead /\ HeaderIsRead'
<1>1. PiecesAreRead /\ HeaderIsRead
  BY PiecesRead, HeaderRead
<1>2. PiecesAreRead' /\ HeaderIsRead'
  BY PiecesRead, HeaderRead, PTL
<1> QED
  BY <1>1, <1>2

LEMMA TreeKept ==
    ASSUME WriterInv, WriterInv', fdt # NULL, fdt' # NULL,
           KeepsPieces(mem, fdt, mem', fdt'), KeepsReserved(mem, fdt, mem', fdt'),
           StageOf(mem', fdt') = StageOf(mem, fdt)
    PROVE  ReservationsAre' /\ TreeUnchanged
<1>1. PiecesAreRead /\ PiecesAreRead' /\ HeaderIsRead /\ HeaderIsRead'
  BY AllAreRead
<1>2. pieces' = pieces
  BY <1>1, PiecesKept
<1>3. reserved' = reserved /\ ReservationsAre'
  BY <1>1, ReservedKept
<1>4. stage' = stage
  BY <1>1, Zenon DEF HeaderIsRead
<1> QED
  BY <1>2, <1>3, <1>4 DEF TreeUnchanged

LEMMA BlockExists ==
    ASSUME WriterInv, fdt # NULL
    PROVE  \E at, strs, size, T : HasBlock(mem, fdt, at, strs, size) /\ IsChain(mem, at, size, T)
<1>1. CASE Writing(mem, fdt)
  <2>1. \E T : IsChain(mem, fdt + mem[fdt + 2], mem[fdt + 7], T)
    BY <1>1, Zenon DEF Writing, IsWritten
  <2>2. HasBlock(mem, fdt, fdt + mem[fdt + 2], fdt + mem[fdt + 1], mem[fdt + 7])
    BY <1>1 DEF Writing, Layout, HasBlock
  <2> QED
    BY <2>1, <2>2, Zenon
<1>2. CASE Finished(mem, fdt)
  <2>1. PICK size \in Nat :
            /\ size + FDT_TAGSIZE = mem[fdt + 7] /\ mem[fdt + mem[fdt + 2] + size] = FDT_END
            /\ \E T : IsChain(mem, fdt + mem[fdt + 2], size, T)
    BY <1>2, Zenon DEF Finished
  <2>2. mem[fdt] = FDT_MAGIC
    BY <1>2, Zenon DEF Finished
  <2>3. HasBlock(mem, fdt, fdt + mem[fdt + 2], fdt + mem[fdt + 3], size)
    BY <2>1, <2>2, Zenon DEF HasBlock
  <2> QED
    BY <2>1, <2>3, Zenon
<1> QED
  BY <1>1, <1>2 DEF WriterInv

(* A call that leaves the memory alone *)
LEMMA SameMemory ==
    ASSUME WriterInv, ReservationsAre, WriterInv', mem' = mem, fdt' = fdt
    PROVE  ReservationsAre' /\ TreeUnchanged
<1>1. CASE fdt = NULL
  <2>1. stage = "none" /\ stage' = "none"
    BY <1>1, Zenon DEF stage
  <2>2. reserved = << >> /\ reserved' = << >>
    BY <1>1, Zenon DEF reserved
  <2>3. pieces = << >> /\ pieces' = << >>
    BY <1>1, Zenon DEF pieces
  <2>4. ReservationsAre'
    BY <1>1, Zenon DEF ReservationsAre
  <2> QED
    BY <2>1, <2>2, <2>3, <2>4 DEF TreeUnchanged
<1>2. CASE fdt # NULL
  <2>1. PICK at, strs, size, T : /\ HasBlock(mem, fdt, at, strs, size)
                                 /\ IsChain(mem, at, size, T)
    BY <1>2, BlockExists
  <2>2. SamePieces(mem, at, strs, mem, at, strs, size, T)
    BY Zenon DEF SamePieces
  <2>3. KeepsPieces(mem, fdt, mem, fdt)
    BY <2>1, <2>2, Zenon DEF KeepsPieces
  <2>4. KeepsReserved(mem, fdt, mem, fdt)
    BY <1>2, Zenon DEF ReservationsAre, KeepsReserved
  <2>5. /\ fdt' # NULL /\ KeepsPieces(mem, fdt, mem', fdt') /\ KeepsReserved(mem, fdt, mem', fdt')
        /\ StageOf(mem', fdt') = StageOf(mem, fdt)
    BY <1>2, <2>3, <2>4, Zenon
  <2> QED
    BY <1>2, <2>5, TreeKept
<1> QED
  BY <1>1, <1>2

LEMMA RefusalIsNoStep ==
    ASSUME WriterInv, ReservationsAre, WriterInv', NEW e, Refuse(e)
    PROVE  ReservationsAre' /\ TreeUnchanged
  BY SameMemory DEF Refuse

(* A step from a blob in writing to one in writing with the same cells *)
LEMMA WritingUnchanged ==
    ASSUME WriterInv, ReservationsAre, WriterInv', fdt # NULL, fdt' # NULL,
           NEW total, NEW off, NEW strs, NEW size, WritingAt(mem, fdt, total, off, strs, size),
           NEW room, CopyAt(mem, fdt, total, off, strs, size, mem', fdt', room, size)
    PROVE  ReservationsAre' /\ TreeUnchanged
<1>1. PICK k : HasReserved(mem, fdt, k)
  BY Zenon DEF ReservationsAre
<1>2. KeepsPieces(mem, fdt, mem', fdt') /\ KeepsReserved(mem, fdt, mem', fdt')
  BY <1>1, WritingIsKept
<1>3. StageOf(mem', fdt') = StageOf(mem, fdt)
  BY Zenon DEF StageOf, WritingAt, CopyAt
<1> QED
  BY <1>2, <1>3, TreeKept

LEMMA WritingIs ==
    ASSUME WriterInv, fdt # NULL, mem[fdt] = FDT_SW_MAGIC
    PROVE  /\ \E total, off, strs, size : /\ WritingAt(mem, fdt, total, off, strs, size)
                                          /\ Sizes(mem, total, off, strs, size)
           /\ mem \in Mem /\ Writing(mem, fdt) /\ Layout(mem, fdt) /\ fdt \in Nat
<1>1. mem \in Mem /\ Writing(mem, fdt) /\ Layout(mem, fdt)
  BY DEF WriterInv, Writing, Finished, FDT_SW_MAGIC, FDT_MAGIC
<1>2. PICK total, off, strs, size : Sizes(mem, total, off, strs, size)
  BY <1>1, SizesAre
<1>3. /\ fdt \in Nat /\ total \in Nat /\ off \in Nat /\ strs \in Nat /\ size \in Nat
      /\ mem[fdt + 1] = total /\ mem[fdt + 2] = off /\ mem[fdt + 6] = strs
      /\ mem[fdt + 7] = size
      /\ 8 <= off /\ off + size + strs <= total /\ fdt + total <= MemSize
  BY <1>2, Zenon DEF Sizes
<1>4. IsWritten(mem, fdt) /\ (strs # 0 => mem[fdt + total - 1] = 0)
  BY <1>1, <1>3, Zenon DEF Writing, Layout
<1>5. WritingAt(mem, fdt, total, off, strs, size)
  BY <1>3, <1>4, Zenon DEF WritingAt
<1> QED
  BY <1>1, <1>2, <1>3, <1>5

LEMMA ResizeIsNoStep ==
    ASSUME WriterInv, ReservationsAre, WriterInv', fdt # NULL, NEW b \in Buffers, fdt_resize(b)
    PROVE  ReservationsAre' /\ TreeUnchanged
<1> DEFINE headsize == struct_top(mem)
           tailsize == size_dt_strings(mem)
           fits     == headsize + tailsize <= Smaller(totalsize(mem), b.size)
<1>1. \/ Field(mem, "magic") # FDT_SW_MAGIC /\ Refuse("BADSTATE")
      \/ /\ Field(mem, "magic") = FDT_SW_MAGIC /\ ~fits
         /\ Refuse(IF headsize + tailsize > totalsize(mem) THEN "INTERNAL" ELSE "NOSPACE")
      \/ /\ Field(mem, "magic") = FDT_SW_MAGIC /\ fits
         /\ mem' = Resized(Moved(mem, b, headsize, tailsize), b)
         /\ fdt' = b.addr
         /\ ret' = "OK"
  BY Zenon DEF fdt_resize
<1>2. CASE \E e : Refuse(e)
  BY <1>2, RefusalIsNoStep
<1>3. CASE /\ Field(mem, "magic") = FDT_SW_MAGIC /\ fits
           /\ mem' = Resized(Moved(mem, b, headsize, tailsize), b)
           /\ fdt' = b.addr
  <2>1. fdt \in Nat
    BY TagSize, ConstantsAreTyped DEF WriterInv
  <2>2. mem[fdt] = FDT_SW_MAGIC
    BY <1>3, <2>1, FieldsAre
  <2>3. PICK total, off, strs, size : /\ WritingAt(mem, fdt, total, off, strs, size)
                                      /\ Sizes(mem, total, off, strs, size)
    BY <2>2, WritingIs
  <2>4. mem \in Mem /\ Layout(mem, fdt)
    BY <2>2, WritingIs
  <2>5. /\ total \in Nat /\ off \in Nat /\ strs \in Nat /\ size \in Nat
        /\ 8 <= off /\ off + size + strs <= total /\ fdt + total <= MemSize
        /\ mem[fdt + 1] = total /\ mem[fdt + 2] = off /\ mem[fdt + 6] = strs
        /\ mem[fdt + 7] = size
    BY <2>3, Zenon DEF WritingAt
  <2>6. headsize = off + size /\ tailsize = strs /\ totalsize(mem) = total
    BY <2>1, <2>5, FieldsAre, Zenon
  <2> PICK f, n, head : f = b.addr /\ n = b.size /\ head = off + size
    OBVIOUS
  <2>7. f \in Nat /\ n \in Nat
    BY ConstantsAreTyped
  <2>8. head + strs <= n
    <3>1. head + strs <= Smaller(total, n)
      BY <1>3, <2>6, Zenon
    <3>2. head + strs <= total /\ head \in Nat
      BY <2>5
    <3> QED
      BY <2>5, <2>7, <3>1, <3>2 DEF Smaller
  <2> PICK r : r = Resized(Moved(mem, b, head, strs), b)
    OBVIOUS
  <2>9. mem' = r /\ fdt' = f
    BY <1>3, <2>6, Zenon
  <2>10. /\ f \in Nat /\ n \in Nat /\ f + n <= MemSize /\ head \in Nat /\ 8 <= head
         /\ r \in Mem /\ r[f + 1] = n /\ r[f + 3] = IF mem[fdt + 3] = 0 THEN 0 ELSE n
         /\ \A x \in 0..(head - 1) : x # 1 /\ x # 3 => r[f + x] = mem[fdt + x]
         /\ \A y \in 1..strs : r[f + n - y] = mem[fdt + total - y]
    BY <2>3, <2>4, <2>8, ResizedCells
  <2>11. /\ r[f] = FDT_SW_MAGIC /\ r[f + 2] = off /\ r[f + 4] = mem[fdt + 4]
         /\ r[f + 7] = size
    <3>1. {0, 2, 4, 7} \subseteq 0..(head - 1) /\ f + 0 = f /\ fdt + 0 = fdt
      BY <2>1, <2>7, <2>10
    <3>2. \A x \in {0, 2, 4, 7} : x # 1 /\ x # 3 /\ x \in 0..(head - 1)
      BY <3>1
    <3>3. \A x \in {0, 2, 4, 7} : r[f + x] = mem[fdt + x]
      BY <2>10, <3>2, Zenon
    <3> QED
      BY <2>2, <2>5, <3>1, <3>3
  <2>12. n # 0
    BY <2>5, <2>8, <2>10
  <2>13. \A x \in 8..(off + size - 1) : r[f + x] = mem[fdt + x]
    <3>1. \A x \in 8..(off + size - 1) : x \in 0..(head - 1) /\ x # 1 /\ x # 3
      BY <2>5
    <3> QED
      BY <2>10, <3>1, Zenon
  <2>14. CopyAt(mem, fdt, total, off, strs, size, r, f, n, size)
    <3>1. off + size + strs <= n /\ size <= size /\ size \in Nat
      BY <2>5, <2>8, <2>10
    <3>2. r[f + 3] = 0 <=> mem[fdt + 3] = 0
      BY <2>10, <2>12, Zenon
    <3> QED
      BY <2>10, <2>11, <2>13, <3>1, <3>2, Zenon DEF CopyAt
  <2>15. CopyAt(mem, fdt, total, off, strs, size, mem', fdt', n, size) /\ fdt' # NULL
    BY <2>7, <2>9, <2>14 DEF NULL
  <2> QED
    BY <2>3, <2>15, WritingUnchanged
<1> QED
  BY <1>1, <1>2, <1>3, Zenon

----------------------------------------------------------------------------
(* The calls before the structure is begun *)

LEMMA EmptyStays ==
    ASSUME NEW m, NEW f, m[f] = FDT_SW_MAGIC, m[f + 7] = 0,
           NEW n, NEW g, n[g] = FDT_SW_MAGIC, n[g + 7] = 0
    PROVE  KeepsPieces(m, f, n, g)
<1> PICK at, strs, to, strt : /\ at = f + m[f + 2] /\ strs = f + m[f + 1]
                              /\ to = g + n[g + 2] /\ strt = g + n[g + 1]
  OBVIOUS
<1>1. HasBlock(m, f, at, strs, 0) /\ HasBlock(n, g, to, strt, 0)
  BY DEF HasBlock
<1>2. IsChain(m, at, 0, {0}) /\ IsChain(n, to, 0, {0})
  BY EmptyChain
<1>3. SamePieces(m, at, strs, n, to, strt, 0, {0})
  BY DEF SamePieces
<1> QED
  BY <1>1, <1>2, <1>3, Zenon DEF KeepsPieces

(* A blob without tags has no pieces. *)
LEMMA NoPieces ==
    ASSUME PiecesAreRead, fdt # NULL, mem[fdt] = FDT_SW_MAGIC, mem[fdt + 7] = 0
    PROVE  pieces = << >>
<1> PICK at, strs : at = fdt + mem[fdt + 2] /\ strs = fdt + mem[fdt + 1]
  OBVIOUS
<1>1. HasBlock(mem, fdt, at, strs, 0)
  BY DEF HasBlock
<1>2. IsChain(mem, at, 0, {0})
  BY EmptyChain
<1>3. PICK e : Reading(mem, at, strs, 0, {0}, e) /\ e[0] = pieces
  BY <1>1, <1>2, Zenon DEF PiecesAreRead
<1> QED
  BY <1>3, Zenon DEF Reading

LEMMA NoReservations ==
    ASSUME HeaderIsRead, fdt # NULL, fdt \in Nat, mem[fdt] = FDT_SW_MAGIC, mem[fdt + 2] = HeaderSize,
           mem[fdt + 3] = 0, mem[fdt + 4] = HeaderSize
    PROVE  reserved = << >> /\ stage = "memrsv" /\ ReservationsAre
<1>1. HasReserved(mem, fdt, 0)
  BY DEF HasReserved, HeaderSize
<1>2. Entries(mem, fdt, 0) = << >>
  BY DEF Entries
<1>3. reserved = Entries(mem, fdt, 0) /\ stage = StageOf(mem, fdt)
  BY <1>1, Zenon DEF HeaderIsRead
<1>4. StageOf(mem, fdt) = "memrsv"
  BY DEF StageOf, FDT_SW_MAGIC, FDT_MAGIC
<1> QED
  BY <1>1, <1>2, <1>3, <1>4, Zenon DEF ReservationsAre

LEMMA CreateIsStep ==
    ASSUME WriterInv, ReservationsAre, WriterInv',
           NEW b \in Buffers, NEW flags \in Flags, fdt_create(b, flags)
    PROVE  ReservationsAre' /\ (TreeUnchanged \/ Tree!Create)
<1>1. CASE \E e : Refuse(e)
  BY <1>1, RefusalIsNoStep
<1>2. CASE /\ b.size >= HeaderSize /\ flags # 2
           /\ mem' = Put(Put(mem, b.addr, [i \in 1..b.size |-> 0]), b.addr,
                         <<FDT_SW_MAGIC, b.size, HeaderSize, 0, HeaderSize, flags, 0, 0>>)
           /\ fdt' = b.addr
  <2>a. PICK f, n : f = b.addr /\ n = b.size
    OBVIOUS
  <2>b. PICK q : q = Put(Put(mem, b.addr, [i \in 1..b.size |-> 0]), b.addr,
                         <<FDT_SW_MAGIC, b.size, HeaderSize, 0, HeaderSize, flags, 0, 0>>)
    OBVIOUS
  <2>1. /\ q \in Mem /\ q[f] = FDT_SW_MAGIC /\ q[f + 1] = n /\ q[f + 2] = HeaderSize
        /\ q[f + 3] = 0 /\ q[f + 4] = HeaderSize /\ q[f + 6] = 0 /\ q[f + 7] = 0
    <3>1. mem \in Mem /\ b \in Buffers /\ b.size >= HeaderSize /\ flags \in Flags
      BY <1>2 DEF WriterInv
    <3> QED
      BY ONLY <2>a, <2>b, <3>1, CreatedCells
  <2>2. mem' = q /\ fdt' = f
    BY <1>2, <2>a, <2>b, Zenon
  <2>3. f \in Nat /\ f # NULL
    BY <2>a, ConstantsAreTyped DEF NULL
  <2>4. PiecesAreRead' /\ HeaderIsRead'
    BY AllAreRead
  <2>5. /\ fdt' # NULL /\ fdt' \in Nat /\ mem'[fdt'] = FDT_SW_MAGIC /\ mem'[fdt' + 2] = HeaderSize
        /\ mem'[fdt' + 3] = 0 /\ mem'[fdt' + 4] = HeaderSize /\ mem'[fdt' + 7] = 0
    BY <2>1, <2>2, <2>3, Zenon
  <2>6. pieces' = << >>
    <3>1. (PiecesAreRead /\ fdt # NULL /\ mem[fdt] = FDT_SW_MAGIC /\ mem[fdt + 7] = 0
             => pieces = << >>)'
      BY NoPieces, PTL
    <3> QED
      BY <2>4, <2>5, <3>1, Zenon
  <2>7. reserved' = << >> /\ stage' = "memrsv" /\ ReservationsAre'
    <3>1. (HeaderIsRead /\ fdt # NULL /\ fdt \in Nat /\ mem[fdt] = FDT_SW_MAGIC
              /\ mem[fdt + 2] = HeaderSize /\ mem[fdt + 3] = 0 /\ mem[fdt + 4] = HeaderSize
             => reserved = << >> /\ stage = "memrsv" /\ ReservationsAre)'
      BY NoReservations, PTL
    <3> QED
      BY <2>4, <2>5, <3>1, Zenon
  <2> QED
    BY <2>6, <2>7, Zenon DEF Tree!Create
<1> QED
  BY <1>1, <1>2, Zenon DEF fdt_create

LEMMA OneMore ==
    ASSUME NEW k \in Nat, NEW g
    PROVE  [i \in 1..(k + 1) |-> g[i]] = Append([i \in 1..k |-> g[i]], g[k + 1])
<1> DEFINE S == {g[i] : i \in 1..(k + 1)}
           s == [i \in 1..k |-> g[i]]
           t == [i \in 1..(k + 1) |-> g[i]]
<1>1. s \in Seq(S) /\ t \in Seq(S) /\ g[k + 1] \in S
  <2>1. \A i \in 1..(k + 1) : g[i] \in S
    OBVIOUS
  <2>2. k + 1 \in 1..(k + 1) /\ \A i \in 1..k : i \in 1..(k + 1)
    OBVIOUS
  <2> HIDE DEF S
  <2>3. g[k + 1] \in S /\ \A i \in 1..k : g[i] \in S
    BY <2>1, <2>2
  <2> QED
    BY <2>1, <2>3
<1>2. Len(s) = k /\ Len(t) = k + 1
  OBVIOUS
<1>3. (\A i \in 1..k : t[i] = s[i]) /\ t[k + 1] = g[k + 1]
  OBVIOUS
<1> HIDE DEF S, s, t
<1>4. t = Append(s, g[k + 1])
  BY <1>1, <1>2, <1>3
<1> QED
  BY <1>4 DEF s, t

LEMMA ReserveIsStep ==
    ASSUME WriterInv, ReservationsAre, WriterInv', fdt # NULL,
           NEW r \in Reservations, fdt_add_reservemap_entry(r)
    PROVE  ReservationsAre' /\ (TreeUnchanged \/ Tree!Reserve(r))
<1>1. CASE \E e : Refuse(e)
  BY <1>1, RefusalIsNoStep
<1>2. CASE InMemrsv(mem) /\ ReserveHasSpace(mem) /\ Return(Reserved(mem, r))
  <2>1. /\ fdt \in Nat /\ mem \in Mem /\ Writing(mem, fdt) /\ mem[fdt + 3] = 0
        /\ mem[fdt] = FDT_SW_MAGIC
    BY <1>2, ReservationsAreOpen
  <2>2. /\ r \in Seq(Int) /\ Len(r) = 2 /\ r[2] # 0 /\ r = [i \in 1..2 |-> r[i]]
    <3>1. r \in (Nat \ {0}) \X (Nat \ {0})
      BY ConstantsAreTyped
    <3>2. PICK x \in Nat \ {0}, y \in Nat \ {0} : r = <<x, y>>
      BY <3>1
    <3> QED
      BY <3>2
  <2> PICK q : q = Reserved(mem, r)
    OBVIOUS
  <2>3. PICK total, off : /\ q \in Mem /\ Sizes(q, total, off, 0, 0)
                          /\ q[fdt] = mem[fdt] /\ q[fdt + 3] = 0 /\ q[fdt + 4] = HeaderSize
                          /\ off = mem[fdt + 2] + 2 /\ 10 <= off
                          /\ \A x \in 8..(off - 3) : q[fdt + x] = mem[fdt + x]
                          /\ q[fdt + off - 2] = r[1] /\ q[fdt + off - 1] = r[2]
    <3>1. ReserveHasSpace(mem) /\ q = Reserved(mem, r)
      BY <1>2
    <3>2. r \in Seq(Int) /\ Len(r) = 2
      BY <2>2
    <3> QED
      BY ONLY <2>1, <3>1, <3>2, ReservedCells
  <2>4. q[fdt + 2] = off /\ q[fdt + 7] = 0
    BY <2>3, Zenon DEF Sizes
  <2>5. PICK k : HasReserved(mem, fdt, k)
    BY DEF ReservationsAre
  <2>6. /\ k \in Nat /\ mem[fdt + 2] = 2 * k + 8 /\ off = 2 * (k + 1) + 8 /\ off - 3 = 2 * k + 7
        /\ fdt + off - 2 = fdt + 2 * k + 8 /\ fdt + off - 1 = fdt + 2 * k + 9
        /\ \A i \in 1..k : mem[fdt + 2 * i + 7] # 0
    <3>1. /\ k \in Nat /\ mem[fdt + 2] = 2 * k + 8
          /\ \A i \in 1..k : mem[fdt + 2 * i + 7] # 0
      BY <2>1, <2>5, Zenon DEF HasReserved
    <3>2. off = 2 * k + 10
      BY <2>3, <3>1
    <3> QED
      BY <2>1, <3>1, <3>2
  <2>7. SameCells(mem, fdt + 8, q, fdt + 8, 2 * k)
    <3>1. ASSUME NEW x \in 0..(2 * k - 1) PROVE q[fdt + 8 + x] = mem[fdt + 8 + x]
      <4>1. 8 + x \in 8..(off - 3) /\ fdt + (8 + x) = fdt + 8 + x
        BY <2>1, <2>6
      <4>2. q[fdt + (8 + x)] = mem[fdt + (8 + x)]
        BY <2>3, <4>1, Zenon
      <4> QED
        BY <4>1, <4>2
    <3> QED
      BY <3>1, Zenon DEF SameCells
  <2>8. Entries(q, fdt, k) = Entries(mem, fdt, k)
    BY <2>1, <2>6, <2>7, EntriesSame
  <2>9. Cells(q, EntryAt(fdt, k + 1), ReserveSize) = r
    <3> PICK a : a = EntryAt(fdt, k + 1)
      OBVIOUS
    <3>1. a = fdt + 2 * k + 8
      BY <2>1, <2>6 DEF EntryAt, HeaderSize, ReserveSize
    <3>2. \A i \in 1..2 : q[a + i - 1] = r[i]
      <4>1. a + 1 - 1 = fdt + 2 * k + 8 /\ a + 2 - 1 = fdt + 2 * k + 9
        BY <2>1, <2>6, <3>1
      <4>2. \A i \in 1..2 : i = 1 \/ i = 2
        OBVIOUS
      <4> QED
        BY <2>3, <2>6, <4>1, <4>2, Zenon
    <3>3. Cells(q, a, 2) = [i \in 1..2 |-> r[i]]
      BY <3>2, Zenon DEF Cells
    <3> QED
      BY <2>2, <3>3, Zenon DEF ReserveSize
  <2>10. Entries(q, fdt, k + 1) = Append(Entries(mem, fdt, k), r)
    <3>1. Entries(q, fdt, k + 1) = Append(Entries(q, fdt, k), r)
      <4> PICK g : g = [i \in 1..(k + 1) |-> Cells(q, EntryAt(fdt, i), ReserveSize)]
        OBVIOUS
      <4>1. /\ k + 1 \in 1..(k + 1)
            /\ \A i \in 1..k : i \in 1..(k + 1)
        BY <2>6
      <4>2. g[k + 1] = r
        BY <2>9, <4>1, Zenon
      <4>3. Entries(q, fdt, k + 1) = [i \in 1..(k + 1) |-> g[i]]
        BY Zenon DEF Entries
      <4>4. Entries(q, fdt, k) = [i \in 1..k |-> g[i]]
        BY <4>1, Zenon DEF Entries
      <4>5. [i \in 1..(k + 1) |-> g[i]] = Append([i \in 1..k |-> g[i]], g[k + 1])
        <5>1. k \in Nat
          BY <2>6
        <5> QED
          BY ONLY <5>1, OneMore
      <4> QED
        BY ONLY <4>2, <4>3, <4>4, <4>5
    <3> QED
      BY <2>8, <3>1
  <2>11. HasReserved(q, fdt, k + 1)
    <3>1. ASSUME NEW i \in 1..(k + 1) PROVE q[fdt + 2 * i + 7] # 0
      <4>1. CASE i = k + 1
        <5>1. fdt + 2 * i + 7 = fdt + 2 * k + 9
          BY <2>1, <2>6, <4>1
        <5> QED
          BY <2>2, <2>3, <2>6, <5>1, Zenon
      <4>2. CASE i # k + 1
        <5>1. i \in 1..k /\ 2 * i + 7 \in 8..(off - 3) /\ fdt + (2 * i + 7) = fdt + 2 * i + 7
          BY <2>1, <2>6, <4>2
        <5>2. q[fdt + (2 * i + 7)] = mem[fdt + (2 * i + 7)]
          BY <2>3, <5>1, Zenon
        <5> QED
          BY <2>6, <5>1, <5>2
      <4> QED
        BY <4>1, <4>2
    <3>2. k + 1 \in Nat
      BY <2>6
    <3> QED
      BY <2>3, <2>4, <2>6, <3>1, <3>2, Zenon DEF HasReserved
  <2>12. mem' = q /\ fdt' = fdt
    BY <1>2, Zenon DEF Return
  <2>13. AddsReserved(mem, fdt, mem', fdt', r)
    BY <2>5, <2>10, <2>11, <2>12, Zenon DEF AddsReserved
  <2>14. KeepsPieces(mem, fdt, mem', fdt')
    <3>1. mem[fdt + 7] = 0
      BY <2>1, Zenon DEF Writing, Layout
    <3>2. KeepsPieces(mem, fdt, q, fdt)
      BY <2>1, <2>3, <2>4, <3>1, EmptyStays
    <3> QED
      BY <2>12, <3>2, Zenon
  <2>15. PiecesAreRead /\ PiecesAreRead' /\ HeaderIsRead /\ HeaderIsRead' /\ fdt' # NULL
    BY <2>12, AllAreRead
  <2>16. pieces' = pieces
    BY <2>14, <2>15, PiecesKept
  <2>17. reserved' = Append(reserved, r) /\ ReservationsAre'
    BY <2>13, <2>15, ReservedAdded
  <2>18. stage = "memrsv" /\ stage' = "memrsv"
    <3>1. StageOf(mem, fdt) = "memrsv" /\ StageOf(q, fdt) = "memrsv"
      BY <2>1, <2>3 DEF StageOf, FDT_SW_MAGIC, FDT_MAGIC
    <3> QED
      BY <2>12, <2>15, <3>1, Zenon DEF HeaderIsRead
  <2> QED
    BY <2>16, <2>17, <2>18, Zenon DEF Tree!Reserve
<1> QED
  BY <1>1, <1>2, Zenon DEF fdt_add_reservemap_entry

LEMMA FinishReservesIsStep ==
    ASSUME WriterInv, ReservationsAre, WriterInv', fdt # NULL, fdt_finish_reservemap
    PROVE  ReservationsAre' /\ (TreeUnchanged \/ Tree!FinishReservations)
<1>1. CASE \E e : Refuse(e)
  BY <1>1, RefusalIsNoStep
<1>2. CASE /\ InMemrsv(mem) /\ ReserveHasSpace(mem)
           /\ Return(With(Reserved(mem, <<0, 0>>), "off_dt_strings", totalsize(mem)))
  <2>1. /\ fdt \in Nat /\ mem \in Mem /\ Writing(mem, fdt) /\ mem[fdt + 3] = 0
        /\ mem[fdt] = FDT_SW_MAGIC
    BY <1>2, ReservationsAreOpen
  <2> PICK r, q : r = <<0, 0>> /\ q = Reserved(mem, r)
    OBVIOUS
  <2>2. r \in Seq(Int) /\ Len(r) = 2 /\ r[2] = 0
    OBVIOUS
  <2>3. PICK total, off : /\ q \in Mem /\ Sizes(q, total, off, 0, 0)
                          /\ q[fdt] = mem[fdt] /\ q[fdt + 3] = 0 /\ q[fdt + 4] = HeaderSize
                          /\ total = mem[fdt + 1]
                          /\ off = mem[fdt + 2] + 2 /\ 10 <= off
                          /\ \A x \in 8..(off - 3) : q[fdt + x] = mem[fdt + x]
                          /\ q[fdt + off - 2] = r[1] /\ q[fdt + off - 1] = r[2]
    <3>1. ReserveHasSpace(mem) /\ q = Reserved(mem, r)
      BY <1>2
    <3>2. r \in Seq(Int) /\ Len(r) = 2
      BY <2>2
    <3> QED
      BY ONLY <2>1, <3>1, <3>2, ReservedCells
  <2>4. /\ total \in Nat /\ off \in Nat /\ off <= total /\ fdt + total <= MemSize
        /\ MemSize \in Nat /\ q[fdt + 2] = off /\ q[fdt + 7] = 0
    BY <2>3 DEF Sizes
  <2>5. totalsize(mem) = total
    BY <2>1, <2>3, FieldsAre, Zenon
  <2> PICK w : w = With(q, "off_dt_strings", total)
    OBVIOUS
  <2>6. /\ w \in Mem /\ w[fdt + 3] = total
        /\ \A i \in 0..(MemSize - 1) : i # fdt + 3 => w[i] = q[i]
    <3>1. "off_dt_strings" \in DOMAIN Fields /\ Fields["off_dt_strings"] = 3
      BY FieldNumbers
    <3>2. total \in Int /\ fdt + 8 <= MemSize /\ q \in Mem
      BY <2>1, <2>3, <2>4
    <3>3. w = With(q, "off_dt_strings", total)
      OBVIOUS
    <3> QED
      BY ONLY <2>1, <3>1, <3>2, <3>3, FieldSet
  <2>7. \A x \in {0, 2, 4, 7} \cup 8..(off - 1) : w[fdt + x] = q[fdt + x]
    <3>1. \A x \in {0, 2, 4, 7} \cup 8..(off - 1) :
              fdt + x \in 0..(MemSize - 1) /\ fdt + x # fdt + 3
      BY <2>1, <2>3, <2>4
    <3> QED
      BY <2>6, <3>1, Zenon
  <2>8. /\ w[fdt] = FDT_SW_MAGIC /\ w[fdt + 2] = off /\ w[fdt + 4] = HeaderSize
        /\ w[fdt + 7] = 0 /\ w[fdt + 3] # 0
    <3>1. fdt + 0 = fdt /\ total # 0
      BY <2>1, <2>3, <2>4
    <3> QED
      BY <2>1, <2>3, <2>4, <2>6, <2>7, <3>1
  <2>9. PICK k : HasReserved(mem, fdt, k)
    BY DEF ReservationsAre
  <2>10. /\ k \in Nat /\ mem[fdt + 2] = 2 * k + 8 /\ off = 2 * k + 10 /\ off - 3 = 2 * k + 7
         /\ fdt + off - 1 = fdt + 2 * k + 9
         /\ \A i \in 1..k : mem[fdt + 2 * i + 7] # 0
    <3>1. /\ k \in Nat /\ mem[fdt + 2] = 2 * k + 8
          /\ \A i \in 1..k : mem[fdt + 2 * i + 7] # 0
      BY <2>1, <2>9, Zenon DEF HasReserved
    <3>2. off = 2 * k + 10
      BY <2>3, <3>1
    <3> QED
      BY <2>1, <3>1, <3>2
  <2>11. \A x \in 8..(off - 3) : w[fdt + x] = mem[fdt + x]
    <3>1. \A x \in 8..(off - 3) : x \in 8..(off - 1)
      BY <2>4
    <3> QED
      BY <2>3, <2>7, <3>1, Zenon
  <2>12. SameCells(mem, fdt + 8, w, fdt + 8, 2 * k)
    <3>1. ASSUME NEW x \in 0..(2 * k - 1) PROVE w[fdt + 8 + x] = mem[fdt + 8 + x]
      <4>1. 8 + x \in 8..(off - 3) /\ fdt + (8 + x) = fdt + 8 + x
        BY <2>1, <2>10
      <4>2. w[fdt + (8 + x)] = mem[fdt + (8 + x)]
        BY <2>11, <4>1, Zenon
      <4> QED
        BY <4>1, <4>2
    <3> QED
      BY <3>1, Zenon DEF SameCells
  <2>13. Entries(w, fdt, k) = Entries(mem, fdt, k)
    BY <2>1, <2>10, <2>12, EntriesSame
  <2>14. HasReserved(w, fdt, k)
    <3>1. ASSUME NEW i \in 1..k PROVE w[fdt + 2 * i + 7] # 0
      <4>1. 2 * i + 7 \in 8..(off - 3) /\ fdt + (2 * i + 7) = fdt + 2 * i + 7
        BY <2>1, <2>10
      <4>2. w[fdt + (2 * i + 7)] = mem[fdt + (2 * i + 7)]
        BY <2>11, <4>1, Zenon
      <4> QED
        BY <2>10, <4>1, <4>2
    <3>2. w[fdt + 2 * k + 9] = 0
      <4>1. off - 1 \in 8..(off - 1) /\ fdt + (off - 1) = fdt + off - 1
        BY <2>1, <2>3, <2>4
      <4>2. w[fdt + (off - 1)] = q[fdt + (off - 1)]
        BY <2>7, <4>1
      <4> QED
        BY <2>2, <2>3, <2>10, <4>1, <4>2
    <3> QED
      BY <2>8, <2>10, <3>1, <3>2, Zenon DEF HasReserved
  <2>15. mem' = w /\ fdt' = fdt
    BY <1>2, <2>5, Zenon DEF Return
  <2>16. KeepsReserved(mem, fdt, mem', fdt')
    BY <2>9, <2>13, <2>14, <2>15, Zenon DEF KeepsReserved
  <2>17. KeepsPieces(mem, fdt, mem', fdt')
    <3>1. mem[fdt + 7] = 0
      BY <2>1, Zenon DEF Writing, Layout
    <3>2. KeepsPieces(mem, fdt, w, fdt)
      BY <2>1, <2>8, <3>1, EmptyStays
    <3> QED
      BY <2>15, <3>2, Zenon
  <2>18. PiecesAreRead /\ PiecesAreRead' /\ HeaderIsRead /\ HeaderIsRead' /\ fdt' # NULL
    BY <2>15, AllAreRead
  <2>19. pieces' = pieces
    BY <2>17, <2>18, PiecesKept
  <2>20. reserved' = reserved /\ ReservationsAre'
    BY <2>16, <2>18, ReservedKept
  <2>21. stage = "memrsv" /\ stage' = "struct"
    <3>1. StageOf(mem, fdt) = "memrsv" /\ StageOf(w, fdt) = "struct"
      BY <2>1, <2>8 DEF StageOf, FDT_SW_MAGIC, FDT_MAGIC
    <3> QED
      BY <2>15, <2>18, <3>1, Zenon DEF HeaderIsRead
  <2> QED
    BY <2>19, <2>20, <2>21, Zenon DEF Tree!FinishReservations
<1> QED
  BY <1>1, <1>2, Zenon DEF fdt_finish_reservemap

----------------------------------------------------------------------------
(* The calls that write the pieces *)

LEMMA AppendedIs ==
    ASSUME NEW S, NEW s \in Seq(S), NEW x, NEW t, t = Append(s, x)
    PROVE  t # << >> /\ Tree!Front(t) = s /\ Tree!Last(t) = x
<1>1. s \in Seq(S \cup {x})
  OBVIOUS
<1>2. t \in Seq(S \cup {x}) /\ Len(t) = Len(s) + 1 /\ t[Len(t)] = x /\ Len(s) \in Nat
  BY <1>1
<1>3. SubSeq(t, 1, Len(t) - 1) = s
  BY <1>1, <1>2
<1> QED
  BY <1>2, <1>3 DEF Tree!Front, Tree!Last

LEMMA PiecesAre ==
    /\ \A n \in Names : Begins(n) \in Tree!Pieces
    /\ Ended \in Tree!Pieces
    /\ \A n \in PropNames, v \in Values : Prop(n, v) \in Tree!Pieces
<1>1. ASSUME NEW n \in Names PROVE Begins(n) \in Tree!Pieces
  <2>1. Begins(n) = Tree!BeginNode(n)
    BY DEF Begins, Tree!BeginNode
  <2> QED
    BY <2>1 DEF Tree!Pieces
<1>2. Ended \in Tree!Pieces
  <2>1. Ended = Tree!EndNode
    BY DEF Ended, Tree!EndNode
  <2> QED
    BY <2>1 DEF Tree!Pieces
<1>3. ASSUME NEW n \in PropNames, NEW v \in Values PROVE Prop(n, v) \in Tree!Pieces
  <2>1. Prop(n, v) = Tree!Property(n, v)
    BY DEF Prop, Tree!Property
  <2> QED
    BY <2>1 DEF Tree!Pieces
<1> QED
  BY <1>1, <1>2, <1>3

(* A tag that stands for a piece, written behind the others *)
LEMMA TagIsStep ==
    ASSUME WriterInv, ReservationsAre, WriterInv', fdt # NULL, fdt' = fdt,
           NEW total, NEW off, NEW strs, NEW size, WritingAt(mem, fdt, total, off, strs, size),
           mem[fdt + 3] # 0, NEW n, mem' = n,
           NEW top, CopyAt(mem, fdt, total, off, strs, size, n, fdt, total, top),
           NEW at, NEW end, at = fdt + off, end = fdt + total,
           IsTag(n, at, size, top), size < top, n[at + size] # FDT_NOP,
           NEW piece \in Tree!Pieces, PieceOf(n, at, end, size) = piece
    PROVE  ReservationsAre' /\ Tree!Write
<1>1. PICK k : HasReserved(mem, fdt, k)
  BY Zenon DEF ReservationsAre
<1>2. AddsPiece(mem, fdt, n, fdt, piece) /\ KeepsReserved(mem, fdt, n, fdt)
  BY <1>1, TagIsAdded
<1>3. AddsPiece(mem, fdt, mem', fdt', piece) /\ KeepsReserved(mem, fdt, mem', fdt')
  BY <1>2, Zenon
<1>4. PiecesAreRead /\ PiecesAreRead' /\ HeaderIsRead /\ HeaderIsRead' /\ fdt' # NULL
  BY AllAreRead
<1>5. reserved' = reserved /\ ReservationsAre'
  BY <1>3, <1>4, ReservedKept
<1>6. pieces' = Append(pieces, piece) /\ \E S : pieces \in Seq(S)
  BY <1>3, <1>4, PieceAdded
<1>7. stage = "struct" /\ stage' = "struct"
  <2>1. StageOf(mem, fdt) = "struct" /\ StageOf(n, fdt) = "struct"
    BY DEF StageOf, WritingAt, CopyAt, FDT_SW_MAGIC, FDT_MAGIC
  <2> QED
    BY <1>4, <2>1, Zenon DEF HeaderIsRead
<1>8. pieces' # << >> /\ Tree!Front(pieces') = pieces /\ Tree!Last(pieces') = piece
  BY <1>6, AppendedIs
<1> QED
  BY <1>5, <1>7, <1>8, Zenon DEF Tree!Write

(* All that is there when a tag is written stays. *)
LEMMA GrabbedKeeps ==
    ASSUME NEW m \in Mem, NEW total, NEW off, NEW strs, NEW size,
           Sizes(m, total, off, strs, size), NEW n \in Nat, HasSpace(m, n),
           NEW s \in Seq(Int), Len(s) <= n, NEW g, g = Grabbed(m, n, s), NEW top, top = size + n
    PROVE  /\ g[fdt + 7] = top /\ top \in Nat /\ off + top + strs <= total
           /\ \A k \in 0..4 : g[fdt + k] = m[fdt + k]
           /\ \A x \in 8..(off + size - 1) : g[fdt + x] = m[fdt + x]
           /\ \A y \in 1..strs : g[fdt + total - y] = m[fdt + total - y]
<1> PICK len, last : len = Len(s) /\ last = fdt + off + size
  OBVIOUS
<1>1. /\ fdt \in Nat /\ total \in Nat /\ off \in Nat /\ strs \in Nat /\ size \in Nat
      /\ 8 <= off /\ off + size + strs <= total /\ fdt + total <= MemSize /\ MemSize \in Nat
  BY DEF Sizes
<1>2. len <= n
  OBVIOUS
<1>3. /\ last \in Nat /\ last >= fdt + 8 /\ last + n <= fdt + total - strs /\ len \in Nat
      /\ g[fdt + 7] = size + n
      /\ \A i \in 0..(MemSize - 1) : i # fdt + 7 /\ (i < last \/ last + len <= i) => g[i] = m[i]
  <2>1. /\ last \in Nat /\ last >= fdt + 8 /\ last + n <= fdt + total - strs /\ len \in Nat
        /\ Grabbed(m, n, s) \in Mem /\ Grabbed(m, n, s)[fdt + 7] = size + n
        /\ \A i \in 0..(MemSize - 1) :
              i # fdt + 7 /\ (i < last \/ last + len <= i) => Grabbed(m, n, s)[i] = m[i]
    BY <1>2, GrabbedCells
  <2> QED
    BY <2>1, Zenon
<1>4. \A k \in 0..4 : g[fdt + k] = m[fdt + k]
  <2>1. \A k \in 0..4 : fdt + k \in 0..(MemSize - 1) /\ fdt + k # fdt + 7 /\ fdt + k < last
    BY <1>1, <1>3
  <2> QED
    BY <1>3, <2>1, Zenon
<1>5. \A x \in 8..(off + size - 1) : g[fdt + x] = m[fdt + x]
  <2>1. \A x \in 8..(off + size - 1) :
            fdt + x \in 0..(MemSize - 1) /\ fdt + x # fdt + 7 /\ fdt + x < last
    BY <1>1, <1>3
  <2> QED
    BY <1>3, <2>1, Zenon
<1>6. \A y \in 1..strs : g[fdt + total - y] = m[fdt + total - y]
  <2>1. \A y \in 1..strs : /\ fdt + total - y \in 0..(MemSize - 1) /\ fdt + total - y # fdt + 7
                           /\ last + len <= fdt + total - y
    BY <1>1, <1>2, <1>3
  <2> QED
    BY <1>3, <2>1, Zenon
<1>7. top \in Nat /\ off + top + strs <= total
  BY <1>1, <1>3
<1> QED
  BY <1>3, <1>4, <1>5, <1>6, <1>7, Zenon

(* A property's value behind its words *)
LEMMA PropValue ==
    ASSUME NEW value \in Seq(Nat), NEW nameoff \in Int,
           NEW s, s = ((Word(FDT_PROP) \o Word(Len(value))) \o Word(nameoff)) \o value
    PROVE  \A i \in 1..Len(value) : s[3 * FDT_TAGSIZE + i] = value[i]
<1>a. PICK len, u, v, w : /\ len = Len(value)
                        /\ u = Word(FDT_PROP) /\ v = Word(len) /\ w = Word(nameoff)
  OBVIOUS
<1>b. PICK t, prop : t = u \o v /\ prop = t \o w
  OBVIOUS
<1>0. FDT_TAGSIZE \in Nat \ {0} /\ len \in Nat
  BY <1>a, TagSize
<1>1. /\ u \in Seq(Int) /\ v \in Seq(Int) /\ w \in Seq(Int)
      /\ Len(u) = FDT_TAGSIZE /\ Len(v) = FDT_TAGSIZE /\ Len(w) = FDT_TAGSIZE
  <2>1. FDT_PROP \in Int /\ len \in Int /\ nameoff \in Int
    BY <1>0 DEF FDT_PROP
  <2> QED
    BY ONLY <1>a, <2>1, WordIs, Zenon
<1>2. t \in Seq(Int) /\ Len(t) = Len(u) + Len(v)
  <2>1. u \in Seq(Int) /\ v \in Seq(Int) /\ t = u \o v
    BY <1>1, <1>b, Zenon
  <2> QED
    BY ONLY <2>1, Concatenation
<1>3. prop \in Seq(Int) /\ Len(prop) = Len(t) + Len(w)
  <2>1. t \in Seq(Int) /\ w \in Seq(Int) /\ prop = t \o w
    BY <1>1, <1>2, <1>b, Zenon
  <2> QED
    BY ONLY <2>1, Concatenation
<1>4. Len(prop) = 3 * FDT_TAGSIZE
  BY <1>0, <1>1, <1>2, <1>3
<1>5. s = prop \o value
  <2>1. prop = (Word(FDT_PROP) \o Word(Len(value))) \o Word(nameoff)
    BY ONLY <1>a, <1>b, Zenon
  <2> QED
    BY <2>1, Zenon
<1>6. \A i \in 1..Len(value) : s[Len(prop) + i] = value[i]
  <2>1. prop \in Seq(Int) /\ value \in Seq(Int)
    BY <1>3
  <2> QED
    BY ONLY <1>5, <2>1, Concatenation
<1> QED
  BY <1>4, <1>6, Zenon

LEMMA StructIs ==
    ASSUME WriterInv, fdt # NULL, InStruct(mem)
    PROVE  /\ \E total, off, strs, size : /\ WritingAt(mem, fdt, total, off, strs, size)
                                          /\ Sizes(mem, total, off, strs, size)
           /\ fdt \in Nat /\ mem \in Mem /\ Writing(mem, fdt)
           /\ mem[fdt + 3] = mem[fdt + 1] /\ mem[fdt + 3] # 0
<1>1. /\ fdt \in Nat /\ mem \in Mem /\ Writing(mem, fdt) /\ Layout(mem, fdt)
      /\ mem[fdt + 3] = mem[fdt + 1]
  BY StructIsBegun
<1>2. mem[fdt] = FDT_SW_MAGIC
  BY <1>1, Zenon DEF Writing
<1>3. PICK total, off, strs, size : /\ WritingAt(mem, fdt, total, off, strs, size)
                                    /\ Sizes(mem, total, off, strs, size)
  BY <1>2, WritingIs
<1>4. mem[fdt + 3] # 0
  BY <1>1, <1>3 DEF WritingAt
<1> QED
  BY <1>1, <1>3, <1>4

(* The cells of a blob with a tag behind the others *)
LEMMA GrabbedIsCopy ==
    ASSUME NEW total, NEW off, NEW strs, NEW size, WritingAt(mem, fdt, total, off, strs, size),
           NEW m \in Mem, NEW more, Sizes(m, total, off, more, size), strs <= more,
           CopyAt(mem, fdt, total, off, strs, size, m, fdt, total, size),
           NEW n \in Nat, HasSpace(m, n), NEW s \in Seq(Int), Len(s) <= n,
           NEW g, g = Grabbed(m, n, s), NEW top, top = size + n
    PROVE  CopyAt(mem, fdt, total, off, strs, size, g, fdt, total, top)
<1>1. /\ g[fdt + 7] = top /\ top \in Nat /\ off + top + more <= total
      /\ \A k \in 0..4 : g[fdt + k] = m[fdt + k]
      /\ \A x \in 8..(off + size - 1) : g[fdt + x] = m[fdt + x]
      /\ \A y \in 1..more : g[fdt + total - y] = m[fdt + total - y]
  BY GrabbedKeeps
<1>2. /\ fdt \in Nat /\ strs \in Nat /\ size \in Nat /\ more \in Nat /\ off \in Nat /\ total \in Nat
      /\ fdt + total <= MemSize
  BY DEF WritingAt, Sizes
<1>3. size <= top /\ off + top + strs <= total
  BY <1>1, <1>2
<1>4. /\ g[fdt] = m[fdt] /\ g[fdt + 1] = m[fdt + 1] /\ g[fdt + 2] = m[fdt + 2]
      /\ g[fdt + 3] = m[fdt + 3] /\ g[fdt + 4] = m[fdt + 4]
  <2>1. fdt + 0 = fdt /\ {0, 1, 2, 3, 4} \subseteq 0..4
    BY <1>2
  <2> QED
    BY <1>1, <2>1
<1>5. \A y \in 1..strs : g[fdt + total - y] = m[fdt + total - y]
  <2>1. \A y \in 1..strs : y \in 1..more
    BY <1>2
  <2> QED
    BY <1>1, <2>1, Zenon
<1>6. /\ m[fdt] = FDT_SW_MAGIC /\ m[fdt + 1] = total /\ m[fdt + 2] = off
      /\ m[fdt + 4] = mem[fdt + 4] /\ (m[fdt + 3] = 0 <=> mem[fdt + 3] = 0)
      /\ \A x \in 8..(off + size - 1) : m[fdt + x] = mem[fdt + x]
      /\ \A y \in 1..strs : m[fdt + total - y] = mem[fdt + total - y]
  BY Zenon DEF CopyAt
<1>7. \A x \in 8..(off + size - 1) : g[fdt + x] = mem[fdt + x]
  BY <1>1, <1>6, Zenon
<1>8. \A y \in 1..strs : g[fdt + total - y] = mem[fdt + total - y]
  BY <1>5, <1>6, Zenon
<1> QED
  BY <1>1, <1>2, <1>3, <1>4, <1>6, <1>7, <1>8, Zenon DEF CopyAt

(* A blob is a copy of itself. *)
LEMMA IsCopy ==
    ASSUME NEW total, NEW off, NEW strs, NEW size, WritingAt(mem, fdt, total, off, strs, size)
    PROVE  CopyAt(mem, fdt, total, off, strs, size, mem, fdt, total, size) /\ strs <= strs
  BY DEF WritingAt, CopyAt

LEMMA BeginNodeIsStep ==
    ASSUME WriterInv, ReservationsAre, WriterInv', fdt # NULL,
           NEW name \in Names, fdt_begin_node(name)
    PROVE  ReservationsAre' /\ (TreeUnchanged \/ Tree!Write)
<1>1. CASE \E e : Refuse(e)
  BY <1>1, RefusalIsNoStep
<1>2. CASE /\ InStruct(mem) /\ HasSpace(mem, NodeSize(name))
           /\ Return(Grabbed(mem, NodeSize(name), Word(FDT_BEGIN_NODE) \o Terminated(name)))
  <2>1. /\ fdt \in Nat /\ mem \in Mem /\ Writing(mem, fdt)
        /\ mem[fdt + 3] = mem[fdt + 1] /\ mem[fdt + 3] # 0
    BY <1>2, StructIs
  <2>2. PICK total, off, strs, size : /\ WritingAt(mem, fdt, total, off, strs, size)
                                      /\ Sizes(mem, total, off, strs, size)
    BY <1>2, StructIs
  <2>a. PICK s, n, k : /\ s = Word(FDT_BEGIN_NODE) \o Terminated(name) /\ n = NodeSize(name)
                       /\ k = Len(name)
    OBVIOUS
  <2>b. PICK g, at, end, top : /\ g = Grabbed(mem, n, s) /\ at = fdt + off /\ end = fdt + total
                               /\ top = size + n
    OBVIOUS
  <2>3. name \in Seq(Nat \ {0})
    BY ConstantsAreTyped
  <2>4. HasSpace(mem, n)
    BY <1>2, <2>a
  <2>5. NodeBegins(g, at, size, n, s, name)
    BY ONLY <2>1, <2>2, <2>3, <2>4, <2>a, <2>b, BegunCells
  <2>6. /\ n \in Nat /\ 0 < n /\ s \in Seq(Int) /\ Len(s) <= n
        /\ g[at + size] = FDT_BEGIN_NODE /\ IsTag(g, at, size, top)
        /\ FDT_TAGSIZE + k + 1 <= n
        /\ \A i \in 1..k : g[at + (size + FDT_TAGSIZE + i - 1)] = name[i]
        /\ g[at + (size + FDT_TAGSIZE + k)] = 0
    BY <2>5, <2>a, <2>b, Zenon DEF NodeBegins
  <2>7. CopyAt(mem, fdt, total, off, strs, size, g, fdt, total, top)
    <3>1. /\ CopyAt(mem, fdt, total, off, strs, size, mem, fdt, total, size) /\ strs <= strs
      BY <2>2, IsCopy
    <3> QED
      BY ONLY <2>1, <2>2, <2>4, <2>6, <2>b, <3>1, GrabbedIsCopy
  <2>8. /\ at \in Nat /\ size \in Nat /\ top \in Nat /\ k \in Nat
        /\ off + top <= total /\ fdt + total <= MemSize /\ total \in Nat
    <3>1. /\ fdt \in Nat /\ off \in Nat /\ total \in Nat /\ strs \in Nat /\ size \in Nat
          /\ off + top + strs <= total /\ fdt + total <= MemSize /\ top \in Nat
      BY <2>2, <2>7 DEF WritingAt, CopyAt
    <3>2. k \in Nat
      BY <2>3, <2>a
    <3> QED
      BY <2>b, <3>1, <3>2
  <2> PICK a : a = at + size + FDT_TAGSIZE
    OBVIOUS
  <2>9. StringAt(g, a) = name
    <3>1. a \in Nat /\ a + k < MemSize /\ a + k = at + (size + FDT_TAGSIZE + k)
      BY <2>1, <2>2, <2>6, <2>8, <2>b, TagSize DEF WritingAt
    <3>2. g[a + k] = 0
      BY <2>6, <3>1
    <3>3. \A j \in 1..k : g[a + j - 1] = name[j]
      <4>1. \A j \in 1..k : a + j - 1 = at + (size + FDT_TAGSIZE + j - 1)
        BY <2>8, TagSize
      <4> QED
        BY <2>6, <4>1
    <3> QED
      <4>1. k = Len(name) /\ a \in Nat /\ a + k < MemSize
        BY <2>a, <3>1
      <4> QED
        BY ONLY <2>3, <3>2, <3>3, <4>1, StringIs
  <2>10. PieceOf(g, at, end, size) = Begins(name)
    BY <2>6, <2>9, PieceOfBegin
  <2>11. Begins(name) \in Tree!Pieces
    BY PiecesAre
  <2>12. g[at + size] # FDT_NOP /\ size < top
    BY <2>6, <2>8, <2>b DEF FDT_BEGIN_NODE, FDT_NOP
  <2>13. mem' = g /\ fdt' = fdt
    BY <1>2, <2>a, <2>b, Zenon DEF Return
  <2>14. ReservationsAre' /\ Tree!Write
    BY <2>1, <2>2, <2>6, <2>7, <2>10, <2>11, <2>12, <2>13, <2>b, TagIsStep
  <2> QED
    BY <2>14
<1> QED
  BY <1>1, <1>2, Zenon DEF fdt_begin_node

LEMMA EndNodeIsStep ==
    ASSUME WriterInv, ReservationsAre, WriterInv', fdt # NULL, fdt_end_node
    PROVE  ReservationsAre' /\ (TreeUnchanged \/ Tree!Write)
<1>1. CASE \E e : Refuse(e)
  BY <1>1, RefusalIsNoStep
<1>2. CASE /\ InStruct(mem) /\ HasSpace(mem, FDT_TAGSIZE)
           /\ Return(Grabbed(mem, FDT_TAGSIZE, Word(FDT_END_NODE)))
  <2>1. /\ fdt \in Nat /\ mem \in Mem /\ Writing(mem, fdt)
        /\ mem[fdt + 3] = mem[fdt + 1] /\ mem[fdt + 3] # 0
    BY <1>2, StructIs
  <2>2. PICK total, off, strs, size : /\ WritingAt(mem, fdt, total, off, strs, size)
                                      /\ Sizes(mem, total, off, strs, size)
    BY <1>2, StructIs
  <2>a. PICK s, n : s = Word(FDT_END_NODE) /\ n = FDT_TAGSIZE
    OBVIOUS
  <2>b. PICK g, at, end, top : /\ g = Grabbed(mem, n, s) /\ at = fdt + off /\ end = fdt + total
                               /\ top = size + n
    OBVIOUS
  <2>3. n \in Nat /\ 0 < n /\ HasSpace(mem, n)
    BY <1>2, <2>a, TagSize
  <2>4. s \in Seq(Int) /\ Len(s) = n /\ s[1] = FDT_END_NODE
    BY <2>a, WordIs DEF FDT_END_NODE
  <2>5. Len(s) <= n
    BY <2>3, <2>4
  <2>6. g[at + size] = FDT_END_NODE
    BY <2>1, <2>2, <2>3, <2>4, <2>5, <2>b, GrabbedFirst
  <2>7. Aligned(size) /\ size \in Nat
    BY <2>1, <2>2, SizeIsAligned
  <2>8. IsTag(g, at, size, top)
    BY <2>6, <2>7, <2>a, <2>b, EndNodeIsTag
  <2>9. CopyAt(mem, fdt, total, off, strs, size, g, fdt, total, top)
    <3>1. /\ CopyAt(mem, fdt, total, off, strs, size, mem, fdt, total, size) /\ strs <= strs
      BY <2>2, IsCopy
    <3> QED
      BY ONLY <2>1, <2>2, <2>3, <2>4, <2>5, <2>b, <3>1, GrabbedIsCopy
  <2>10. PieceOf(g, at, end, size) = Ended
    BY <2>6, PieceOfEnd
  <2>11. Ended \in Tree!Pieces
    BY PiecesAre
  <2>12. g[at + size] # FDT_NOP /\ size < top
    BY <2>3, <2>6, <2>7, <2>b DEF FDT_END_NODE, FDT_NOP
  <2>13. mem' = g /\ fdt' = fdt
    BY <1>2, <2>a, <2>b, Zenon DEF Return
  <2>14. ReservationsAre' /\ Tree!Write
    BY <2>1, <2>2, <2>8, <2>9, <2>10, <2>11, <2>12, <2>13, <2>b, TagIsStep
  <2> QED
    BY <2>14
<1> QED
  BY <1>1, <1>2, Zenon DEF fdt_end_node

(* The string a property's offset leads to, counted from the end *)
NameLies(m, end, name, k, nameoff) ==
    /\ k \in Nat /\ nameoff \in Int /\ nameoff + k <= -1
    /\ \A i \in 1..k : m[end + nameoff + i - 1] = name[i]
    /\ m[end + nameoff + k] = 0

(* fdt_find_string_ finds a name that is there. *)
LEMMA FoundNameLies ==
    ASSUME NEW m, NEW total, NEW off, NEW strs, NEW size, Sizes(m, total, off, strs, size),
           NEW name \in Seq(Nat \ {0}), ~IsAllocated(m, name),
           NEW k, k = Len(name), NEW end, end = fdt + total,
           NEW nameoff, nameoff = NameOffset(m, name)
    PROVE  NameLies(m, end, name, k, nameoff)
<1>1. /\ fdt \in Nat /\ total \in Nat /\ strs \in Nat /\ fdt + total - strs \in Nat
      /\ m[fdt + 1] = total /\ m[fdt + 6] = strs
  BY DEF Sizes
<1>2. size_dt_strings(m) = strs /\ strtab(m) = end
  BY <1>1, FieldsAre, Zenon
<1>a. PICK places : places = StringPlaces(m, name)
  OBVIOUS
<1>3. k \in Nat /\ end \in Nat
  BY <1>1
<1>4. places = {p \in (end - strs)..(end - (k + 1)) : Cells(m, p, k + 1) = Terminated(name)}
  BY <1>2, <1>a, Zenon DEF StringPlaces
<1>5. places # {} /\ places \subseteq Nat
  <2>1. places # {}
    BY <1>a DEF IsAllocated
  <2>2. end - strs \in Nat
    BY <1>1
  <2> QED
    BY <1>3, <1>4, <2>1, <2>2
<1>6. PICK p \in places : \A q \in places : p <= q
  BY <1>5, LeastOf
<1>b. PICK q : q = Min(places)
  OBVIOUS
<1>7. q \in places
  <2>1. \E x \in places : \A y \in places : x <= y
    BY <1>6
  <2> QED
    BY <1>b, <2>1, Zenon DEF Min
<1>8. nameoff = q - end
  BY <1>2, <1>a, <1>b, Zenon DEF NameOffset
<1>9. q \in Nat /\ q <= end - (k + 1) /\ Cells(m, q, k + 1) = Terminated(name)
  <2>1. q \in (end - strs)..(end - (k + 1)) /\ Cells(m, q, k + 1) = Terminated(name)
    BY <1>4, <1>7
  <2>2. q \in Nat
    BY <1>5, <1>7
  <2> QED
    BY <1>1, <1>3, <2>1, <2>2
<1>10. \A i \in 1..(k + 1) : m[q + i - 1] = Terminated(name)[i]
  <2>1. \A i \in 1..(k + 1) : Cells(m, q, k + 1)[i] = m[q + i - 1]
    BY DEF Cells
  <2> QED
    BY <1>9, <2>1, Zenon
<1>11. Terminated(name)[k + 1] = 0 /\ \A i \in 1..k : Terminated(name)[i] = name[i]
  BY DEF Terminated
<1>12. /\ nameoff \in Int /\ nameoff + k <= -1 /\ end + nameoff = q
       /\ end + nameoff + k = q + (k + 1) - 1
  BY ONLY <1>3, <1>8, <1>9
<1>13. \A i \in 1..k : m[end + nameoff + i - 1] = name[i]
  <2>1. \A i \in 1..k : i \in 1..(k + 1)
    BY <1>3
  <2> QED
    BY <1>10, <1>11, <1>12, <2>1, Zenon
<1>14. m[end + nameoff + k] = 0
  <2>1. k + 1 \in 1..(k + 1)
    BY <1>3
  <2> QED
    BY <1>10, <1>11, <1>12, <2>1, Zenon
<1> QED
  BY <1>3, <1>12, <1>13, <1>14, Zenon DEF NameLies

(* fdt_add_string_ puts the others' strings where they were. *)
LEMMA AddedNameLies ==
    ASSUME NEW m \in Mem, NEW total, NEW off, NEW strs, NEW size,
           Sizes(m, total, off, strs, size), NEW name \in Seq(Nat \ {0}),
           IsAllocated(m, name), StringHasSpace(m, name),
           NEW k, k = Len(name), NEW end, end = fdt + total,
           NEW g, g = StringAdded(m, name), NEW nameoff, nameoff = NameOffset(m, name)
    PROVE  /\ NameLies(g, end, name, k, nameoff)
           /\ \A x \in 0..(off + size - 1) : x # 6 => g[fdt + x] = m[fdt + x]
           /\ \A y \in 1..strs : g[end - y] = m[end - y]
<1>a. PICK more, top : more = strs + k + 1 /\ top = fdt + total - more
  OBVIOUS
<1>1. StringLands(m, total, off, strs, size, name, k, more, top, g)
  BY <1>a, StringAddedCells, Zenon
<1>2. /\ k \in Nat /\ more \in Nat /\ total - more >= off + size
      /\ top \in Nat /\ fdt + 8 <= top
      /\ \A i \in 0..(MemSize - 1) :
            i # fdt + 6 /\ (i < top \/ fdt + total - strs <= i) => g[i] = m[i]
      /\ \A i \in 1..k : g[top + i - 1] = name[i]
      /\ g[top + k] = 0
  BY <1>1, Zenon DEF StringLands
<1>3. /\ fdt \in Nat /\ total \in Nat /\ off \in Nat /\ strs \in Nat /\ size \in Nat
      /\ 8 <= off /\ off + size + strs <= total /\ fdt + total <= MemSize /\ MemSize \in Nat
  BY DEF Sizes
<1>4. nameoff = -more
  <2>1. NameOffset(m, name) = -(strs + Len(name) + 1)
    BY NameOffsetIs
  <2> QED
    BY <1>a, <2>1, Zenon
<1>5. end \in Nat /\ nameoff \in Int /\ nameoff + k <= -1 /\ end + nameoff = top
  <2>1. more = strs + k + 1 /\ top = fdt + total - more
    BY <1>a, Zenon
  <2> QED
    BY <1>2, <1>3, <1>4, <2>1
<1>6. NameLies(g, end, name, k, nameoff)
  BY <1>2, <1>5, Zenon DEF NameLies
<1>7. \A x \in 0..(off + size - 1) : x # 6 => g[fdt + x] = m[fdt + x]
  <2>1. TAKE x \in 0..(off + size - 1)
  <2>2. HAVE x # 6
  <2>3. top = fdt + total - more
    BY <1>a, Zenon
  <2>4. fdt + x \in 0..(MemSize - 1) /\ fdt + x # fdt + 6 /\ fdt + x < top
    BY <1>2, <1>3, <2>2, <2>3
  <2> QED
    BY <1>2, <2>4, Zenon
<1>8. \A y \in 1..strs : g[end - y] = m[end - y]
  <2>1. TAKE y \in 1..strs
  <2>2. end - y \in 0..(MemSize - 1) /\ end - y # fdt + 6 /\ fdt + total - strs <= end - y
    BY <1>3
  <2> QED
    BY <1>2, <2>2, Zenon
<1> QED
  BY <1>6, <1>7, <1>8

(* The blob with the name among its strings, for a property *)
IsNamed(total, off, strs, size, name, k, nameoff, named, more) ==
    /\ named \in Mem /\ Writing(named, fdt) /\ Sizes(named, total, off, more, size)
    /\ strs <= more /\ nameoff \in -more..-1
    /\ CopyAt(mem, fdt, total, off, strs, size, named, fdt, total, size)
    /\ NameLies(named, fdt + total, name, k, nameoff)

LEMMA NameIsPut ==
    ASSUME NEW total, NEW off, NEW strs, NEW size, WritingAt(mem, fdt, total, off, strs, size),
           mem \in Mem, Writing(mem, fdt), mem[fdt + 3] = mem[fdt + 1],
           Sizes(mem, total, off, strs, size),
           NEW name \in Seq(Nat \ {0}), IsAllocated(mem, name) => StringHasSpace(mem, name),
           NEW named, named = IF IsAllocated(mem, name) THEN StringAdded(mem, name) ELSE mem,
           NEW k, k = Len(name), NEW nameoff, nameoff = NameOffset(mem, name)
    PROVE  \E more : IsNamed(total, off, strs, size, name, k, nameoff, named, more)
<1>a. PICK end : end = fdt + total
  OBVIOUS
<1>1. CASE ~IsAllocated(mem, name)
  <2>1. named = mem
    BY <1>1
  <2>2. nameoff \in -strs..-1
    BY <1>1, NameOffsetIs
  <2>3. NameLies(mem, end, name, k, nameoff)
    BY <1>1, <1>a, FoundNameLies
  <2>4. CopyAt(mem, fdt, total, off, strs, size, mem, fdt, total, size) /\ strs <= strs
    BY IsCopy
  <2> QED
    BY <1>a, <2>1, <2>2, <2>3, <2>4, Zenon DEF IsNamed
<1>2. CASE IsAllocated(mem, name)
  <2>1. named = StringAdded(mem, name) /\ StringHasSpace(mem, name)
    BY <1>2
  <2>a. PICK more : more = strs + Len(name) + 1
    OBVIOUS
  <2>2. named \in Mem /\ Writing(named, fdt) /\ Sizes(named, total, off, more, size) /\ strs <= more
    BY <2>1, <2>a, StringAddedIsWritten
  <2>3. /\ NameLies(named, end, name, k, nameoff)
        /\ \A x \in 0..(off + size - 1) : x # 6 => named[fdt + x] = mem[fdt + x]
        /\ \A y \in 1..strs : named[end - y] = mem[end - y]
    BY ONLY <1>2, <1>a, <2>1, mem \in Mem, Sizes(mem, total, off, strs, size),
       name \in Seq(Nat \ {0}), k = Len(name), nameoff = NameOffset(mem, name), AddedNameLies
  <2>4. /\ fdt \in Nat /\ total \in Nat /\ off \in Nat /\ strs \in Nat /\ size \in Nat
        /\ 8 <= off /\ off + size + strs <= total /\ fdt + total <= MemSize
        /\ mem[fdt] = FDT_SW_MAGIC /\ mem[fdt + 1] = total /\ mem[fdt + 2] = off
        /\ mem[fdt + 7] = size
    BY DEF WritingAt
  <2>5. /\ named[fdt] = FDT_SW_MAGIC /\ named[fdt + 1] = total /\ named[fdt + 2] = off
        /\ named[fdt + 7] = size /\ named[fdt + 4] = mem[fdt + 4]
        /\ named[fdt + 3] = mem[fdt + 3]
    <3>1. {0, 1, 2, 3, 4, 7} \subseteq 0..(off + size - 1) /\ fdt + 0 = fdt
      BY <2>4
    <3>2. \A x \in {0, 1, 2, 3, 4, 7} : named[fdt + x] = mem[fdt + x]
      <4>1. \A x \in {0, 1, 2, 3, 4, 7} : x # 6
        OBVIOUS
      <4> QED
        BY <2>3, <3>1, <4>1, Zenon
    <3>3. /\ named[fdt + 0] = mem[fdt + 0] /\ named[fdt + 1] = mem[fdt + 1]
          /\ named[fdt + 2] = mem[fdt + 2] /\ named[fdt + 7] = mem[fdt + 7]
          /\ named[fdt + 4] = mem[fdt + 4] /\ named[fdt + 3] = mem[fdt + 3]
      BY <3>2, Zenon
    <3> QED
      BY <2>4, <3>1, <3>3, Zenon
  <2>6. \A x \in 8..(off + size - 1) : named[fdt + x] = mem[fdt + x]
    <3>1. \A x \in 8..(off + size - 1) : x \in 0..(off + size - 1) /\ x # 6
      BY <2>4
    <3> QED
      BY <2>3, <3>1, Zenon
  <2>7. CopyAt(mem, fdt, total, off, strs, size, named, fdt, total, size)
    <3>1. size <= size
      BY <2>4
    <3>2. \A y \in 1..strs : named[fdt + total - y] = mem[fdt + total - y]
      <4>1. end = fdt + total /\ fdt \in Nat /\ total \in Nat
        BY <1>a, <2>4
      <4>2. \A y \in 1..strs : named[end - y] = mem[end - y]
        BY <2>3
      <4> QED
        BY ONLY <4>1, <4>2
    <3>3. named[fdt + 3] = 0 <=> mem[fdt + 3] = 0
      BY <2>5
    <3> QED
      BY <2>4, <2>5, <2>6, <3>1, <3>2, <3>3, Zenon DEF CopyAt
  <2>8. nameoff \in -more..-1
    <3>1. nameoff = -(strs + Len(name) + 1)
      BY <1>2, NameOffsetIs
    <3>2. nameoff = -more /\ more \in Nat /\ Len(name) \in Nat /\ strs \in Nat
      BY <2>2, <2>4, <2>a, <3>1 DEF Sizes
    <3>3. more # 0
      BY <2>a, <3>2
    <3> QED
      BY <3>2, <3>3
  <2> QED
    BY <1>a, <2>2, <2>3, <2>7, <2>8, Zenon DEF IsNamed
<1> QED
  BY <1>1, <1>2

(* A name that lies among the strings is read there. *)
LEMMA NameIsRead ==
    ASSUME NEW m, NEW g, NEW end \in Nat, end <= MemSize, NEW more \in Nat, more <= end,
           NEW name \in Seq(Nat \ {0}), NEW k, k = Len(name), NEW nameoff \in Int,
           -more <= nameoff, NameLies(m, end, name, k, nameoff), SameStrings(m, end, g, end, more),
           NEW p, p = end + nameoff
    PROVE  StringAt(g, p) = name
<1>1. /\ k \in Nat /\ nameoff + k <= -1
      /\ \A i \in 1..k : m[end + nameoff + i - 1] = name[i]
      /\ m[end + nameoff + k] = 0
  BY Zenon DEF NameLies
<1>2. p \in Nat /\ p + k < MemSize /\ end \in Nat
  BY <1>1, TagSize
<1>a. m[p + k] = 0 /\ \A i \in 1..k : m[p + i - 1] = name[i]
  BY <1>1, Zenon
<1>3. \A i \in 1..(k + 1) : g[p + i - 1] = m[p + i - 1]
  <2>1. TAKE i \in 1..(k + 1)
  <2>2. 1 - nameoff - i \in 1..more /\ end - (1 - nameoff - i) = p + i - 1
    BY <1>1, <1>2
  <2> QED
    BY <2>2, Zenon DEF SameStrings
<1>4. g[p + k] = 0
  <2>1. k + 1 \in 1..(k + 1) /\ p + (k + 1) - 1 = p + k
    BY <1>1, <1>2
  <2>2. g[p + (k + 1) - 1] = m[p + (k + 1) - 1]
    BY <1>3, <2>1, Zenon
  <2> QED
    BY <1>a, <2>1, <2>2, Zenon
<1>5. \A j \in 1..k : g[p + j - 1] = name[j]
  <2>1. TAKE j \in 1..k
  <2>2. j \in 1..(k + 1)
    BY <1>1
  <2>3. g[p + j - 1] = m[p + j - 1] /\ m[p + j - 1] = name[j]
    BY <1>a, <1>3, <2>2
  <2> QED
    BY <2>3
<1>6. k = Len(name)
  OBVIOUS
<1>7. name \in Seq(Nat \ {0})
  OBVIOUS
<1>8. p \in Nat /\ p + k < MemSize
  BY <1>2
<1> QED
  BY ONLY <1>4, <1>5, <1>6, <1>7, <1>8, StringIs

PropertyIsThere(g, at, end, size, name, value, n, s, top) ==
    /\ n \in Nat /\ 0 < n /\ s \in Seq(Int) /\ Len(s) <= n
    /\ g[at + size] = FDT_PROP /\ IsTag(g, at, size, top)
    /\ PieceOf(g, at, end, size) = Prop(name, value)

(* The tag that fdt_property writes, and what a reader finds there *)
LEMMA PropertyIsWritten ==
    ASSUME NEW m \in Mem, NEW total, NEW off, NEW more, NEW size,
           Sizes(m, total, off, more, size), Writing(m, fdt),
           NEW name \in Seq(Nat \ {0}), NEW k, k = Len(name),
           NEW nameoff, nameoff \in -more..-1, NEW end, end = fdt + total,
           NameLies(m, end, name, k, nameoff),
           NEW value \in Seq(Nat), NEW len, len = Len(value),
           NEW n, n = 3 * FDT_TAGSIZE + TagAlign(len), HasSpace(m, n),
           NEW s, PropRecord(s, len, nameoff), \A i \in 1..len : s[3 * FDT_TAGSIZE + i] = value[i],
           NEW g, g = Grabbed(m, n, s), NEW at, at = fdt + off, NEW top, top = size + n
    PROVE  PropertyIsThere(g, at, end, size, name, value, n, s, top)
<1>1. /\ fdt \in Nat /\ total \in Nat /\ off \in Nat /\ more \in Nat /\ size \in Nat
      /\ 8 <= off /\ off + size + more <= total /\ fdt + total <= MemSize /\ MemSize \in Nat
  BY DEF Sizes
<1>2. FDT_TAGSIZE \in Nat \ {0} /\ len \in Nat /\ nameoff \in Int
  BY <1>1, TagSize
<1>3. /\ s \in Seq(Int) /\ Len(s) = 3 * FDT_TAGSIZE + len
      /\ s[1] = FDT_PROP /\ s[FDT_TAGSIZE + 1] = len /\ s[2 * FDT_TAGSIZE + 1] = nameoff
  BY Zenon DEF PropRecord
<1>c. PICK room : room = TagAlign(len)
  OBVIOUS
<1>4. room \in Nat /\ len <= room /\ n = 3 * FDT_TAGSIZE + room
  BY <1>2, <1>c, TagAlignIs
<1>5. n \in Nat /\ 0 < n /\ Len(s) <= n
  BY ONLY <1>2, <1>3, <1>4
<1>6. \A j \in 1..Len(s) : g[at + (size + j - 1)] = s[j]
  <2>1. /\ m \in Mem /\ Sizes(m, total, off, more, size) /\ HasSpace(m, n)
        /\ g = Grabbed(m, n, s) /\ at = fdt + off
    OBVIOUS
  <2>2. n \in Nat /\ s \in Seq(Int) /\ Len(s) <= n
    BY <1>3, <1>5
  <2>3. \A c \in Nat : \A w \in Seq(Int) :
           HasSpace(m, c) /\ Len(w) <= c => ReadsBack(Grabbed(m, c, w), fdt + off, size, w)
    BY ONLY <2>1, GrabbedReadsBack, Zenon
  <2>4. ReadsBack(Grabbed(m, n, s), fdt + off, size, s)
    BY ONLY <2>1, <2>2, <2>3, Zenon
  <2>5. ReadsBack(g, at, size, s)
    BY ONLY <2>1, <2>4, Zenon
  <2> QED
    BY ONLY <2>5, Zenon DEF ReadsBack
<1>e. at = fdt + off
  OBVIOUS
<1>d. at = fdt + off /\ at \in Nat
  BY ONLY <1>1, <1>e
<1>7. /\ g[at + size] = FDT_PROP /\ g[at + size + FDT_TAGSIZE] = len
      /\ g[at + size + 2 * FDT_TAGSIZE] = nameoff
  <2>1. /\ 1 \in 1..Len(s) /\ FDT_TAGSIZE + 1 \in 1..Len(s) /\ 2 * FDT_TAGSIZE + 1 \in 1..Len(s)
        /\ at + (size + 1 - 1) = at + size
        /\ at + (size + (FDT_TAGSIZE + 1) - 1) = at + size + FDT_TAGSIZE
        /\ at + (size + (2 * FDT_TAGSIZE + 1) - 1) = at + size + 2 * FDT_TAGSIZE
    BY ONLY <1>1, <1>2, <1>3, <1>d
  <2> QED
    BY <1>3, <1>6, <2>1, Zenon
<1>8. IsTag(g, at, size, top)
  <2>1. Aligned(size)
    BY SizeIsAligned
  <2>2. IsTag(g, at, size, size + (3 * FDT_TAGSIZE + TagAlign(len)))
    BY <1>2, <1>7, <2>1, PropIsTag
  <2> QED
    BY <2>2, Zenon
<1>a. PICK a : a = at + size + 3 * FDT_TAGSIZE
  OBVIOUS
<1>9. Cells(g, a, len) = value
  <2>1. \A i \in 1..len : g[a + i - 1] = value[i]
    <3>1. TAKE i \in 1..len
    <3>2. /\ 3 * FDT_TAGSIZE + i \in 1..Len(s)
          /\ at + (size + (3 * FDT_TAGSIZE + i) - 1) = a + i - 1
      BY <1>1, <1>2, <1>3, <1>a
    <3> QED
      BY <1>6, <3>2, Zenon
  <2>2. value = [i \in 1..len |-> value[i]]
    OBVIOUS
  <2>3. Cells(g, a, len) = [i \in 1..len |-> value[i]]
    BY <2>1, Zenon DEF Cells
  <2> QED
    BY <2>2, <2>3, Zenon
<1>10. \A y \in 1..more : g[end - y] = m[end - y]
  <2>1. /\ m \in Mem /\ Sizes(m, total, off, more, size) /\ HasSpace(m, n)
        /\ g = Grabbed(m, n, s) /\ top = size + n
    OBVIOUS
  <2>3. s \in Seq(Int) /\ Len(s) <= n /\ n \in Nat
    BY <1>3, <1>5
  <2>2. \A y \in 1..more : g[fdt + total - y] = m[fdt + total - y]
    BY ONLY <2>1, <2>3, GrabbedKeeps
  <2>4. end = fdt + total /\ fdt \in Nat /\ total \in Nat
    BY <1>1
  <2> QED
    BY ONLY <2>2, <2>4
<1>b. PICK p : p = end + nameoff
  OBVIOUS
<1>11. StringAt(g, p) = name
  <2>1. end \in Nat /\ end <= MemSize /\ more \in Nat /\ more <= end
    <3>1. end = fdt + total
      OBVIOUS
    <3> QED
      BY ONLY <1>1, <3>1
  <2>2. NameLies(m, end, name, k, nameoff) /\ nameoff \in Int /\ -more <= nameoff /\ k = Len(name)
    BY <1>1
  <2>3. name \in Seq(Nat \ {0})
    OBVIOUS
  <2>4. SameStrings(m, end, g, end, more)
    BY <1>10 DEF SameStrings
  <2> QED
    BY ONLY <1>b, <2>1, <2>2, <2>3, <2>4, NameIsRead
<1>12. PieceOf(g, at, end, size) = Prop(name, value)
  <2>1. StringAt(g, end + g[at + size + 2 * FDT_TAGSIZE]) = name
    BY <1>7, <1>11, <1>b, Zenon
  <2>2. PieceOf(g, at, end, size) = Prop(name, Cells(g, a, len))
    <3>1. g[at + size] = FDT_PROP /\ len = g[at + size + FDT_TAGSIZE]
      BY <1>7, Zenon
    <3> QED
      BY ONLY <1>a, <2>1, <3>1, PieceOfProp
  <2> QED
    BY <1>9, <2>2, Zenon
<1> QED
  BY <1>3, <1>5, <1>7, <1>8, <1>12, Zenon DEF PropertyIsThere

(* A blob that is changed between its blocks only *)
LEMMA EndsAreCopied ==
    ASSUME NEW m \in Mem, NEW total, NEW off, NEW strs, NEW size,
           WritingAt(m, fdt, total, off, strs, size), MemSize \in Nat,
           NEW d, \A i \in 0..(MemSize - 1) :
                     i < fdt + off + size \/ fdt + total - strs <= i => d[i] = m[i]
    PROVE  CopyAt(m, fdt, total, off, strs, size, d, fdt, total, size)
<1>1. /\ fdt \in Nat /\ total \in Nat /\ off \in Nat /\ strs \in Nat /\ size \in Nat
      /\ m[fdt] = FDT_SW_MAGIC /\ m[fdt + 1] = total /\ m[fdt + 2] = off /\ m[fdt + 7] = size
      /\ 8 <= off /\ off + size + strs <= total /\ fdt + total <= MemSize
  BY Zenon DEF WritingAt
<1>2. \A x \in 0..(off + size - 1) : d[fdt + x] = m[fdt + x]
  <2>1. \A x \in 0..(off + size - 1) : /\ fdt + x \in 0..(MemSize - 1)
                                       /\ fdt + x < fdt + off + size
    BY <1>1
  <2> QED
    BY <2>1, Zenon
<1>3. \A y \in 1..strs : d[fdt + total - y] = m[fdt + total - y]
  <2>1. \A y \in 1..strs : /\ fdt + total - y \in 0..(MemSize - 1)
                           /\ fdt + total - strs <= fdt + total - y
    BY <1>1
  <2> QED
    BY <2>1, Zenon
<1>4. /\ d[fdt] = m[fdt] /\ d[fdt + 1] = m[fdt + 1] /\ d[fdt + 2] = m[fdt + 2]
      /\ d[fdt + 7] = m[fdt + 7] /\ d[fdt + 4] = m[fdt + 4] /\ d[fdt + 3] = m[fdt + 3]
  <2>1. fdt + 0 = fdt /\ \A x \in {0, 1, 2, 3, 4, 7} : x \in 0..(off + size - 1)
    BY <1>1
  <2> QED
    BY <1>2, <2>1
<1>5. \A x \in 8..(off + size - 1) : d[fdt + x] = m[fdt + x]
  <2>1. \A x \in 8..(off + size - 1) : x \in 0..(off + size - 1)
    BY <1>1
  <2> QED
    BY <1>2, <2>1, Zenon
<1>6. size <= size /\ (d[fdt + 3] = 0 <=> m[fdt + 3] = 0)
  BY <1>1, <1>4
<1> QED
  BY <1>1, <1>3, <1>4, <1>5, <1>6, Zenon DEF CopyAt

LEMMA PropertyIsStep ==
    ASSUME WriterInv, ReservationsAre, WriterInv', fdt # NULL,
           NEW name \in PropNames, NEW value \in Values, fdt_property(name, value)
    PROVE  ReservationsAre' /\ (TreeUnchanged \/ Tree!Write)
<1> DEFINE allocated == IsAllocated(mem, name)
           named     == IF allocated THEN StringAdded(mem, name) ELSE mem
           n         == 3 * FDT_TAGSIZE + TagAlign(Len(value))
           prop      == Word(FDT_PROP) \o Word(Len(value)) \o Word(NameOffset(mem, name))
<1>1. \/ ~InStruct(mem) /\ Refuse("BADSTATE")
      \/ InStruct(mem) /\ allocated /\ ~StringHasSpace(mem, name) /\ Refuse("NOSPACE")
      \/ /\ InStruct(mem) /\ (allocated => StringHasSpace(mem, name))
         /\ \/ HasSpace(named, n) /\ Return(Grabbed(named, n, prop \o value))
            \/ /\ ~HasSpace(named, n)
               /\ mem' = WithoutString(named, name, allocated)
               /\ ret' = "NOSPACE"
               /\ UNCHANGED fdt
  BY Zenon DEF fdt_property
<1>2. name \in Seq(Nat \ {0}) /\ value \in Seq(Nat)
  BY ConstantsAreTyped
<1> HIDE DEF allocated, named, n, prop
<1>3. CASE \E e : Refuse(e)
  BY <1>3, RefusalIsNoStep
<1>4. CASE InStruct(mem) /\ (allocated => StringHasSpace(mem, name))
  <2>1. /\ fdt \in Nat /\ mem \in Mem /\ Writing(mem, fdt)
        /\ mem[fdt + 3] = mem[fdt + 1] /\ mem[fdt + 3] # 0
    BY <1>4, StructIs
  <2>2. PICK total, off, strs, size : /\ WritingAt(mem, fdt, total, off, strs, size)
                                      /\ Sizes(mem, total, off, strs, size)
    BY <1>4, StructIs
  <2>a. PICK k, nameoff : k = Len(name) /\ nameoff = NameOffset(mem, name)
    OBVIOUS
  <2>3. PICK more : IsNamed(total, off, strs, size, name, k, nameoff, named, more)
    <3>1. IsAllocated(mem, name) => StringHasSpace(mem, name)
      BY <1>4 DEF allocated
    <3>2. named = IF IsAllocated(mem, name) THEN StringAdded(mem, name) ELSE mem
      BY DEF named, allocated
    <3> QED
      BY <1>2, <2>1, <2>2, <2>a, <3>1, <3>2, NameIsPut
  <2>4. /\ named \in Mem /\ Writing(named, fdt) /\ Sizes(named, total, off, more, size)
        /\ strs <= more /\ nameoff \in -more..-1
        /\ CopyAt(mem, fdt, total, off, strs, size, named, fdt, total, size)
        /\ NameLies(named, fdt + total, name, k, nameoff)
    BY <2>3, Zenon DEF IsNamed
  <2>5. CASE HasSpace(named, n) /\ Return(Grabbed(named, n, prop \o value))
    <3>a. PICK g, s, len, at, end, top : /\ s = prop \o value /\ g = Grabbed(named, n, s)
                                         /\ len = Len(value) /\ at = fdt + off
                                         /\ end = fdt + total /\ top = size + n
      OBVIOUS
    <3>1. s = ((Word(FDT_PROP) \o Word(Len(value))) \o Word(nameoff)) \o value
      BY <2>a, <3>a DEF prop
    <3>2. nameoff \in Int /\ len \in Nat
      <4>1. more \in Nat
        BY <2>4 DEF Sizes
      <4> QED
        BY <1>2, <2>4, <3>a, <4>1
    <3>3. PropRecord(s, len, nameoff)
      <4>1. PropRecord(s, Len(value), nameoff)
        <5>1. /\ value \in Seq(Nat) /\ nameoff \in Int
              /\ s = ((Word(FDT_PROP) \o Word(Len(value))) \o Word(nameoff)) \o value
          BY <1>2, <3>1, <3>2
        <5> QED
          BY ONLY <5>1, PropCells
      <4> QED
        BY <3>a, <4>1
    <3>4. \A i \in 1..len : s[3 * FDT_TAGSIZE + i] = value[i]
      <4>1. \A i \in 1..Len(value) : s[3 * FDT_TAGSIZE + i] = value[i]
        <5>1. /\ value \in Seq(Nat) /\ nameoff \in Int
              /\ s = ((Word(FDT_PROP) \o Word(Len(value))) \o Word(nameoff)) \o value
          BY <1>2, <3>1, <3>2
        <5> QED
          BY ONLY <5>1, PropValue
      <4> QED
        BY <3>a, <4>1
    <3>5. n = 3 * FDT_TAGSIZE + TagAlign(len) /\ HasSpace(named, n)
      BY <2>5, <3>a DEF n
    <3>6. PropertyIsThere(g, at, end, size, name, value, n, s, top)
      <4>1. name \in Seq(Nat \ {0})
        BY <1>2
      <4>2. value \in Seq(Nat)
        BY <1>2
      <4>3. NameLies(named, end, name, k, nameoff)
        BY <2>4, <3>a
      <4>4. g = Grabbed(named, n, s)
        BY <3>a
      <4> QED
        BY <2>4, <2>a, <3>3, <3>4, <3>5, <3>a, <4>1, <4>2, <4>3, <4>4, PropertyIsWritten
    <3>7. /\ n \in Nat /\ 0 < n /\ s \in Seq(Int) /\ Len(s) <= n
          /\ g[at + size] = FDT_PROP /\ IsTag(g, at, size, top)
          /\ PieceOf(g, at, end, size) = Prop(name, value)
      BY <3>6, Zenon DEF PropertyIsThere
    <3>8. CopyAt(mem, fdt, total, off, strs, size, g, fdt, total, top)
      <4>1. g = Grabbed(named, n, s) /\ top = size + n
        BY <3>a
      <4> QED
        BY ONLY <2>2, <2>4, <3>5, <3>7, <4>1, GrabbedIsCopy
    <3>9. Prop(name, value) \in Tree!Pieces
      BY PiecesAre
    <3>10. g[at + size] # FDT_NOP /\ size < top
      <4>1. size \in Nat /\ top = size + n
        BY <2>2, <3>a DEF Sizes
      <4>2. size < top
        BY <3>7, <4>1
      <4> QED
        BY <3>7, <4>2 DEF FDT_PROP, FDT_NOP
    <3>11. mem' = g /\ fdt' = fdt
      BY <2>5, <3>a, Zenon DEF Return
    <3>12. ReservationsAre' /\ Tree!Write
      BY <2>1, <2>2, <3>7, <3>8, <3>9, <3>10, <3>11, <3>a, TagIsStep
    <3> QED
      BY <3>12
  <2>6. CASE /\ ~HasSpace(named, n)
             /\ mem' = WithoutString(named, name, allocated)
             /\ ret' = "NOSPACE"
             /\ UNCHANGED fdt
    <3>1. fdt' = fdt
      BY <2>6
    <3>2. CASE ~allocated
      <4>1. mem' = mem
        BY <2>6, <3>2, Zenon DEF named, WithoutString
      <4> QED
        BY <3>1, <4>1, SameMemory
    <3>3. CASE allocated
      <4>1. mem' = StringDeleted(StringAdded(mem, name), name)
        BY <2>6, <3>3, Zenon DEF named, WithoutString
      <4>2. StringHasSpace(mem, name)
        BY <1>4, <3>3
      <4>3. CopyAt(mem, fdt, total, off, strs, size, mem', fdt', total, size)
        <5>a. PICK d : d = StringDeleted(StringAdded(mem, name), name)
          OBVIOUS
        <5>1. \A i \in 0..(MemSize - 1) :
                 i < fdt + off + size \/ fdt + total - strs <= i => d[i] = mem[i]
          BY ONLY <1>2, <2>1, <2>2, <4>2, <5>a, StringWithdrawn
        <5>2. CopyAt(mem, fdt, total, off, strs, size, d, fdt, total, size)
          BY <2>1, <2>2, <5>1, TagSize, EndsAreCopied
        <5> QED
          BY <3>1, <4>1, <5>2, <5>a, Zenon
      <4>4. fdt' # NULL
        BY <3>1
      <4> QED
        BY ONLY WriterInv, ReservationsAre, WriterInv', fdt # NULL, <2>2, <4>3, <4>4, WritingUnchanged
    <3> QED
      BY <3>2, <3>3
  <2> QED
    BY <1>1, <1>3, <1>4, <2>5, <2>6
<1> QED
  BY <1>1, <1>3, <1>4, Zenon

(* The finished blob stands for what was written. *)
LEMMA FinishedKeeps ==
    ASSUME NEW total, NEW off, NEW strs, NEW size, WritingAt(mem, fdt, total, off, strs, size),
           mem[fdt + 3] # 0, NEW k, HasReserved(mem, fdt, k),
           NEW w, NEW T, FinishedFrom(mem, total, off, strs, size, w, T)
    PROVE  KeepsPieces(mem, fdt, w, fdt) /\ KeepsReserved(mem, fdt, w, fdt)
<1>1. /\ fdt \in Nat /\ total \in Nat /\ off \in Nat /\ strs \in Nat /\ size \in Nat
      /\ mem[fdt] = FDT_SW_MAGIC /\ mem[fdt + 1] = total /\ mem[fdt + 2] = off
      /\ mem[fdt + 6] = strs /\ mem[fdt + 7] = size
      /\ 8 <= off /\ off + size + strs <= total /\ fdt + total <= MemSize
      /\ (strs # 0 => mem[fdt + total - 1] = 0)
  BY Zenon DEF WritingAt
<1>a. PICK at, base, top, strt, end : /\ at = fdt + off /\ base = fdt + total
                                      /\ top = off + size + FDT_TAGSIZE
                                      /\ strt = fdt + top /\ end = fdt + (top + strs)
  OBVIOUS
<1>2. /\ w[fdt] = FDT_MAGIC /\ w[fdt + 2] = off /\ w[fdt + 4] = mem[fdt + 4]
      /\ w[fdt + 3] = top /\ w[fdt + 7] = size + FDT_TAGSIZE
      /\ top + strs <= total /\ w[at + size] = FDT_END
      /\ IsChain(mem, at, size, T) /\ NamesAreIn(mem, at, size, T, -strs, -1)
      /\ \A x \in 8..(off - 1) : w[fdt + x] = mem[fdt + x]
      /\ \A x \in 0..(size - 1) :
            w[at + x] = IF \E p \in T \ {size} : /\ mem[at + p] = FDT_PROP
                                                 /\ x = p + 2 * FDT_TAGSIZE
                        THEN mem[at + x] + strs ELSE mem[at + x]
      /\ \A y \in 1..strs : w[end - y] = mem[base - y]
  <2>1. /\ w[fdt] = FDT_MAGIC /\ w[fdt + 2] = off /\ w[fdt + 4] = mem[fdt + 4]
        /\ w[fdt + 3] = off + size + FDT_TAGSIZE /\ w[fdt + 7] = size + FDT_TAGSIZE
        /\ off + size + FDT_TAGSIZE + strs <= total /\ w[fdt + off + size] = FDT_END
        /\ IsChain(mem, fdt + off, size, T) /\ NamesAreIn(mem, fdt + off, size, T, -strs, -1)
        /\ \A x \in 8..(off - 1) : w[fdt + x] = mem[fdt + x]
    BY Zenon DEF FinishedFrom
  <2>2. \A x \in 0..(size - 1) :
           w[fdt + off + x] = IF \E p \in T \ {size} : /\ mem[fdt + off + p] = FDT_PROP
                                                       /\ x = p + 2 * FDT_TAGSIZE
                              THEN mem[fdt + off + x] + strs ELSE mem[fdt + off + x]
    BY Zenon DEF FinishedFrom
  <2>3. \A y \in 1..strs :
           w[fdt + (off + size + FDT_TAGSIZE + strs) - y] = mem[fdt + total - y]
    BY Zenon DEF FinishedFrom
  <2>4. /\ at = fdt + off /\ base = fdt + total /\ top = off + size + FDT_TAGSIZE
        /\ end = fdt + (off + size + FDT_TAGSIZE + strs)
    BY <1>a
  <2>5. /\ w[fdt + 3] = top /\ top + strs <= total /\ w[at + size] = FDT_END
        /\ IsChain(mem, at, size, T) /\ NamesAreIn(mem, at, size, T, -strs, -1)
    BY <2>1, <2>4, Zenon
  <2>6. \A x \in 0..(size - 1) :
           w[at + x] = IF \E p \in T \ {size} : /\ mem[at + p] = FDT_PROP
                                                /\ x = p + 2 * FDT_TAGSIZE
                       THEN mem[at + x] + strs ELSE mem[at + x]
    BY <2>2, <2>4, Zenon
  <2>7. \A y \in 1..strs : w[end - y] = mem[base - y]
    <3>1. TAKE y \in 1..strs
    <3>2. w[fdt + (off + size + FDT_TAGSIZE + strs) - y] = mem[fdt + total - y]
      BY <2>3
    <3>3. fdt + (off + size + FDT_TAGSIZE + strs) - y = end - y /\ fdt + total - y = base - y
      BY <1>1, <2>4, TagSize
    <3> QED
      BY ONLY <3>2, <3>3
  <2> QED
    BY <2>1, <2>5, <2>6, <2>7, Zenon
<1>3. /\ FDT_TAGSIZE \in Nat \ {0} /\ MemSize \in Nat
      /\ at \in Nat /\ base \in Nat /\ top \in Nat /\ strt \in Nat /\ end \in Nat
      /\ at + size <= MemSize /\ strs <= base /\ base <= MemSize
      /\ strs <= end /\ end <= MemSize /\ end = strt + strs /\ top # 0
  BY <1>1, <1>2, <1>a, TagSize
<1>4. TagsCorrected(mem, at, w, size, T, strs)
  BY <1>1, <1>3, <1>a, FinishedTags
<1>5. OnlyNamesDiffer(mem, at, w, at, size, T)
  BY <1>2, Zenon DEF OnlyNamesDiffer
<1>6. NamesFollow(mem, at, w, at, strt, end, size, T)
  <2>1. SUFFICES ASSUME NEW o \in T \ {size}, mem[at + o] = FDT_PROP
                 PROVE  strt + w[at + o + 2 * FDT_TAGSIZE] = end + mem[at + o + 2 * FDT_TAGSIZE]
    BY Zenon DEF NamesFollow
  <2>2. w[at + o + 2 * FDT_TAGSIZE] = mem[at + o + 2 * FDT_TAGSIZE] + strs
    BY <1>4, <2>1, Zenon DEF TagsCorrected
  <2>3. mem[at + o + 2 * FDT_TAGSIZE] \in Int
    <3>1. mem[at + o + 2 * FDT_TAGSIZE] \in -strs..-1
      BY <1>2, <2>1, Zenon DEF NamesAreIn
    <3> QED
      BY <1>1, <3>1
  <2> QED
    BY <1>1, <1>3, <2>2, <2>3
<1>7. SameNames(mem, at, base, w, at, strt, size, T)
  <2>1. strs # 0 => mem[base - 1] = 0
    BY <1>1, <1>a
  <2>2. SameStrings(mem, base, w, end, strs)
    BY <1>2, Zenon DEF SameStrings
  <2>3. strs \in Nat /\ NamesAreIn(mem, at, size, T, -strs, -1)
    BY <1>1, <1>2
  <2> QED
    BY ONLY <1>3, <1>6, <2>1, <2>2, <2>3, NamesAreSame
<1>8. SamePieces(mem, at, base, w, at, strt, size, T)
  <2>1. at \in Nat /\ size \in Nat /\ at + size <= MemSize /\ IsChain(mem, at, size, T)
    BY <1>1, <1>2, <1>3
  <2> QED
    BY ONLY <1>5, <1>7, <2>1, PiecesAreSame
<1>9. HasBlock(mem, fdt, at, base, size) /\ HasBlock(w, fdt, at, strt, size)
  BY <1>1, <1>2, <1>a DEF HasBlock
<1>10. IsChain(w, at, size, T)
  BY <1>4, Zenon DEF TagsCorrected
<1>11. KeepsPieces(mem, fdt, w, fdt)
  BY <1>2, <1>8, <1>9, <1>10, Zenon DEF KeepsPieces
<1>12. KeepsReserved(mem, fdt, w, fdt)
  <2>1. SameCells(mem, fdt + 8, w, fdt + 8, off - 8)
    <3>1. SUFFICES ASSUME NEW j \in 0..((off - 8) - 1)
                   PROVE  w[(fdt + 8) + j] = mem[(fdt + 8) + j]
      BY DEF SameCells
    <3>2. 8 + j \in 8..(off - 1) /\ fdt + (8 + j) = (fdt + 8) + j
      BY <1>1
    <3>3. w[fdt + (8 + j)] = mem[fdt + (8 + j)]
      BY <1>2, <3>2, Zenon
    <3> QED
      BY <3>2, <3>3
  <2>2. /\ w[fdt + 4] = mem[fdt + 4] /\ w[fdt + 2] = mem[fdt + 2]
        /\ (w[fdt + 3] = 0 <=> mem[fdt + 3] = 0)
    BY <1>1, <1>2, <1>3
  <2>3. off = mem[fdt + 2] /\ fdt \in Nat /\ HasReserved(mem, fdt, k)
    BY <1>1
  <2> QED
    BY ONLY <2>1, <2>2, <2>3, ReservedStays
<1> QED
  BY <1>11, <1>12

(* The finished blob is the last step. *)
LEMMA FinishIsStep ==
    ASSUME WriterInv, ReservationsAre, WriterInv', fdt # NULL, fdt_finish
    PROVE  ReservationsAre' /\ (TreeUnchanged \/ Tree!Finish)
<1> DEFINE moved == Relocated(Grabbed(mem, FDT_TAGSIZE, Word(FDT_END)))
<1>1. CASE \E e : Refuse(e)
  BY <1>1, RefusalIsNoStep
<1>2. CASE /\ InStruct(mem) /\ HasSpace(mem, FDT_TAGSIZE)
           /\ mem' = IF WalkEnds(moved) THEN Completed(Corrected(moved)) ELSE Corrected(moved)
           /\ UNCHANGED fdt
  <2>1. /\ fdt \in Nat /\ mem \in Mem /\ Writing(mem, fdt)
        /\ mem[fdt + 3] = mem[fdt + 1] /\ mem[fdt + 3] # 0
    BY <1>2, StructIs
  <2>2. PICK total, off, strs, size : /\ WritingAt(mem, fdt, total, off, strs, size)
                                      /\ Sizes(mem, total, off, strs, size)
    BY <1>2, StructIs
  <2>a. PICK v, w : v = moved /\ w = Completed(Corrected(v))
    OBVIOUS
  <2>3. WalkEnds(v) /\ \E T : FinishedFrom(mem, total, off, strs, size, w, T)
    <3>1. HasSpace(mem, FDT_TAGSIZE) /\ v = Relocated(Grabbed(mem, FDT_TAGSIZE, Word(FDT_END)))
      BY <1>2, <2>a
    <3> QED
      BY ONLY <2>1, <2>2, <2>a, <3>1, FinishedCells
  <2>4. mem' = w /\ fdt' = fdt /\ fdt' # NULL
    BY <1>2, <2>3, <2>a
  <2>5. PICK T : FinishedFrom(mem, total, off, strs, size, w, T)
    BY <2>3
  <2>6. PICK k : HasReserved(mem, fdt, k)
    BY DEF ReservationsAre
  <2>7. KeepsPieces(mem, fdt, mem', fdt') /\ KeepsReserved(mem, fdt, mem', fdt')
    <3>1. KeepsPieces(mem, fdt, w, fdt) /\ KeepsReserved(mem, fdt, w, fdt)
      BY <2>1, <2>2, <2>5, <2>6, FinishedKeeps
    <3> QED
      BY <2>4, <3>1, Zenon
  <2>8. PiecesAreRead /\ PiecesAreRead' /\ HeaderIsRead /\ HeaderIsRead'
    BY AllAreRead
  <2>9. pieces' = pieces
    BY <2>4, <2>7, <2>8, PiecesKept
  <2>10. reserved' = reserved /\ ReservationsAre'
    BY <2>4, <2>7, <2>8, ReservedKept
  <2>11. StageOf(mem, fdt) = "struct"
    BY <2>1 DEF StageOf, Writing, FDT_MAGIC, FDT_SW_MAGIC
  <2>12. StageOf(mem', fdt') = "complete"
    <3>1. w[fdt] = FDT_MAGIC
      BY <2>5, Zenon DEF FinishedFrom
    <3> QED
      BY <2>4, <3>1, Zenon DEF StageOf
  <2>13. stage = "struct" /\ stage' = "complete"
    <3>1. stage = StageOf(mem, fdt)
      BY <2>8 DEF HeaderIsRead
    <3>2. stage' = StageOf(mem', fdt')
      BY <2>4, <2>8 DEF HeaderIsRead
    <3> QED
      BY <2>11, <2>12, <3>1, <3>2, Zenon
  <2> QED
    BY <2>9, <2>10, <2>13 DEF Tree!Finish
<1> QED
  BY <1>1, <1>2, Zenon DEF fdt_finish

----------------------------------------------------------------------------
(* The writer writes a tree *)

LEMMA ReservationsInit == Init => ReservationsAre
  BY Zenon DEF Init, ReservationsAre

LEMMA TreeInit == Init => Tree!Init
<1>1. ASSUME Init PROVE fdt = NULL
  BY <1>1 DEF Init
<1>2. ASSUME Init PROVE stage = "none"
  BY <1>1, <1>2, Zenon DEF stage
<1>3. ASSUME Init PROVE reserved = << >> /\ pieces = << >>
  BY <1>1, <1>3, Zenon DEF reserved, pieces
<1> QED
  BY <1>2, <1>3 DEF Tree!Init

(* Every call is a step of the tree that is written or none. *)
LEMMA CallsAreSteps ==
    WriterInv /\ WriterInv' /\ ReservationsAre /\ [Next]_vars
        => ReservationsAre' /\ [Tree!Next]_(Tree!vars)
<1> SUFFICES ASSUME WriterInv, WriterInv', ReservationsAre, [Next]_vars
             PROVE  ReservationsAre' /\ [Tree!Next]_(Tree!vars)
  OBVIOUS
<1>1. ASSUME ReservationsAre' /\ TreeUnchanged
      PROVE  ReservationsAre' /\ [Tree!Next]_(Tree!vars)
  BY <1>1, Zenon DEF TreeUnchanged, Tree!vars
<1>2. CASE UNCHANGED vars
  <2>1. mem' = mem /\ fdt' = fdt
    BY <1>2 DEF vars
  <2> QED
    BY <1>1, <2>1, SameMemory
<1>3. CASE Next
  <2>1. CASE fdt = NULL /\ \E b \in Buffers, flags \in Flags : fdt_create(b, flags)
    <3>1. PICK b \in Buffers, flags \in Flags : fdt_create(b, flags)
      BY <2>1
    <3>2. ReservationsAre' /\ (TreeUnchanged \/ Tree!Create)
      BY <3>1, CreateIsStep
    <3> QED
      BY <1>1, <3>2, Zenon DEF Tree!Next
  <2>2. CASE fdt # NULL /\ \E b \in Buffers : fdt_resize(b)
    <3>1. PICK b \in Buffers : fdt_resize(b)
      BY <2>2
    <3>2. ReservationsAre' /\ TreeUnchanged
      BY <2>2, <3>1, ResizeIsNoStep
    <3> QED
      BY <1>1, <3>2
  <2>3. CASE fdt # NULL /\ \E r \in Reservations : fdt_add_reservemap_entry(r)
    <3>1. PICK r \in Reservations : fdt_add_reservemap_entry(r)
      BY <2>3
    <3>2. ReservationsAre' /\ (TreeUnchanged \/ Tree!Reserve(r))
      BY <2>3, <3>1, ReserveIsStep
    <3> QED
      BY <1>1, <3>2, Zenon DEF Tree!Next
  <2>4. CASE fdt # NULL /\ fdt_finish_reservemap
    <3>1. ReservationsAre' /\ (TreeUnchanged \/ Tree!FinishReservations)
      BY <2>4, FinishReservesIsStep
    <3> QED
      BY <1>1, <3>1, Zenon DEF Tree!Next
  <2>5. CASE fdt # NULL /\ \E name \in Names : fdt_begin_node(name)
    <3>1. PICK name \in Names : fdt_begin_node(name)
      BY <2>5
    <3>2. ReservationsAre' /\ (TreeUnchanged \/ Tree!Write)
      BY <2>5, <3>1, BeginNodeIsStep
    <3> QED
      BY <1>1, <3>2, Zenon DEF Tree!Next
  <2>6. CASE fdt # NULL /\ fdt_end_node
    <3>1. ReservationsAre' /\ (TreeUnchanged \/ Tree!Write)
      BY <2>6, EndNodeIsStep
    <3> QED
      BY <1>1, <3>1, Zenon DEF Tree!Next
  <2>7. CASE fdt # NULL /\ \E name \in PropNames, value \in Values : fdt_property(name, value)
    <3>1. PICK name \in PropNames, value \in Values : fdt_property(name, value)
      BY <2>7
    <3>2. ReservationsAre' /\ (TreeUnchanged \/ Tree!Write)
      BY <2>7, <3>1, PropertyIsStep
    <3> QED
      BY <1>1, <3>2, Zenon DEF Tree!Next
  <2>8. CASE fdt # NULL /\ fdt_finish
    <3>1. ReservationsAre' /\ (TreeUnchanged \/ Tree!Finish)
      BY <2>8, FinishIsStep
    <3> QED
      BY <1>1, <3>1, Zenon DEF Tree!Next
  <2> QED
    BY <1>3, <2>1, <2>2, <2>3, <2>4, <2>5, <2>6, <2>7, <2>8, Zenon DEF Next
<1> QED
  BY <1>2, <1>3

(* The calls implement the writing of a tree: the reservations and the     *)
(* pieces that a reader finds in the blob grow one by one in the order of  *)
(* the calls, and are neither lost, altered nor reordered by a call that   *)
(* fails, a name that shares its string with another, a move to another    *)
(* buffer, or by the strings' relocation when the blob is finished         *)
(* (fdt_sw.c:109-384).                                                     *)
THEOREM WriterIsTreeWriter == Spec => NothingIsLost
<1>1. Init => ReservationsAre /\ Tree!Init
  BY ReservationsInit, TreeInit
<1>2. WriterInv /\ WriterInv' /\ ReservationsAre /\ [Next]_vars
         => ReservationsAre' /\ [Tree!Next]_(Tree!vars)
  BY CallsAreSteps
<1> QED
  BY <1>1, <1>2, WriterInvHolds, PTL DEF Spec, NothingIsLost, Tree!Spec
=============================================================================
