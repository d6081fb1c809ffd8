----------------------------- MODULE FdtRw_proofs -----------------------------
(***************************************************************************)
(* Proofs about editing in place, for any memory, any buffers in it, any   *)
(* names and values and any blobs to begin with: whatever is cut out,      *)
(* grows or moves, the structure block is a chain of whole tags in which   *)
(* nodes are nested, and so the blob can be read, and a call that fails    *)
(* changes nothing.                                                        *)
(***************************************************************************)
EXTENDS FdtRw, FdtBlob_proofs

----------------------------------------------------------------------------
(* Tags *)

LEMMA AlignedMinus ==
    ASSUME NEW x, Aligned(x), NEW y, Aligned(y), y <= x
    PROVE  Aligned(x - y)
<1>1. PICK j \in Nat : x = j * FDT_TAGSIZE
  BY AlignedIs
<1>2. PICK k \in Nat : y = k * FDT_TAGSIZE
  BY AlignedIs
<1>3. k <= j
  <2>1. k > j => k * FDT_TAGSIZE >= j * FDT_TAGSIZE + FDT_TAGSIZE
    BY TagSize
  <2>2. j * FDT_TAGSIZE \in Nat /\ k * FDT_TAGSIZE \in Nat
    BY TagSize
  <2> QED
    BY <1>1, <1>2, <2>1, <2>2, TagSize
<1>4. x - y = (j - k) * FDT_TAGSIZE /\ j - k \in Nat
  BY <1>1, <1>2, <1>3, TagSize
<1> QED
  BY <1>4, AlignedIs

(* A tag is the same at another offset of another block. *)
LEMMA TagMoves ==
    ASSUME NEW m, NEW at \in Int, NEW o, Aligned(o), NEW next, o < next,
           IsTag(m, at, o, next),
           NEW g, NEW to \in Int, NEW p, Aligned(p),
           \A x \in 0..(next - o - 1) : g[to + (p + x)] = m[at + (o + x)]
    PROVE  IsTag(g, to, p, p + (next - o))
<1>9. Aligned(next)
  BY DEF IsTag
<1>0. /\ FDT_TAGSIZE \in Nat \ {0} /\ Aligned(next) /\ o \in Nat /\ p \in Nat /\ next \in Nat
  BY <1>9, TagSize, AlignedIsNat
<1> PICK len : len = next - o
  OBVIOUS
<1>1. len \in Nat /\ 0 < len /\ next = o + len
  BY <1>0
<1>2. Aligned(p + len)
  <2>1. o <= next
    BY <1>0
  <2>2. Aligned(next - o)
    BY <1>0, <2>1, AlignedMinus
  <2> QED
    BY <2>2, AlignedSum
<1>3. \A x \in 0..(len - 1) : g[to + (p + x)] = m[at + (o + x)]
  OBVIOUS
<1>4. g[to + p] = m[at + o]
  <2>1. 0 \in 0..(len - 1) /\ p + 0 = p /\ o + 0 = o
    BY <1>0, <1>1
  <2> QED
    BY <1>3, <2>1
<1>5. CASE m[at + o] \in {FDT_END_NODE, FDT_NOP} /\ next = o + FDT_TAGSIZE
  BY <1>0, <1>1, <1>2, <1>4, <1>5 DEF IsTag
<1>6. CASE m[at + o] = FDT_BEGIN_NODE
  <2>1. PICK z \in (o + FDT_TAGSIZE)..(next - 1) :
            /\ next < z + 1 + FDT_TAGSIZE
            /\ m[at + z] = 0
            /\ \A y \in (o + FDT_TAGSIZE)..(z - 1) : m[at + y] # 0
    BY <1>6 DEF IsTag, FDT_BEGIN_NODE, FDT_END_NODE, FDT_NOP, FDT_PROP
  <2>2. PICK w : w = p + (z - o)
    OBVIOUS
  <2>3. w \in (p + FDT_TAGSIZE)..((p + len) - 1) /\ p + len < w + 1 + FDT_TAGSIZE
    BY <1>0, <1>1, <2>1, <2>2
  <2>4. \A y \in p..((p + len) - 1) : g[to + y] = m[at + (o + (y - p))]
    <3>1. TAKE y \in p..((p + len) - 1)
    <3>2. y - p \in 0..(len - 1) /\ p + (y - p) = y
      BY <1>0, <1>1
    <3> QED
      BY <1>3, <3>2
  <2>5. g[to + w] = 0
    <3>1. w \in p..((p + len) - 1) /\ o + (w - p) = z
      BY <1>0, <2>1, <2>2, <2>3
    <3> QED
      BY <2>1, <2>4, <3>1
  <2>6. \A y \in (p + FDT_TAGSIZE)..(w - 1) : g[to + y] # 0
    <3>1. TAKE y \in (p + FDT_TAGSIZE)..(w - 1)
    <3>2. y \in p..((p + len) - 1) /\ o + (y - p) \in (o + FDT_TAGSIZE)..(z - 1)
      BY <1>0, <1>1, <2>1, <2>2, <2>3
    <3> QED
      BY <2>1, <2>4, <3>2
  <2> QED
    BY <1>1, <1>2, <1>4, <1>6, <2>3, <2>5, <2>6 DEF IsTag
<1>7. CASE m[at + o] = FDT_PROP
  <2>1. /\ m[at + o + FDT_TAGSIZE] \in Nat
        /\ o + 3 * FDT_TAGSIZE + m[at + o + FDT_TAGSIZE] <= next
        /\ next < o + 3 * FDT_TAGSIZE + m[at + o + FDT_TAGSIZE] + FDT_TAGSIZE
    BY <1>7 DEF IsTag, FDT_BEGIN_NODE, FDT_END_NODE, FDT_NOP, FDT_PROP
  <2>2. PICK v : v = m[at + o + FDT_TAGSIZE]
    OBVIOUS
  <2>3. v \in Nat /\ 3 * FDT_TAGSIZE + v <= len /\ len < 3 * FDT_TAGSIZE + v + FDT_TAGSIZE
    BY <1>0, <1>1, <2>1, <2>2
  <2>4. g[to + p + FDT_TAGSIZE] = v
    <3>1. FDT_TAGSIZE \in 0..(len - 1)
      BY <1>0, <1>1, <2>3
    <3>2. to + (p + FDT_TAGSIZE) = to + p + FDT_TAGSIZE /\ at + (o + FDT_TAGSIZE) = at + o + FDT_TAGSIZE
      BY <1>0
    <3> QED
      BY <1>3, <2>2, <3>1, <3>2
  <2>5. p + 3 * FDT_TAGSIZE + v <= p + len /\ p + len < p + 3 * FDT_TAGSIZE + v + FDT_TAGSIZE
    BY <1>0, <1>1, <2>3
  <2> QED
    BY <1>1, <1>2, <1>4, <1>7, <2>2, <2>3, <2>4, <2>5 DEF IsTag
<1>8. \/ m[at + o] \in {FDT_END_NODE, FDT_NOP} /\ next = o + FDT_TAGSIZE
      \/ m[at + o] = FDT_BEGIN_NODE
      \/ m[at + o] = FDT_PROP
  BY DEF IsTag
<1> QED
  BY <1>5, <1>6, <1>7, <1>8

----------------------------------------------------------------------------
(* Structs: chains in which nodes are nested and properties have names *)

(* What one tag does to the depth *)
IsStep(tag, here, next) ==
    /\ tag = FDT_BEGIN_NODE => next = here + 1
    /\ tag = FDT_END_NODE => here = next + 1
    /\ tag \in {FDT_PROP, FDT_NOP} => next = here

(* The tag at o of a struct, and the next *)
IsTagStep(m, at, D, N, o, next) ==
    /\ IsTag(m, at, o, next) /\ IsStep(m[at + o], D[o], D[next])
    /\ m[at + o] = FDT_PROP => m[at + o + 2 * FDT_TAGSIZE] \in N

LEMMA StructIs ==
    ASSUME NEW m, NEW at, NEW size, NEW D, NEW N, IsStruct(m, at, size, D, N)
    PROVE  /\ size \in Nat /\ DOMAIN D \subseteq 0..size /\ 0 \in DOMAIN D /\ size \in DOMAIN D
           /\ \A o \in DOMAIN D : Aligned(o) /\ D[o] \in Nat /\ o \in Nat
           /\ \A o \in DOMAIN D \ {size} : \E next \in DOMAIN D :
                 /\ o < next /\ IsTagStep(m, at, D, N, o, next)
                 /\ \A p \in DOMAIN D : p <= o \/ next <= p
<1>1. IsChain(m, at, size, DOMAIN D)
  BY DEF IsStruct
<1>2. /\ DOMAIN D \subseteq 0..size /\ 0 \in DOMAIN D /\ size \in DOMAIN D
      /\ \A o \in DOMAIN D : Aligned(o)
  BY <1>1 DEF IsChain
<1>3. \A o \in DOMAIN D : D[o] \in Nat /\ o \in Nat
  BY <1>2, AlignedIsNat DEF IsStruct
<1>4. ASSUME NEW o \in DOMAIN D \ {size}
      PROVE  \E next \in DOMAIN D :
                 /\ o < next /\ IsTagStep(m, at, D, N, o, next)
                 /\ \A p \in DOMAIN D : p <= o \/ next <= p
  <2>1. PICK next \in DOMAIN D : IsLink(m, at, DOMAIN D, o, next)
    BY <1>1 DEF IsChain
  <2>2. IsStep(m[at + o], D[o], D[next])
    BY <2>1 DEF IsStruct, IsStep
  <2>3. m[at + o] = FDT_PROP => m[at + o + 2 * FDT_TAGSIZE] \in N
    BY DEF IsStruct
  <2> QED
    BY <2>1, <2>2, <2>3 DEF IsLink, IsTagStep
<1> QED
  BY <1>2, <1>3, <1>4

(* A struct is one whose tags each lead to the next. *)
LEMMA IsStructIf ==
    ASSUME NEW m, NEW at, NEW size, NEW D, NEW N,
           DOMAIN D \subseteq 0..size, 0 \in DOMAIN D, size \in DOMAIN D,
           \A o \in DOMAIN D : Aligned(o) /\ D[o] \in Nat,
           \A o \in DOMAIN D \ {size} : \E next \in DOMAIN D :
                 /\ o < next /\ IsTagStep(m, at, D, N, o, next)
                 /\ \A p \in DOMAIN D : p <= o \/ next <= p
    PROVE  IsStruct(m, at, size, D, N)
<1>0. \A o \in DOMAIN D : o \in Nat
  BY AlignedIsNat
<1>1. IsChain(m, at, size, DOMAIN D)
  BY DEF IsChain, IsLink, IsTagStep
<1>2. ASSUME NEW o \in DOMAIN D, NEW next \in DOMAIN D, IsLink(m, at, DOMAIN D, o, next)
      PROVE  IsStep(m[at + o], D[o], D[next])
  <2>1. o # size
    BY <1>0, <1>2 DEF IsLink
  <2>2. PICK other \in DOMAIN D : /\ o < other /\ IsTagStep(m, at, D, N, o, other)
                                  /\ \A p \in DOMAIN D : p <= o \/ other <= p
    BY <2>1
  <2>3. other = next
    <3>1. other <= next /\ next <= other
      BY <1>0, <1>2, <2>2 DEF IsLink
    <3> QED
      BY <1>0, <3>1
  <2> QED
    BY <2>2, <2>3 DEF IsTagStep
<1>3. \A o \in DOMAIN D \ {size} : m[at + o] = FDT_PROP => m[at + o + 2 * FDT_TAGSIZE] \in N
  BY DEF IsTagStep
<1> QED
  BY <1>1, <1>2, <1>3 DEF IsStruct, IsStep

(* The tags up to one of them are a struct. *)
LEMMA StructPrefix ==
    ASSUME NEW m, NEW at, NEW size, NEW D, NEW N, IsStruct(m, at, size, D, N),
           NEW p \in DOMAIN D
    PROVE  IsStruct(m, at, p, [o \in {x \in DOMAIN D : x <= p} |-> D[o]], N)
<1> DEFINE T == {x \in DOMAIN D : x <= p}
           E == [o \in T |-> D[o]]
<1>1. /\ size \in Nat /\ DOMAIN D \subseteq 0..size /\ 0 \in DOMAIN D
      /\ \A o \in DOMAIN D : Aligned(o) /\ D[o] \in Nat /\ o \in Nat
  BY StructIs
<1>2. DOMAIN E = T /\ \A o \in T : E[o] = D[o]
  OBVIOUS
<1>3. T \subseteq 0..p /\ 0 \in T /\ p \in T
  BY <1>1
<1>4. ASSUME NEW o \in T \ {p}
      PROVE  \E next \in T : /\ o < next /\ IsTagStep(m, at, E, N, o, next)
                             /\ \A x \in T : x <= o \/ next <= x
  <2>1. o \in DOMAIN D \ {size} /\ o < p
    BY <1>1
  <2>2. PICK next \in DOMAIN D : /\ o < next /\ IsTagStep(m, at, D, N, o, next)
                                 /\ \A x \in DOMAIN D : x <= o \/ next <= x
    BY <2>1, StructIs
  <2>3. next \in T
    BY <1>1, <2>1, <2>2
  <2> QED
    BY <1>2, <2>2, <2>3 DEF IsTagStep
<1>5. \A o \in T : Aligned(o) /\ E[o] \in Nat
  BY <1>1, <1>2
<1> HIDE DEF E, T
<1>6. IsStruct(m, at, p, E, N)
  BY <1>2, <1>3, <1>4, <1>5, IsStructIf
<1> QED
  BY <1>6 DEF E, T

(* The tags from one of them on are a struct. *)
LEMMA StructSuffix ==
    ASSUME NEW m, NEW at \in Int, NEW size, NEW D, NEW N, IsStruct(m, at, size, D, N),
           NEW q \in DOMAIN D
    PROVE  IsStruct(m, at + q, size - q,
                    [o \in {x - q : x \in {y \in DOMAIN D : q <= y}} |-> D[q + o]], N)
<1> DEFINE S == {y \in DOMAIN D : q <= y}
           T == {x - q : x \in S}
           E == [o \in T |-> D[q + o]]
<1>1. /\ size \in Nat /\ DOMAIN D \subseteq 0..size /\ size \in DOMAIN D
      /\ \A o \in DOMAIN D : Aligned(o) /\ D[o] \in Nat /\ o \in Nat
  BY StructIs
<1>2. DOMAIN E = T /\ \A o \in T : E[o] = D[q + o]
  OBVIOUS
<1>3. \A o \in T : q + o \in S /\ o \in Nat /\ Aligned(o) /\ q + o \in DOMAIN D
  <2>1. TAKE o \in T
  <2>2. PICK x \in S : o = x - q
    OBVIOUS
  <2>3. q + o = x /\ o \in Nat
    BY <1>1, <2>2
  <2>4. Aligned(o)
    BY <1>1, <2>2, AlignedMinus
  <2> QED
    BY <2>3, <2>4
<1>4. \A x \in S : x - q \in T
  OBVIOUS
<1>5. T \subseteq 0..(size - q) /\ 0 \in T /\ size - q \in T
  <2>1. q \in S /\ size \in S /\ q - q = 0
    BY <1>1
  <2>2. \A x \in S : x - q \in 0..(size - q)
    BY <1>1
  <2> QED
    BY <1>4, <2>1, <2>2
<1> HIDE DEF T, E
<1>6. ASSUME NEW o \in T \ {size - q}
      PROVE  \E next \in T : /\ o < next /\ IsTagStep(m, at + q, E, N, o, next)
                             /\ \A x \in T : x <= o \/ next <= x
  <2>1. q + o \in DOMAIN D \ {size} /\ o \in Nat /\ q \in Nat
    BY <1>1, <1>3
  <2>2. PICK next \in DOMAIN D : /\ q + o < next /\ IsTagStep(m, at, D, N, q + o, next)
                                 /\ \A x \in DOMAIN D : x <= q + o \/ next <= x
    BY <2>1, StructIs
  <2>3. next \in Nat /\ next \in S
    BY <1>1, <2>1, <2>2
  <2>4. next - q \in T /\ o < next - q /\ q + (next - q) = next
    BY <1>4, <2>1, <2>2, <2>3
  <2>5. \A x \in T : x <= o \/ next - q <= x
    <3>1. TAKE x \in T
    <3>2. q + x <= q + o \/ next <= q + x
      BY <1>3, <2>2
    <3> QED
      BY <1>3, <2>1, <2>3, <3>2
  <2>6. at + q + o = at + (q + o) /\ at + q + o + 2 * FDT_TAGSIZE = at + (q + o) + 2 * FDT_TAGSIZE
    BY <2>1, TagSize
  <2>7. IsTag(m, at + q, o, next - q)
    <3>1. PICK p : p = q + o
      OBVIOUS
    <3>2. IsTag(m, at, p, next) /\ Aligned(p) /\ p < next /\ Aligned(o) /\ p \in Nat
      BY <1>1, <1>3, <2>1, <2>2, <3>1 DEF IsTagStep
    <3>3. \A x \in 0..(next - p - 1) : m[at + q + (o + x)] = m[at + (p + x)]
      <4>1. \A x \in 0..(next - p - 1) : at + q + (o + x) = at + (p + x)
        BY <2>1, <2>3, <3>1, <3>2
      <4> QED
        BY <4>1
    <3>4. IsTag(m, at + q, o, o + (next - p))
      BY <2>1, <3>2, <3>3, TagMoves
    <3>5. o + (next - p) = next - q
      BY <2>1, <2>3, <3>1
    <3> QED
      BY <3>4, <3>5
  <2>8. E[o] = D[q + o] /\ E[next - q] = D[next]
    BY <1>2, <2>4
  <2> QED
    BY <2>2, <2>4, <2>5, <2>6, <2>7, <2>8 DEF IsTagStep
<1>7. \A o \in T : E[o] \in Nat
  BY <1>1, <1>2, <1>3
<1> QED
  BY <1>2, <1>3, <1>5, <1>6, <1>7, IsStructIf DEF S, T, E

(* The offset of a property's name is inside of its tag. *)
LEMMA NameIsInTag ==
    ASSUME NEW m, NEW at, NEW o \in Nat, NEW next \in Nat, IsTag(m, at, o, next),
           m[at + o] = FDT_PROP
    PROVE  o + 2 * FDT_TAGSIZE \in o..(next - 1) /\ o + 3 * FDT_TAGSIZE <= next
<1>1. /\ m[at + o + FDT_TAGSIZE] \in Nat
      /\ o + 3 * FDT_TAGSIZE + m[at + o + FDT_TAGSIZE] <= next
  BY DEF IsTag, FDT_BEGIN_NODE, FDT_END_NODE, FDT_NOP, FDT_PROP
<1>2. PICK v \in Nat : o + 3 * FDT_TAGSIZE + v <= next
  BY <1>1
<1> QED
  BY <1>2, TagSize

(* A struct whose cells are elsewhere, and that may have more names *)
LEMMA StructMoves ==
    ASSUME NEW m, NEW at \in Int, NEW size, NEW D, NEW N, IsStruct(m, at, size, D, N),
           NEW g, NEW to \in Int, NEW M, N \subseteq M,
           \A x \in 0..(size - 1) : g[to + x] = m[at + x]
    PROVE  IsStruct(g, to, size, D, M)
<1>1. /\ size \in Nat /\ DOMAIN D \subseteq 0..size /\ 0 \in DOMAIN D /\ size \in DOMAIN D
      /\ \A o \in DOMAIN D : Aligned(o) /\ D[o] \in Nat /\ o \in Nat
  BY StructIs
<1>2. ASSUME NEW o \in DOMAIN D \ {size}
      PROVE  \E next \in DOMAIN D : /\ o < next /\ IsTagStep(g, to, D, M, o, next)
                                    /\ \A x \in DOMAIN D : x <= o \/ next <= x
  <2>1. PICK next \in DOMAIN D : /\ o < next /\ IsTagStep(m, at, D, N, o, next)
                                 /\ \A x \in DOMAIN D : x <= o \/ next <= x
    BY StructIs
  <2>2. o \in Nat /\ next \in Nat /\ next <= size /\ IsTag(m, at, o, next)
    BY <1>1, <2>1 DEF IsTagStep
  <2>3. \A x \in o..(next - 1) : g[to + x] = m[at + x]
    BY <1>1, <2>2
  <2>4. IsTag(g, to, o, next)
    BY <2>1, <2>2, <2>3, TagSurvives
  <2>5. g[to + o] = m[at + o]
    BY <2>1, <2>2, <2>3
  <2>6. g[to + o] = FDT_PROP => g[to + o + 2 * FDT_TAGSIZE] \in M
    <3>1. SUFFICES ASSUME g[to + o] = FDT_PROP PROVE g[to + o + 2 * FDT_TAGSIZE] \in M
      OBVIOUS
    <3>2. o + 2 * FDT_TAGSIZE \in o..(next - 1)
      BY <2>2, <2>5, <3>1, NameIsInTag
    <3>3. g[to + (o + 2 * FDT_TAGSIZE)] = m[at + (o + 2 * FDT_TAGSIZE)]
      BY <2>3, <3>2
    <3>4. to + (o + 2 * FDT_TAGSIZE) = to + o + 2 * FDT_TAGSIZE
          /\ at + (o + 2 * FDT_TAGSIZE) = at + o + 2 * FDT_TAGSIZE
      BY <2>2, TagSize
    <3>5. m[at + o + 2 * FDT_TAGSIZE] \in N
      BY <2>1, <2>5, <3>1 DEF IsTagStep
    <3> QED
      BY <3>3, <3>4, <3>5
  <2> QED
    BY <2>1, <2>4, <2>5, <2>6 DEF IsTagStep
<1> QED
  BY <1>1, <1>2, IsStructIf

(* Two structs one behind the other are one. *)
LEMMA StructJoin ==
    ASSUME NEW m, NEW at \in Int, NEW p, NEW D, NEW N, IsStruct(m, at, p, D, N),
           NEW n, NEW E, IsStruct(m, at + p, n, E, N), D[p] = E[0]
    PROVE  \E F : IsStruct(m, at, p + n, F, N) /\ F[0] = D[0] /\ F[p + n] = E[n]
<1> DEFINE S == DOMAIN D
           T == {p + x : x \in DOMAIN E}
           F == [o \in S \cup T |-> IF o \in S THEN D[o] ELSE E[o - p]]
<1>1. /\ p \in Nat /\ S \subseteq 0..p /\ 0 \in S /\ p \in S
      /\ \A o \in S : Aligned(o) /\ D[o] \in Nat /\ o \in Nat
  BY StructIs
<1>2. /\ n \in Nat /\ DOMAIN E \subseteq 0..n /\ 0 \in DOMAIN E /\ n \in DOMAIN E
      /\ \A o \in DOMAIN E : Aligned(o) /\ E[o] \in Nat /\ o \in Nat
  BY StructIs
<1>3. DOMAIN F = S \cup T /\ \A o \in S : F[o] = D[o]
  OBVIOUS
<1>4. \A x \in DOMAIN E : p + x \in T /\ (p + x) - p = x
  BY <1>1, <1>2
<1>5. \A o \in T : o - p \in DOMAIN E /\ o = p + (o - p) /\ o \in Nat /\ p <= o /\ Aligned(o)
  <2>1. TAKE o \in T
  <2>2. PICK x \in DOMAIN E : o = p + x
    OBVIOUS
  <2>3. Aligned(p + x)
    BY <1>1, <1>2, AlignedSum
  <2> QED
    BY <1>1, <1>2, <2>2, <2>3
<1>6. \A x \in DOMAIN E : F[p + x] = E[x]
  <2>1. TAKE x \in DOMAIN E
  <2>2. CASE x = 0
    <3>1. p + x = p
      BY <1>1, <2>2
    <3> QED
      BY <1>1, <1>3, <2>2, <3>1
  <2>3. CASE x # 0
    <3>1. p + x \notin S
      BY <1>1, <1>2, <2>3
    <3> QED
      BY <1>3, <1>4, <3>1
  <2> QED
    BY <2>2, <2>3
<1>7. S \cup T \subseteq 0..(p + n) /\ p + n \in T
  <2>1. \A o \in T : o \in 0..(p + n)
    <3>1. TAKE o \in T
    <3>2. o - p \in 0..n
      BY <1>2, <1>5
    <3> QED
      BY <1>1, <1>2, <1>5, <3>2
  <2>2. \A o \in S : o \in 0..(p + n)
    BY <1>1, <1>2
  <2> QED
    BY <1>2, <1>4, <2>1, <2>2
<1> HIDE DEF F, T
<1>8. ASSUME NEW o \in S, o # p
      PROVE  \E next \in S \cup T : /\ o < next /\ IsTagStep(m, at, F, N, o, next)
                                    /\ \A x \in S \cup T : x <= o \/ next <= x
  <2>1. PICK next \in S : /\ o < next /\ IsTagStep(m, at, D, N, o, next)
                          /\ \A x \in S : x <= o \/ next <= x
    BY <1>8, StructIs
  <2>2. \A x \in T : next <= x
    BY <1>1, <1>5, <2>1
  <2>3. IsTagStep(m, at, F, N, o, next)
    BY <1>3, <2>1 DEF IsTagStep
  <2> QED
    BY <2>1, <2>2, <2>3
<1>9. ASSUME NEW o \in T, o # p + n
      PROVE  \E next \in S \cup T : /\ o < next /\ IsTagStep(m, at, F, N, o, next)
                                    /\ \A x \in S \cup T : x <= o \/ next <= x
  <2>1. PICK y : y = o - p
    OBVIOUS
  <2>2. y \in DOMAIN E \ {n} /\ o = p + y /\ y \in Nat
    BY <1>2, <1>5, <1>9, <2>1
  <2>3. PICK z \in DOMAIN E : /\ y < z /\ IsTagStep(m, at + p, E, N, y, z)
                              /\ \A x \in DOMAIN E : x <= y \/ z <= x
    BY <2>2, StructIs
  <2>4. z \in Nat /\ p + z \in T /\ o < p + z
    BY <1>1, <1>2, <1>4, <2>2, <2>3
  <2>5. \A x \in S \cup T : x <= o \/ p + z <= x
    <3>1. TAKE x \in S \cup T
    <3>2. CASE x \in S
      BY <1>1, <2>2, <3>2
    <3>3. CASE x \in T
      <4>1. x - p \in DOMAIN E /\ x = p + (x - p) /\ x \in Nat
        BY <1>5, <3>3
      <4>2. x - p <= y \/ z <= x - p
        BY <2>3, <4>1
      <4> QED
        BY <1>1, <2>2, <2>4, <4>1, <4>2
    <3> QED
      BY <3>2, <3>3
  <2>6. at + p + y = at + o /\ at + p + y + 2 * FDT_TAGSIZE = at + o + 2 * FDT_TAGSIZE
    BY <1>1, <2>2, TagSize
  <2>7. IsTag(m, at, o, p + z)
    <3>1. IsTag(m, at + p, y, z) /\ Aligned(y) /\ Aligned(o)
      BY <1>2, <1>5, <2>2, <2>3 DEF IsTagStep
    <3>2. \A x \in 0..(z - y - 1) : m[at + (o + x)] = m[at + p + (y + x)]
      <4>1. \A x \in 0..(z - y - 1) : at + (o + x) = at + p + (y + x)
        BY <1>1, <2>2, <2>4
      <4> QED
        BY <4>1
    <3>3. at + p \in Int
      BY <1>1
    <3>4. IsTag(m, at, o, o + (z - y))
      BY <2>3, <3>1, <3>2, <3>3, TagMoves
    <3>5. o + (z - y) = p + z
      BY <1>1, <2>2, <2>4
    <3> QED
      BY <3>4, <3>5
  <2>8. F[o] = E[y] /\ F[p + z] = E[z]
    BY <1>6, <2>2, <2>3
  <2> QED
    BY <2>3, <2>4, <2>5, <2>6, <2>7, <2>8 DEF IsTagStep
<1>10. \A o \in S \cup T : Aligned(o) /\ F[o] \in Nat
  BY <1>1, <1>2, <1>3, <1>5, <1>6
<1>11. ASSUME NEW o \in (S \cup T) \ {p + n}
       PROVE  \E next \in S \cup T : /\ o < next /\ IsTagStep(m, at, F, N, o, next)
                                     /\ \A x \in S \cup T : x <= o \/ next <= x
  <2>1. CASE o \in T
    BY <1>9, <2>1
  <2>2. CASE o \in S /\ o # p
    BY <1>8, <2>2
  <2>3. CASE o = p
    <3>1. p + 0 = p /\ p + 0 \in T
      BY <1>1, <1>2, <1>4
    <3> QED
      BY <1>9, <2>3, <3>1
  <2> QED
    BY <2>1, <2>2, <2>3
<1>12. IsStruct(m, at, p + n, F, N)
  BY <1>1, <1>3, <1>7, <1>10, <1>11, IsStructIf
<1>13. F[0] = D[0] /\ F[p + n] = E[n]
  BY <1>1, <1>2, <1>3, <1>6
<1> QED
  BY <1>12, <1>13

(* Tags from p to q cut out and others put there that begin and end as     *)
(* deep in the tree                                                        *)
LEMMA StructSpliced ==
    ASSUME NEW m, NEW at \in Int, NEW size, NEW D, NEW N, IsStruct(m, at, size, D, N),
           NEW p \in DOMAIN D, NEW q \in DOMAIN D, p <= q,
           NEW g, NEW to \in Int, NEW M, N \subseteq M,
           NEW n, NEW E, IsStruct(g, to + p, n, E, M), E[0] = D[p], E[n] = D[q],
           \A x \in 0..(p - 1) : g[to + x] = m[at + x],
           \A x \in 0..(size - q - 1) : g[to + p + n + x] = m[at + q + x]
    PROVE  \E F : /\ IsStruct(g, to, p + n + (size - q), F, M)
                  /\ F[0] = D[0] /\ F[p + n + (size - q)] = D[size]
<1>1. /\ size \in Nat /\ DOMAIN D \subseteq 0..size /\ 0 \in DOMAIN D /\ size \in DOMAIN D
      /\ p \in Nat /\ q \in Nat /\ n \in Nat
  BY StructIs
<1>2. PICK A : A = [o \in {x \in DOMAIN D : x <= p} |-> D[o]]
  OBVIOUS
<1>3. IsStruct(m, at, p, A, N) /\ A[0] = D[0] /\ A[p] = D[p]
  BY <1>1, <1>2, StructPrefix
<1>4. IsStruct(g, to, p, A, M)
  BY <1>3, StructMoves
<1>5. PICK B : IsStruct(g, to, p + n, B, M) /\ B[0] = D[0] /\ B[p + n] = D[q]
  BY <1>3, <1>4, StructJoin
<1>6. PICK C : C = [o \in {x - q : x \in {y \in DOMAIN D : q <= y}} |-> D[q + o]]
  OBVIOUS
<1>7. IsStruct(m, at + q, size - q, C, N)
  BY <1>6, StructSuffix
<1>8. C[0] = D[q] /\ C[size - q] = D[size]
  <2>1. \A x \in {y \in DOMAIN D : q <= y} : C[x - q] = D[q + (x - q)]
    BY <1>6
  <2>2. /\ q \in {y \in DOMAIN D : q <= y} /\ size \in {y \in DOMAIN D : q <= y}
        /\ q - q = 0 /\ q + 0 = q /\ q + (size - q) = size
    BY <1>1
  <2> QED
    BY <2>1, <2>2
<1>9. IsStruct(g, to + (p + n), size - q, C, M)
  <2>1. to + (p + n) \in Int /\ at + q \in Int
    BY <1>1
  <2>2. \A x \in 0..(size - q - 1) : g[to + (p + n) + x] = m[at + q + x]
    <3>1. \A x \in 0..(size - q - 1) : to + (p + n) + x = to + p + n + x
      BY <1>1
    <3> QED
      BY <3>1
  <2> QED
    BY <1>7, <2>1, <2>2, StructMoves
<1> QED
  BY <1>5, <1>8, <1>9, StructJoin

(* Tags that begin as deep as d and end as deep as e *)
Leads(g, at, n, N, d, e) ==
    \E E : IsStruct(g, at, n, E, N) /\ E[0] = d /\ E[n] = e

(* One tag *)
LEMMA TagLeads ==
    ASSUME NEW m, NEW at \in Int, NEW n, 0 < n, IsTag(m, at, 0, n),
           NEW N, m[at] = FDT_PROP => m[at + 2 * FDT_TAGSIZE] \in N,
           NEW d \in Nat, NEW e \in Nat, IsStep(m[at], d, e)
    PROVE  Leads(m, at, n, N, d, e)
<1> DEFINE E == [o \in {0, n} |-> IF o = 0 THEN d ELSE e]
<1>1. Aligned(n) /\ Aligned(0) /\ n \in Nat
  BY AlignedIsNat, AlignedTags DEF IsTag
<1>2. DOMAIN E = {0, n} /\ E[0] = d /\ E[n] = e
  BY <1>1
<1> HIDE DEF E
<1>3. at + 0 = at /\ at + 0 + 2 * FDT_TAGSIZE = at + 2 * FDT_TAGSIZE
  BY TagSize
<1>4. IsTagStep(m, at, E, N, 0, n)
  BY <1>2, <1>3 DEF IsTagStep
<1>5. \A o \in {0, n} \ {n} : o = 0
  OBVIOUS
<1>6. \A p \in {0, n} : p <= 0 \/ n <= p
  BY <1>1
<1>7. IsStruct(m, at, n, E, N)
  BY <1>1, <1>2, <1>4, <1>5, <1>6, IsStructIf
<1> QED
  BY <1>2, <1>7, Zenon DEF Leads

(* No tags *)
LEMMA NothingLeads ==
    ASSUME NEW m, NEW at, NEW N, NEW d \in Nat
    PROVE  Leads(m, at, 0, N, d, d)
<1> DEFINE E == [o \in {0} |-> d]
<1>1. DOMAIN E = {0} /\ E[0] = d
  OBVIOUS
<1> HIDE DEF E
<1>2. IsStruct(m, at, 0, E, N)
  BY <1>1, AlignedTags, IsStructIf
<1> QED
  BY <1>1, <1>2, Zenon DEF Leads

LEMMA AlignedIsWhole ==
    ASSUME NEW x, Aligned(x), x # 0
    PROVE  FDT_TAGSIZE <= x
<1>1. PICK k \in Nat : x = k * FDT_TAGSIZE
  BY AlignedIs
<1>2. k # 0
  BY <1>1, TagSize
<1>3. k * FDT_TAGSIZE >= FDT_TAGSIZE
  BY <1>1, <1>2, TagSize
<1> QED
  BY <1>1, <1>3

(* Cells overwritten with FDT_NOP *)
AreNops(m, at, n) == \A x \in 0..(n - 1) : Aligned(x) => m[at + x] = FDT_NOP

LEMMA NopsLead ==
    ASSUME NEW m, NEW at \in Int, NEW n, Aligned(n), AreNops(m, at, n), NEW N, NEW d \in Nat
    PROVE  Leads(m, at, n, N, d, d)
<1> DEFINE T == {x \in 0..n : Aligned(x)}
           E == [o \in T |-> d]
<1>1. n \in Nat /\ FDT_TAGSIZE \in Nat \ {0}
  BY AlignedIsNat, TagSize
<1>2. DOMAIN E = T /\ \A o \in T : E[o] = d
  OBVIOUS
<1>3. T \subseteq 0..n /\ 0 \in T /\ n \in T
  BY <1>1, AlignedTags
<1> HIDE DEF E
<1>4. ASSUME NEW o \in T \ {n}
      PROVE  \E next \in T : /\ o < next /\ IsTagStep(m, at, E, N, o, next)
                             /\ \A p \in T : p <= o \/ next <= p
  <2>1. o \in Nat /\ o < n /\ Aligned(o)
    BY <1>1
  <2>2. Aligned(n - o) /\ n - o # 0
    BY <1>1, <2>1, AlignedMinus
  <2>3. FDT_TAGSIZE <= n - o
    BY <2>2, AlignedIsWhole
  <2>4. PICK next : next = o + FDT_TAGSIZE
    OBVIOUS
  <2>5. Aligned(next)
    BY <2>1, <2>4, AlignedSum, AlignedTags
  <2>6. next \in T /\ o < next
    BY <1>1, <2>1, <2>3, <2>4, <2>5
  <2>7. \A p \in T : p <= o \/ next <= p
    <3>1. TAKE p \in T
    <3>2. SUFFICES ASSUME o < p PROVE next <= p
      BY <1>1, <2>1
    <3>3. Aligned(p) /\ p \in Nat /\ o <= p /\ p - o # 0
      BY <1>1, <2>1, <3>2
    <3>5. Aligned(p - o)
      BY <2>1, <3>3, AlignedMinus
    <3>4. FDT_TAGSIZE <= p - o
      BY <3>3, <3>5, AlignedIsWhole
    <3> QED
      BY <1>1, <2>1, <2>4, <3>3, <3>4
  <2>8. m[at + o] = FDT_NOP
    BY <1>1, <2>1 DEF AreNops
  <2>9. IsTag(m, at, o, next)
    BY <2>4, <2>5, <2>8 DEF IsTag
  <2>10. IsStep(m[at + o], E[o], E[next])
    BY <1>2, <2>6, <2>8 DEF IsStep, FDT_NOP, FDT_BEGIN_NODE, FDT_END_NODE
  <2>11. m[at + o] # FDT_PROP
    BY <2>8 DEF FDT_NOP, FDT_PROP
  <2> QED
    BY <2>6, <2>7, <2>9, <2>10, <2>11 DEF IsTagStep
<1>5. \A o \in T : Aligned(o) /\ E[o] \in Nat
  BY <1>2
<1>6. IsStruct(m, at, n, E, N)
  BY <1>2, <1>3, <1>4, <1>5, IsStructIf
<1>7. E[0] = d /\ E[n] = d
  BY <1>2, <1>3
<1> QED
  BY <1>6, <1>7, Zenon DEF Leads

----------------------------------------------------------------------------
(* What the code finds in a struct *)

(* The struct is the structure block of the blob, without its FDT_END. *)
IsStructOf(m, at, size, D, N) ==
    /\ at \in Nat /\ at = fdt + off_dt_struct(m)
    /\ size_dt_struct(m) = size + FDT_TAGSIZE /\ at + size_dt_struct(m) <= MemSize
    /\ IsStruct(m, at, size, D, N) /\ m[at + size] = FDT_END

(* The tag that fdt_next_tag finds at an offset of the struct *)
LEMMA StructTags ==
    ASSUME NEW m, NEW at, NEW size, NEW D, NEW N, IsStructOf(m, at, size, D, N),
           NEW o \in DOMAIN D \ {size}
    PROVE  \E next \in DOMAIN D :
              /\ NextTag(m, o) = [tag |-> m[at + o], next |-> next]
              /\ o < next /\ IsTagStep(m, at, D, N, o, next) /\ m[at + o] # FDT_END
<1>1. /\ size \in Nat /\ at \in Nat /\ at = fdt + off_dt_struct(m)
      /\ size_dt_struct(m) \in Nat /\ size <= size_dt_struct(m)
      /\ at + size_dt_struct(m) <= MemSize
  BY StructIs, TagSize DEF IsStructOf
<1>2. IsChain(m, at, size, DOMAIN D)
  BY DEF IsStructOf, IsStruct
<1>3. PICK next \in DOMAIN D :
          /\ IsLink(m, at, DOMAIN D, o, next) /\ m[at + o] # FDT_END
          /\ NextTag(m, o) = [tag |-> m[at + o], next |-> next]
  BY <1>1, <1>2, ChainTags
<1>4. IsStep(m[at + o], D[o], D[next])
  BY <1>3 DEF IsStructOf, IsStruct, IsStep
<1>5. m[at + o] = FDT_PROP => m[at + o + 2 * FDT_TAGSIZE] \in N
  BY DEF IsStructOf, IsStruct
<1> QED
  BY <1>3, <1>4, <1>5 DEF IsLink, IsTagStep

(* Nodes and properties are found at their tags. *)
LEMMA OffsetsAre ==
    ASSUME NEW m, NEW at, NEW size, NEW D, NEW N, IsStructOf(m, at, size, D, N)
    PROVE  ToSet(TagOffsets(m)) = {o \in DOMAIN D \ {size} : m[at + o] # FDT_NOP}
<1>1. /\ size \in Nat /\ at \in Nat /\ at = fdt + off_dt_struct(m)
      /\ size_dt_struct(m) \in Nat /\ size + FDT_TAGSIZE = size_dt_struct(m)
      /\ at + size_dt_struct(m) <= MemSize
  BY StructIs, TagSize DEF IsStructOf
<1>2. IsChain(m, at, size, DOMAIN D) /\ m[at + size] = FDT_END
  BY DEF IsStructOf, IsStruct
<1> QED
  BY <1>1, <1>2, ChainOffsets

(* The properties of a node end at a tag. *)
LEMMA PropsEndIs ==
    ASSUME NEW m, NEW at, NEW size, NEW D, NEW N, IsStructOf(m, at, size, D, N),
           NEW node \in DOMAIN D \ {size}
    PROVE  PropsEnd(m, node) \in DOMAIN D
<1> DEFINE M == size_dt_struct(m) + FDT_TAGSIZE
<1>0. /\ size \in Nat /\ size_dt_struct(m) \in Nat /\ size + FDT_TAGSIZE = size_dt_struct(m)
      /\ M \in Nat /\ DOMAIN D \subseteq 0..size /\ DOMAIN D \subseteq 0..M /\ size \in DOMAIN D
  <2>1. size \in Nat /\ DOMAIN D \subseteq 0..size /\ size \in DOMAIN D
    BY StructIs DEF IsStructOf
  <2> QED
    BY <2>1, TagSize DEF IsStructOf
<1>1. \E f : f = [o \in 0..M |-> PropsOver(m, f, o)]
  <2>1. size_dt_struct(m) \in Nat
    BY <1>0
  <2>2. \E f : f = [o \in 0..(size_dt_struct(m) + FDT_TAGSIZE) |-> PropsOver(m, f, o)]
    BY <2>1, PropsWalkExists, Zenon
  <2> QED
    BY <2>2
<1>2. PICK end : /\ end = [o \in 0..M |-> PropsOver(m, end, o)]
                 /\ PropsEnd(m, node) = end[NextTag(m, node).next]
  <2> DEFINE body(f) == [o \in 0..M |-> PropsOver(m, f, o)]
             end == CHOOSE f : f = body(f)
  <2>1. end = body(end)
    BY <1>1, Zenon
  <2>2. PropsEnd(m, node) = end[NextTag(m, node).next]
    BY Zenon DEF PropsEnd, PropsOver
  <2> HIDE DEF end
  <2> QED
    BY <2>1, <2>2
<1>3. \A o \in DOMAIN D : end[o] = PropsOver(m, end, o)
  <2> HIDE DEF M
  <2>1. \A o \in 0..M : end[o] = PropsOver(m, end, o)
    BY <1>2, Zenon
  <2> QED
    BY <1>0, <2>1
<1>4. end[size] = size
  <2>1. NextTag(m, size).tag = FDT_END
    BY <1>0, EndTag DEF IsStructOf
  <2>2. NextTag(m, size).tag \notin {FDT_PROP, FDT_NOP}
    BY <2>1 DEF FDT_END, FDT_PROP, FDT_NOP
  <2>3. PropsOver(m, end, size) = size
    BY <2>2, Zenon DEF PropsOver
  <2> QED
    BY <1>0, <1>3, <2>3, Zenon
<1>5. ASSUME NEW o \in DOMAIN D, end[o] \notin DOMAIN D
      PROVE  \E p \in DOMAIN D : o < p /\ end[p] \notin DOMAIN D
  <2>1. o # size
    BY <1>0, <1>4, <1>5, Zenon
  <2>2. PICK next \in DOMAIN D : NextTag(m, o).next = next /\ o < next
    BY <2>1, StructTags
  <2>3. PropsOver(m, end, o) \in {end[next], o}
    BY <2>2, Zenon DEF PropsOver
  <2>4. end[o] \in {end[next], o}
    BY <1>3, <2>3, Zenon
  <2>5. end[next] \notin DOMAIN D
    BY <1>5, <2>4
  <2> QED
    BY <2>2, <2>5
<1> DEFINE Bad == {o \in DOMAIN D : end[o] \notin DOMAIN D}
<1>6. Bad = {}
  <2>1. SUFFICES ASSUME Bad # {} PROVE FALSE
    OBVIOUS
  <2>2. Bad \subseteq 0..size
    BY <1>0
  <2>3. PICK k \in Bad : \A j \in Bad : j <= k
    BY <1>0, <2>1, <2>2, GreatestOf
  <2>4. PICK p \in DOMAIN D : k < p /\ end[p] \notin DOMAIN D
    BY <1>5, <2>3
  <2>5. p \in Bad /\ p \in Nat /\ k \in Nat
    BY <2>2, <2>4
  <2> QED
    BY <2>3, <2>4, <2>5
<1>7. NextTag(m, node).next \in DOMAIN D
  <2>1. PICK next \in DOMAIN D : NextTag(m, node).next = next
    BY StructTags
  <2> QED
    BY <2>1
<1> QED
  BY <1>2, <1>6, <1>7

(* A node ends as deep as it begins. *)
LEMMA NodeEndIs ==
    ASSUME NEW m, NEW at, NEW size, NEW D, NEW N, IsStructOf(m, at, size, D, N),
           NEW node \in DOMAIN D \ {size}, m[at + node] = FDT_BEGIN_NODE, D[size] = 0
    PROVE  /\ fdt_node_end_offset_(m, node) \in DOMAIN D
           /\ node < fdt_node_end_offset_(m, node)
           /\ D[fdt_node_end_offset_(m, node)] = D[node]
<1> DEFINE M == size_dt_struct(m) + FDT_TAGSIZE
<1>0. /\ size \in Nat /\ size_dt_struct(m) \in Nat /\ size + FDT_TAGSIZE = size_dt_struct(m)
      /\ M \in Nat /\ DOMAIN D \subseteq 0..size /\ DOMAIN D \subseteq 0..M /\ size \in DOMAIN D
      /\ \A o \in DOMAIN D : D[o] \in Nat /\ o \in Nat
  <2>1. /\ size \in Nat /\ DOMAIN D \subseteq 0..size /\ size \in DOMAIN D
        /\ \A o \in DOMAIN D : D[o] \in Nat /\ o \in Nat
    BY StructIs DEF IsStructOf
  <2> QED
    BY <2>1, TagSize DEF IsStructOf
<1>1. \E f : f = [o \in 0..M |-> NodeOver(m, f, o)]
  <2>1. size_dt_struct(m) \in Nat
    BY <1>0
  <2>2. \E f : f = [o \in 0..(size_dt_struct(m) + FDT_TAGSIZE) |-> NodeOver(m, f, o)]
    BY <2>1, NodeWalkExists, Zenon
  <2> QED
    BY <2>2
<1>2. PICK end : /\ end = [o \in 0..M |-> NodeOver(m, end, o)]
                 /\ fdt_node_end_offset_(m, node) = end[node][0]
  <2> DEFINE body(f) == [o \in 0..M |-> NodeOver(m, f, o)]
             end == CHOOSE f : f = body(f)
  <2>1. end = body(end)
    BY <1>1, Zenon
  <2>2. fdt_node_end_offset_(m, node) = end[node][0]
    BY Zenon DEF fdt_node_end_offset_, NodeOver
  <2> HIDE DEF end
  <2> QED
    BY <2>1, <2>2
<1>3. \A o \in DOMAIN D : end[o] = NodeOver(m, end, o)
  <2> HIDE DEF M
  <2>1. \A o \in 0..M : end[o] = NodeOver(m, end, o)
    BY <1>2, Zenon
  <2> QED
    BY <1>0, <2>1
<1>4. ASSUME NEW o \in DOMAIN D \ {size}, NEW d \in Int
      PROVE  \E next \in DOMAIN D :
                /\ o < next /\ IsStep(m[at + o], D[o], D[next])
                /\ m[at + o] = FDT_BEGIN_NODE => end[o][d] = end[next][d + 1]
                /\ m[at + o] = FDT_END_NODE =>
                      end[o][d] = IF d = 1 THEN next ELSE end[next][d - 1]
                /\ m[at + o] \in {FDT_PROP, FDT_NOP} => end[o][d] = end[next][d]
                /\ m[at + o] \in {FDT_BEGIN_NODE, FDT_END_NODE, FDT_PROP, FDT_NOP}
  <2>1. PICK next \in DOMAIN D : /\ NextTag(m, o) = [tag |-> m[at + o], next |-> next]
                                 /\ o < next /\ IsTagStep(m, at, D, N, o, next)
                                 /\ m[at + o] # FDT_END
    BY StructTags
  <2>2. PICK tag, f : tag = m[at + o] /\ f = end[next]
    OBVIOUS
  <2>3. NextTag(m, o).tag = tag /\ NextTag(m, o).next = next
    BY <2>1, <2>2
  <2>4. end[o] = [depth \in Int |->
                    CASE tag = FDT_BEGIN_NODE -> f[depth + 1]
                      [] tag = FDT_END_NODE   -> IF depth = 1 THEN next ELSE f[depth - 1]
                      [] OTHER -> f[depth]]
    <3>1. NodeOver(m, end, o) =
            [depth \in Int |->
                    CASE tag = FDT_BEGIN_NODE -> f[depth + 1]
                      [] tag = FDT_END_NODE   -> IF depth = 1 THEN next ELSE f[depth - 1]
                      [] OTHER -> f[depth]]
      <4>1. tag # FDT_END
        BY <2>1, <2>2
      <4> DEFINE Over(t, n, v) ==
                   IF t = FDT_END THEN [depth \in Int |-> NULL]
                   ELSE [depth \in Int |->
                           CASE t = FDT_BEGIN_NODE -> v[depth + 1]
                             [] t = FDT_END_NODE   -> IF depth = 1 THEN n ELSE v[depth - 1]
                             [] OTHER -> v[depth]]
      <4>2. NodeOver(m, end, o) = Over(NextTag(m, o).tag, NextTag(m, o).next,
                                       end[NextTag(m, o).next])
        BY Zenon DEF NodeOver
      <4>3. NodeOver(m, end, o) = Over(tag, next, f)
        <5> HIDE DEF Over
        <5> QED
          BY <2>2, <2>3, <4>2, Zenon
      <4> QED
        BY <4>1, <4>3, Zenon
    <3> QED
      BY <1>3, <3>1, Zenon
  <2>5. end[o][d] = CASE tag = FDT_BEGIN_NODE -> f[d + 1]
                      [] tag = FDT_END_NODE   -> IF d = 1 THEN next ELSE f[d - 1]
                      [] OTHER -> f[d]
    BY <2>4
  <2>6. /\ tag = FDT_BEGIN_NODE => end[o][d] = f[d + 1]
        /\ tag = FDT_END_NODE => end[o][d] = IF d = 1 THEN next ELSE f[d - 1]
        /\ tag \in {FDT_PROP, FDT_NOP} => end[o][d] = f[d]
    BY <2>5 DEF FDT_BEGIN_NODE, FDT_END_NODE, FDT_PROP, FDT_NOP
  <2>7. IsTag(m, at, o, next)
    BY <2>1 DEF IsTagStep
  <2>8. tag \in {FDT_BEGIN_NODE, FDT_END_NODE, FDT_PROP, FDT_NOP}
    BY <2>2, <2>7 DEF IsTag
  <2> QED
    BY <2>1, <2>2, <2>6, <2>8 DEF IsTagStep
<1> DEFINE Closes(o) == LET e == end[o][D[o] - D[node]]
                      IN  e \in DOMAIN D /\ o < e /\ D[e] = D[node]
           Bad == {o \in DOMAIN D : D[node] < D[o] /\ ~Closes(o)}
<1>5. ASSUME NEW o \in Bad PROVE \E p \in Bad : o < p
  <2>0. o \in DOMAIN D /\ D[node] < D[o] /\ D[o] \in Nat /\ D[node] \in Nat
    BY <1>0
  <2>1. o # size
    BY <2>0
  <2>2. PICK d : d = D[o] - D[node]
    OBVIOUS
  <2>3. d \in Int /\ 1 <= d
    BY <2>0, <2>2
  <2>4. PICK next \in DOMAIN D :
                /\ o < next /\ IsStep(m[at + o], D[o], D[next])
                /\ m[at + o] = FDT_BEGIN_NODE => end[o][d] = end[next][d + 1]
                /\ m[at + o] = FDT_END_NODE =>
                      end[o][d] = IF d = 1 THEN next ELSE end[next][d - 1]
                /\ m[at + o] \in {FDT_PROP, FDT_NOP} => end[o][d] = end[next][d]
                /\ m[at + o] \in {FDT_BEGIN_NODE, FDT_END_NODE, FDT_PROP, FDT_NOP}
    BY <1>4, <2>0, <2>1, <2>3
  <2>5. next \in Nat /\ D[next] \in Nat /\ o \in Nat
    BY <1>0, <2>0
  <2>6. ~(end[o][d] \in DOMAIN D /\ o < end[o][d] /\ D[end[o][d]] = D[node])
    BY <2>2
  <2>7. ASSUME D[node] < D[next], end[o][d] = end[next][D[next] - D[node]]
        PROVE  next \in Bad
    <3>1. PICK e : e = end[o][d]
      OBVIOUS
    <3>2. e = end[next][D[next] - D[node]]
      BY <2>7, <3>1
    <3>3. ASSUME Closes(next) PROVE FALSE
      <4>1. e \in DOMAIN D /\ next < e /\ D[e] = D[node]
        BY <3>2, <3>3
      <4>2. o < e
        BY <1>0, <2>4, <2>5, <4>1
      <4> QED
        BY <2>6, <3>1, <4>1, <4>2
    <3> QED
      BY <2>7, <3>3
  <2>8. CASE m[at + o] = FDT_BEGIN_NODE
    <3>1. D[next] = D[o] + 1 /\ D[next] - D[node] = d + 1
      BY <2>0, <2>2, <2>4, <2>8 DEF IsStep
    <3> QED
      BY <2>0, <2>4, <2>5, <2>7, <2>8, <3>1
  <2>9. CASE m[at + o] = FDT_END_NODE
    <3>1. D[o] = D[next] + 1
      BY <2>4, <2>9 DEF IsStep
    <3>2. CASE d = 1
      <4>1. D[next] = D[node] /\ end[o][d] = next
        BY <2>0, <2>2, <2>4, <2>5, <2>9, <3>1, <3>2
      <4> QED
        BY <2>4, <2>6, <4>1
    <3>3. CASE d # 1
      <4>1. D[node] < D[next] /\ D[next] - D[node] = d - 1
        BY <2>0, <2>2, <2>5, <3>1, <3>3
      <4> QED
        BY <2>4, <2>7, <2>9, <3>3, <4>1
    <3> QED
      BY <3>2, <3>3
  <2>10. CASE m[at + o] \in {FDT_PROP, FDT_NOP}
    <3>1. D[next] = D[o]
      BY <2>4, <2>10 DEF IsStep
    <3> QED
      BY <2>0, <2>2, <2>4, <2>7, <2>10, <3>1
  <2> QED
    BY <2>4, <2>8, <2>9, <2>10
<1>6. Bad = {}
  <2>1. SUFFICES ASSUME Bad # {} PROVE FALSE
    OBVIOUS
  <2>2. Bad \subseteq 0..size
    BY <1>0
  <2> HIDE DEF Bad
  <2>3. PICK k \in Bad : \A j \in Bad : j <= k
    BY <1>0, <2>1, <2>2, GreatestOf
  <2>4. PICK p \in Bad : k < p
    BY <1>5, <2>3
  <2>5. p \in Nat /\ k \in Nat
    BY <2>2
  <2> QED
    BY <2>3, <2>4, <2>5
<1>7. PICK next \in DOMAIN D :
          /\ node < next /\ IsStep(m[at + node], D[node], D[next])
          /\ end[node][0] = end[next][0 + 1]
  BY <1>4
<1>8. D[next] = D[node] + 1 /\ D[next] - D[node] = 1 /\ D[node] < D[next]
  BY <1>0, <1>7 DEF IsStep
<1>9. Closes(next)
  BY <1>6, <1>8
<1>10. PICK e : e = end[next][1]
  OBVIOUS
<1>11. e \in DOMAIN D /\ next < e /\ D[e] = D[node]
  BY <1>8, <1>9, <1>10
<1>12. node < e
  BY <1>0, <1>7, <1>11
<1>13. fdt_node_end_offset_(m, node) = e
  BY <1>2, <1>7, <1>10
<1> QED
  BY <1>11, <1>12, <1>13

----------------------------------------------------------------------------
(* A blob, by the numbers in its header *)

IsMemory(m) == m = [i \in 0..(MemSize - 1) |-> m[i]]

(* The blocks lie in the blob, behind the header and apart. *)
Fit(total, rsv, n, struct, size, strs, sizestrs) ==
    /\ total \in Nat /\ rsv \in Nat /\ n \in Nat /\ struct \in Nat
    /\ size \in Nat /\ strs \in Nat /\ sizestrs \in Nat
    /\ 8 <= rsv /\ 8 <= struct /\ 8 <= strs
    /\ rsv + 2 * n + 2 <= total /\ struct + size + FDT_TAGSIZE <= total
    /\ strs + sizestrs <= total
    /\ rsv + 2 * n + 2 <= struct \/ struct + size + FDT_TAGSIZE <= rsv
    /\ rsv + 2 * n + 2 <= strs \/ strs + sizestrs <= rsv
    /\ struct + size + FDT_TAGSIZE <= strs \/ strs + sizestrs <= struct

(* The header at address f says so. *)
InHeader(m, f, total, rsv, struct, size, strs, sizestrs) ==
    /\ m[f + 1] = total /\ m[f + 2] = struct /\ m[f + 3] = strs
    /\ m[f + 4] = rsv /\ m[f + 6] = sizestrs /\ m[f + 7] = size + FDT_TAGSIZE

(* The blocks hold N reservations and a tree. *)
IsTree(m, at, size, N) ==
    \E D : IsStruct(m, at, size, D, N) /\ D[0] = 0 /\ D[size] = 0

Holds(m, f, rsv, n, struct, size, strs, sizestrs) ==
    /\ IsReserved(m, f + rsv, n)
    /\ IsTree(m, f + struct, size, StringsIn(m, f + strs, sizestrs))
    /\ m[f + struct + size] = FDT_END

Shape(m, f, total, rsv, n, struct, size, strs, sizestrs) ==
    /\ f \in Nat /\ Fit(total, rsv, n, struct, size, strs, sizestrs)
    /\ InHeader(m, f, total, rsv, struct, size, strs, sizestrs)
    /\ Holds(m, f, rsv, n, struct, size, strs, sizestrs)

(* Cells of the blocks *)
InUse(i, f, rsv, n, struct, size, strs, sizestrs) ==
    \/ f <= i /\ i < f + 8
    \/ f + rsv <= i /\ i < f + rsv + 2 * n + 2
    \/ f + struct <= i /\ i < f + struct + size + FDT_TAGSIZE
    \/ f + strs <= i /\ i < f + strs + sizestrs

LEMMA FieldNumbers ==
    /\ Fields["magic"] = 0 /\ Fields["totalsize"] = 1 /\ Fields["off_dt_struct"] = 2
    /\ Fields["off_dt_strings"] = 3 /\ Fields["off_mem_rsvmap"] = 4 /\ Fields["flags"] = 5
    /\ Fields["size_dt_strings"] = 6 /\ Fields["size_dt_struct"] = 7
  BY DEF Fields

(* What the model says of a blob, with the fields as parameters *)
BlobOf(m, a, depth, total, rsv, struct, size, strs, sizestrs) ==
    LET tags == size - FDT_TAGSIZE
    IN  /\ {rsv, struct, strs, size, sizestrs, total} \subseteq Nat
        /\ HeaderSize <= rsv /\ HeaderSize <= struct /\ HeaderSize <= strs
        /\ struct + size <= total /\ strs + sizestrs <= total
        /\ AreApart(struct, size, strs, sizestrs)
        /\ \E n \in 0..total :
              LET sizersv == ReserveSize * (n + 1)
              IN  /\ IsReserved(m, a + rsv, n) /\ rsv + sizersv <= total
                  /\ AreApart(rsv, sizersv, struct, size)
                  /\ AreApart(rsv, sizersv, strs, sizestrs)
        /\ IsStruct(m, a + struct, tags, depth, StringsIn(m, a + strs, sizestrs))
        /\ depth[0] = 0 /\ depth[tags] = 0 /\ m[a + struct + tags] = FDT_END

LEMMA BlobIs ==
    ASSUME NEW m, NEW a, NEW depth
    PROVE  IsBlob(m, a, depth) <=>
              BlobOf(m, a, depth, m[a + 1], m[a + 4], m[a + 2], m[a + 7], m[a + 3], m[a + 6])
<1>1. IsBlob(m, a, depth) <=>
         BlobOf(m, a, depth, m[a + Fields["totalsize"]], m[a + Fields["off_mem_rsvmap"]],
                m[a + Fields["off_dt_struct"]], m[a + Fields["size_dt_struct"]],
                m[a + Fields["off_dt_strings"]], m[a + Fields["size_dt_strings"]])
  BY Zenon DEF IsBlob, BlobOf
<1> QED
  BY <1>1, FieldNumbers, Zenon

LEMMA BlobHasShape ==
    ASSUME NEW m, NEW f \in Nat, NEW depth, IsBlob(m, f, depth)
    PROVE  \E total, rsv, n, struct, size, strs, sizestrs :
              Shape(m, f, total, rsv, n, struct, size, strs, sizestrs)
<1> PICK total, rsv, struct, block, strs, sizestrs :
        /\ m[f + 1] = total /\ m[f + 4] = rsv /\ m[f + 2] = struct
        /\ m[f + 7] = block /\ m[f + 3] = strs /\ m[f + 6] = sizestrs
  OBVIOUS
<1>1. BlobOf(m, f, depth, total, rsv, struct, block, strs, sizestrs)
  BY BlobIs, Zenon
<1> PICK size : size = block - FDT_TAGSIZE
  OBVIOUS
<1>2. PICK n \in 0..total :
          /\ IsReserved(m, f + rsv, n) /\ rsv + ReserveSize * (n + 1) <= total
          /\ AreApart(rsv, ReserveSize * (n + 1), struct, block)
          /\ AreApart(rsv, ReserveSize * (n + 1), strs, sizestrs)
  BY <1>1, Zenon DEF BlobOf
<1>3. /\ rsv \in Nat /\ struct \in Nat /\ strs \in Nat /\ block \in Nat
      /\ sizestrs \in Nat /\ total \in Nat
      /\ HeaderSize <= rsv /\ HeaderSize <= struct /\ HeaderSize <= strs
      /\ struct + block <= total /\ strs + sizestrs <= total
      /\ AreApart(struct, block, strs, sizestrs)
  BY <1>1 DEF BlobOf
<1>4. /\ IsStruct(m, f + struct, size, depth, StringsIn(m, f + strs, sizestrs))
      /\ depth[0] = 0 /\ depth[size] = 0 /\ m[f + struct + size] = FDT_END
  BY <1>1, Zenon DEF BlobOf
<1>5. size \in Nat
  BY <1>4, StructIs
<1>6. block = size + FDT_TAGSIZE
  BY <1>3, <1>5, TagSize
<1>7. n \in Nat /\ ReserveSize * (n + 1) = 2 * n + 2
  BY <1>3 DEF ReserveSize
<1>8. Fit(total, rsv, n, struct, size, strs, sizestrs)
  BY <1>2, <1>3, <1>5, <1>6, <1>7, TagSize DEF Fit, AreApart, HeaderSize
<1>9. InHeader(m, f, total, rsv, struct, size, strs, sizestrs)
  BY <1>6 DEF InHeader
<1>10. Holds(m, f, rsv, n, struct, size, strs, sizestrs)
  BY <1>2, <1>4, Zenon DEF Holds, IsTree
<1> QED
  BY <1>8, <1>9, <1>10 DEF Shape

LEMMA ShapeIsBlob ==
    ASSUME NEW m, NEW f, NEW total, NEW rsv, NEW n, NEW struct, NEW size, NEW strs, NEW sizestrs,
           Shape(m, f, total, rsv, n, struct, size, strs, sizestrs)
    PROVE  \E depth : IsBlob(m, f, depth)
<1>1. /\ Fit(total, rsv, n, struct, size, strs, sizestrs)
      /\ InHeader(m, f, total, rsv, struct, size, strs, sizestrs)
      /\ Holds(m, f, rsv, n, struct, size, strs, sizestrs)
  BY DEF Shape
<1> PICK block : block = size + FDT_TAGSIZE
  OBVIOUS
<1>2. /\ m[f + 1] = total /\ m[f + 4] = rsv /\ m[f + 2] = struct
      /\ m[f + 7] = block /\ m[f + 3] = strs /\ m[f + 6] = sizestrs
  BY <1>1 DEF InHeader
<1>3. PICK depth : /\ IsStruct(m, f + struct, size, depth, StringsIn(m, f + strs, sizestrs))
                   /\ depth[0] = 0 /\ depth[size] = 0
  BY <1>1, Zenon DEF Holds, IsTree
<1>4. block - FDT_TAGSIZE = size /\ block \in Nat
  BY <1>1, TagSize DEF Fit
<1>5. n \in 0..total /\ ReserveSize * (n + 1) = 2 * n + 2
  BY <1>1 DEF Fit, ReserveSize
<1>6. /\ rsv \in Nat /\ struct \in Nat /\ strs \in Nat /\ block \in Nat
      /\ sizestrs \in Nat /\ total \in Nat
      /\ HeaderSize <= rsv /\ HeaderSize <= struct /\ HeaderSize <= strs
      /\ struct + block <= total /\ strs + sizestrs <= total
      /\ AreApart(struct, block, strs, sizestrs)
      /\ rsv + ReserveSize * (n + 1) <= total
      /\ AreApart(rsv, ReserveSize * (n + 1), struct, block)
      /\ AreApart(rsv, ReserveSize * (n + 1), strs, sizestrs)
  BY <1>1, <1>4, <1>5, TagSize DEF Fit, AreApart, HeaderSize
<1>7. IsReserved(m, f + rsv, n) /\ m[f + struct + size] = FDT_END
  BY <1>1 DEF Holds
<1>8. {rsv, struct, strs, block, sizestrs, total} \subseteq Nat
  BY <1>6
<1>9. BlobOf(m, f, depth, total, rsv, struct, block, strs, sizestrs)
  BY <1>3, <1>4, <1>5, <1>6, <1>7, <1>8, Zenon DEF BlobOf
<1> QED
  BY <1>2, <1>9, BlobIs, Zenon

(* Cells that move, and reservations, strings and a tree in them *)
Moved(m, p, g, to, size) == \A x \in 0..(size - 1) : g[to + x] = m[p + x]

LEMMA MovedLess ==
    ASSUME NEW m, NEW p, NEW g, NEW to, NEW size \in Int, Moved(m, p, g, to, size),
           NEW less \in Int, less <= size
    PROVE  Moved(m, p, g, to, less)
  BY DEF Moved

LEMMA ReservedMoves ==
    ASSUME NEW m, NEW p, NEW n, IsReserved(m, p, n), NEW g, NEW to,
           p \in Int, n \in Nat, to \in Int, Moved(m, p, g, to, 2 * n + 2)
    PROVE  IsReserved(g, to, n)
<1>1. m[p + 2 * n + 1] = 0 /\ \A i \in 0..(n - 1) : m[p + 2 * i + 1] # 0
  BY DEF IsReserved, ReserveSize
<1>2. \A x \in 0..(2 * n + 1) : g[to + x] = m[p + x]
  <2>1. 0..((2 * n + 2) - 1) = 0..(2 * n + 1)
    OBVIOUS
  <2>2. \A x \in 0..((2 * n + 2) - 1) : g[to + x] = m[p + x]
    BY Zenon DEF Moved
  <2> QED
    BY <2>1, <2>2, Zenon
<1>3. g[to + 2 * n + 1] = 0
  <2>1. 2 * n + 1 \in 0..(2 * n + 1) /\ to + (2 * n + 1) = to + 2 * n + 1
        /\ p + (2 * n + 1) = p + 2 * n + 1
    OBVIOUS
  <2> QED
    BY <1>1, <1>2, <2>1
<1>4. ASSUME NEW i \in 0..(n - 1) PROVE g[to + 2 * i + 1] # 0
  <2>1. 2 * i + 1 \in 0..(2 * n + 1) /\ to + (2 * i + 1) = to + 2 * i + 1
        /\ p + (2 * i + 1) = p + 2 * i + 1
    OBVIOUS
  <2> QED
    BY <1>1, <1>2, <2>1
<1> QED
  BY <1>3, <1>4 DEF IsReserved, ReserveSize

LEMMA StringsMove ==
    ASSUME NEW m, NEW at \in Int, NEW size \in Nat, NEW g, NEW to \in Int,
           NEW more \in Nat, size <= more, Moved(m, at, g, to, size)
    PROVE  StringsIn(m, at, size) \subseteq StringsIn(g, to, more)
<1>1. ASSUME NEW o \in StringsIn(m, at, size) PROVE o \in StringsIn(g, to, more)
  <2>1. o \in 0..(size - 1)
    BY DEF StringsIn
  <2>2. PICK z \in o..(size - 1) : m[at + z] = 0
    BY DEF StringsIn
  <2>3. g[to + z] = 0 /\ z \in o..(more - 1) /\ o \in 0..(more - 1)
    BY <2>1, <2>2 DEF Moved
  <2> QED
    BY <2>3 DEF StringsIn
<1> QED
  BY <1>1

LEMMA TreeMoves ==
    ASSUME NEW m, NEW at \in Int, NEW size, NEW N, IsTree(m, at, size, N),
           NEW g, NEW to \in Int, NEW M, N \subseteq M, Moved(m, at, g, to, size)
    PROVE  IsTree(g, to, size, M)
<1>1. PICK D : IsStruct(m, at, size, D, N) /\ D[0] = 0 /\ D[size] = 0
  BY DEF IsTree
<1>2. IsStruct(g, to, size, D, M)
  BY <1>1, StructMoves DEF Moved
<1> QED
  BY <1>1, <1>2 DEF IsTree

(* The blocks may each move to another place. *)
LEMMA HoldsMoves ==
    ASSUME NEW m, NEW f, NEW rsv, NEW n, NEW struct, NEW size, NEW strs, NEW sizestrs,
           Holds(m, f, rsv, n, struct, size, strs, sizestrs),
           f \in Nat, rsv \in Nat, n \in Nat, struct \in Nat, size \in Nat, strs \in Nat,
           sizestrs \in Nat,
           NEW g, NEW to \in Nat, NEW rsv2 \in Nat, NEW struct2 \in Nat, NEW strs2 \in Nat,
           Moved(m, f + rsv, g, to + rsv2, 2 * n + 2),
           Moved(m, f + struct, g, to + struct2, size + 1),
           Moved(m, f + strs, g, to + strs2, sizestrs)
    PROVE  Holds(g, to, rsv2, n, struct2, size, strs2, sizestrs)
<1>1. /\ IsReserved(m, f + rsv, n)
      /\ IsTree(m, f + struct, size, StringsIn(m, f + strs, sizestrs))
      /\ m[f + struct + size] = FDT_END
  BY DEF Holds
<1> PICK a, b, c, d, e, h : /\ a = f + rsv /\ b = f + struct /\ c = f + strs
                            /\ d = to + rsv2 /\ e = to + struct2 /\ h = to + strs2
  OBVIOUS
<1>2. a \in Int /\ b \in Int /\ c \in Int /\ d \in Int /\ e \in Int /\ h \in Int
  OBVIOUS
<1>3. IsReserved(g, d, n)
  <2>1. IsReserved(m, a, n) /\ Moved(m, a, g, d, 2 * n + 2)
    BY <1>1
  <2> QED
    BY <1>2, <2>1, ReservedMoves
<1>4. StringsIn(m, c, sizestrs) \subseteq StringsIn(g, h, sizestrs)
  <2>1. sizestrs <= sizestrs /\ Moved(m, c, g, h, sizestrs)
    OBVIOUS
  <2> QED
    BY <1>2, <2>1, StringsMove
<1> PICK N, M : N = StringsIn(m, c, sizestrs) /\ M = StringsIn(g, h, sizestrs)
  OBVIOUS
<1>5. IsTree(g, e, size, M)
  <2>1. Moved(m, b, g, e, size)
    <3>1. size <= size + 1 /\ size + 1 \in Int /\ Moved(m, b, g, e, size + 1)
      OBVIOUS
    <3> QED
      BY <3>1, MovedLess
  <2>2. IsTree(m, b, size, N) /\ N \subseteq M
    BY <1>1, <1>4
  <2> QED
    BY <1>2, <2>1, <2>2, TreeMoves
<1>6. g[e + size] = FDT_END
  <2>1. size \in 0..((size + 1) - 1)
    OBVIOUS
  <2>2. Moved(m, b, g, e, size + 1)
    OBVIOUS
  <2>3. g[e + size] = m[b + size]
    BY <2>1, <2>2, Zenon DEF Moved
  <2> QED
    BY <1>1, <2>3
<1> QED
  BY <1>3, <1>5, <1>6 DEF Holds

(* There is one number of reservations. *)
LEMMA ReservedIs ==
    ASSUME NEW m, NEW p \in Int, NEW n \in 0..MemSize, IsReserved(m, p, n)
    PROVE  Reserved(m, p) = n
<1>1. ASSUME NEW j \in 0..MemSize, IsReserved(m, p, j) PROVE j = n
  <2>0. MemSize \in Nat /\ j \in Nat /\ n \in Nat
    BY TagSize
  <2>1. /\ m[p + 2 * n + 1] = 0 /\ \A i \in 0..(n - 1) : m[p + 2 * i + 1] # 0
        /\ m[p + 2 * j + 1] = 0 /\ \A i \in 0..(j - 1) : m[p + 2 * i + 1] # 0
    BY <1>1 DEF IsReserved, ReserveSize
  <2>2. ~(j < n)
    <3>1. j < n => j \in 0..(n - 1)
      BY <2>0
    <3> QED
      BY <2>1, <3>1
  <2>3. ~(n < j)
    <3>1. n < j => n \in 0..(j - 1)
      BY <2>0
    <3> QED
      BY <2>1, <3>1
  <2> QED
    BY <2>0, <2>2, <2>3
<1> QED
  BY <1>1, Zenon DEF Reserved

(* What is kept of a memory, with the fields as parameters *)
KeptOf(m, a, n, rsv, struct, block, strs, sizestrs) ==
    LET Block(offset, size) == (a + offset)..(a + offset + size - 1)
        used == Block(0, HeaderSize)
                \cup Block(rsv, ReserveSize * (n + 1))
                \cup Block(struct, block)
                \cup Block(strs, sizestrs)
    IN  [i \in DOMAIN m |-> IF i \in used THEN m[i] ELSE LEFTOVER]

LEMMA KeptIs ==
    ASSUME NEW m, NEW a
    PROVE  Kept(m, a) = KeptOf(m, a, Reserved(m, a + m[a + 4]), m[a + 4], m[a + 2], m[a + 7],
                               m[a + 3], m[a + 6])
<1>1. Kept(m, a) = KeptOf(m, a, Reserved(m, a + m[a + Fields["off_mem_rsvmap"]]),
                          m[a + Fields["off_mem_rsvmap"]],
                          m[a + Fields["off_dt_struct"]], m[a + Fields["size_dt_struct"]],
                          m[a + Fields["off_dt_strings"]], m[a + Fields["size_dt_strings"]])
  BY Zenon DEF Kept, KeptOf
<1> QED
  BY <1>1, FieldNumbers, Zenon

(* The cells that are not in a block are left over. *)
LEMMA KeptCells ==
    ASSUME NEW m, IsMemory(m), NEW f, NEW total, NEW rsv, NEW n, NEW struct, NEW size,
           NEW strs, NEW sizestrs, Shape(m, f, total, rsv, n, struct, size, strs, sizestrs),
           f + total <= MemSize
    PROVE  Kept(m, f) = [i \in 0..(MemSize - 1) |->
                            IF InUse(i, f, rsv, n, struct, size, strs, sizestrs)
                            THEN m[i] ELSE LEFTOVER]
<1>1. /\ f \in Nat /\ Fit(total, rsv, n, struct, size, strs, sizestrs)
      /\ InHeader(m, f, total, rsv, struct, size, strs, sizestrs)
      /\ IsReserved(m, f + rsv, n)
  BY DEF Shape, Holds
<1>2. f + rsv \in Int /\ n \in 0..MemSize /\ n \in Nat
  BY <1>1, TagSize DEF Fit
<1>3. Reserved(m, f + rsv) = n
  BY <1>1, <1>2, ReservedIs
<1> PICK block : block = size + FDT_TAGSIZE
  OBVIOUS
<1>4. /\ m[f + 1] = total /\ m[f + 4] = rsv /\ m[f + 2] = struct
      /\ m[f + 7] = block /\ m[f + 3] = strs /\ m[f + 6] = sizestrs
  BY <1>1 DEF InHeader
<1>5. Kept(m, f) = KeptOf(m, f, n, rsv, struct, block, strs, sizestrs)
  BY <1>3, <1>4, KeptIs, Zenon
<1> DEFINE used == (f + 0)..(f + 0 + HeaderSize - 1)
                   \cup (f + rsv)..(f + rsv + ReserveSize * (n + 1) - 1)
                   \cup (f + struct)..(f + struct + block - 1)
                   \cup (f + strs)..(f + strs + sizestrs - 1)
           Cell(i) == IF i \in used THEN m[i] ELSE LEFTOVER
<1>6. Kept(m, f) = [i \in DOMAIN m |-> Cell(i)]
  BY <1>5, Zenon DEF KeptOf
<1>7. DOMAIN m = 0..(MemSize - 1)
  BY DEF IsMemory
<1>8. \A i \in 0..(MemSize - 1) :
          i \in used <=> InUse(i, f, rsv, n, struct, size, strs, sizestrs)
  <2>1. /\ rsv \in Nat /\ struct \in Nat /\ size \in Nat /\ strs \in Nat /\ sizestrs \in Nat
        /\ FDT_TAGSIZE \in Nat /\ block \in Nat /\ HeaderSize = 8
        /\ ReserveSize * (n + 1) = 2 * n + 2 /\ f \in Nat /\ n \in Nat
    BY <1>1, <1>2, TagSize DEF Fit, HeaderSize, ReserveSize
  <2>2. TAKE i \in 0..(MemSize - 1)
  <2>3. i \in Int
    OBVIOUS
  <2>4. i \in (f + 0)..(f + 0 + HeaderSize - 1) <=> f <= i /\ i < f + 8
    BY <2>1, <2>3
  <2>5. i \in (f + rsv)..(f + rsv + ReserveSize * (n + 1) - 1)
           <=> f + rsv <= i /\ i < f + rsv + 2 * n + 2
    BY <2>1, <2>3
  <2>6. i \in (f + struct)..(f + struct + block - 1)
           <=> f + struct <= i /\ i < f + struct + size + FDT_TAGSIZE
    BY <2>1, <2>3
  <2>7. i \in (f + strs)..(f + strs + sizestrs - 1)
           <=> f + strs <= i /\ i < f + strs + sizestrs
    BY <2>1, <2>3
  <2> QED
    BY <2>4, <2>5, <2>6, <2>7 DEF InUse
<1> DEFINE Other(i) == IF InUse(i, f, rsv, n, struct, size, strs, sizestrs)
                       THEN m[i] ELSE LEFTOVER
<1>9. \A i \in 0..(MemSize - 1) : Cell(i) = Other(i)
  <2> HIDE DEF used
  <2> QED
    BY <1>8, Zenon
<1>10. [i \in 0..(MemSize - 1) |-> Cell(i)] = [i \in 0..(MemSize - 1) |-> Other(i)]
  <2> HIDE DEF Cell, Other
  <2> QED
    BY <1>9
<1> QED
  BY <1>6, <1>7, <1>10, Zenon

(* There is room for the blob in a buffer. *)
InBuffer(f, total) == \E b \in Buffers : b.addr = f /\ total <= b.size

(* What holds of the memory in every state *)
Good(m, f) ==
    /\ IsMemory(m)
    /\ f # NULL => /\ m = Kept(m, f) /\ InBuffer(f, m[f + 1])
                   /\ \E depth : IsBlob(m, f, depth)

(* The blob at fdt has these numbers in its header. *)
Blob(m, f, total, rsv, n, struct, size, strs, sizestrs) ==
    /\ IsMemory(m) /\ InBuffer(f, total) /\ f + total <= MemSize
    /\ Shape(m, f, total, rsv, n, struct, size, strs, sizestrs)

LEMMA BufferIsInside ==
    ASSUME NEW f, NEW total \in Nat, InBuffer(f, total)
    PROVE  f \in Nat /\ f + total <= MemSize
  BY ConstantsAreTyped DEF InBuffer

LEMMA GoodIsBlob ==
    ASSUME NEW m, NEW f, f # NULL, Good(m, f)
    PROVE  \E total, rsv, n, struct, size, strs, sizestrs :
              Blob(m, f, total, rsv, n, struct, size, strs, sizestrs)
<1>1. IsMemory(m) /\ InBuffer(f, m[f + 1]) /\ f \in Nat
  BY ConstantsAreTyped DEF Good, InBuffer
<1>2. PICK depth : IsBlob(m, f, depth)
  BY DEF Good
<1>3. PICK total, rsv, n, struct, size, strs, sizestrs :
          Shape(m, f, total, rsv, n, struct, size, strs, sizestrs)
  BY <1>1, <1>2, BlobHasShape
<1>4. m[f + 1] = total /\ total \in Nat
  BY <1>3 DEF Shape, InHeader, Fit
<1>5. InBuffer(f, total)
  BY <1>1, <1>4
<1>6. f + total <= MemSize
  BY <1>4, <1>5, BufferIsInside
<1> QED
  BY <1>1, <1>3, <1>5, <1>6 DEF Blob

LEMMA BlobKept ==
    ASSUME NEW m, NEW f, NEW total, NEW rsv, NEW n, NEW struct, NEW size, NEW strs,
           NEW sizestrs, Blob(m, f, total, rsv, n, struct, size, strs, sizestrs)
    PROVE  /\ Blob(Kept(m, f), f, total, rsv, n, struct, size, strs, sizestrs)
           /\ Good(Kept(m, f), f)
<1> PICK g : g = Kept(m, f)
  OBVIOUS
<1> DEFINE Used(i) == InUse(i, f, rsv, n, struct, size, strs, sizestrs)
<1>1. /\ IsMemory(m) /\ InBuffer(f, total) /\ f + total <= MemSize /\ f \in Nat
      /\ Shape(m, f, total, rsv, n, struct, size, strs, sizestrs)
      /\ Fit(total, rsv, n, struct, size, strs, sizestrs)
      /\ InHeader(m, f, total, rsv, struct, size, strs, sizestrs)
      /\ Holds(m, f, rsv, n, struct, size, strs, sizestrs)
  BY DEF Blob, Shape
<1>2. g = [i \in 0..(MemSize - 1) |-> IF Used(i) THEN m[i] ELSE LEFTOVER]
  BY <1>1, KeptCells
<1>3. IsMemory(g)
  BY <1>2 DEF IsMemory
<1>4. \A i \in 0..(MemSize - 1) : Used(i) => g[i] = m[i]
  BY <1>2, Zenon
<1>5. /\ total \in Nat /\ rsv \in Nat /\ n \in Nat /\ struct \in Nat /\ size \in Nat
      /\ strs \in Nat /\ sizestrs \in Nat /\ 8 <= rsv
      /\ rsv + 2 * n + 2 <= total /\ struct + size + FDT_TAGSIZE <= total
      /\ strs + sizestrs <= total /\ FDT_TAGSIZE \in Nat \ {0} /\ MemSize \in Nat
  BY <1>1, TagSize DEF Fit
<1>6. InHeader(g, f, total, rsv, struct, size, strs, sizestrs)
  <2>1. \A k \in 1..7 : f + k \in 0..(MemSize - 1) /\ Used(f + k)
    BY <1>1, <1>5 DEF InUse
  <2>2. \A k \in 1..7 : g[f + k] = m[f + k]
    BY <1>4, <2>1
  <2> QED
    BY <1>1, <2>2 DEF InHeader
<1>7. Moved(m, f + rsv, g, f + rsv, 2 * n + 2)
  <2>1. \A x \in 0..((2 * n + 2) - 1) : f + rsv + x \in 0..(MemSize - 1) /\ Used(f + rsv + x)
    BY <1>1, <1>5 DEF InUse
  <2> QED
    BY <1>4, <2>1 DEF Moved
<1>8. Moved(m, f + struct, g, f + struct, size + 1)
  <2>1. \A x \in 0..size : f + struct + x \in 0..(MemSize - 1) /\ Used(f + struct + x)
    BY <1>1, <1>5 DEF InUse
  <2> QED
    BY <1>1, <1>4, <1>5, <2>1 DEF Moved
<1>9. Moved(m, f + strs, g, f + strs, sizestrs)
  <2>1. \A x \in 0..(sizestrs - 1) : f + strs + x \in 0..(MemSize - 1) /\ Used(f + strs + x)
    BY <1>1, <1>5 DEF InUse
  <2> QED
    BY <1>1, <1>4, <1>5, <2>1 DEF Moved
<1>10. Holds(g, f, rsv, n, struct, size, strs, sizestrs)
  <2>1. /\ rsv \in Nat /\ n \in Nat /\ struct \in Nat /\ size \in Nat /\ strs \in Nat
        /\ sizestrs \in Nat /\ f \in Nat
    BY <1>1, <1>5
  <2>2. Holds(m, f, rsv, n, struct, size, strs, sizestrs)
    BY <1>1
  <2> QED
    BY <1>7, <1>8, <1>9, <2>1, <2>2, HoldsMoves
<1>11. Shape(g, f, total, rsv, n, struct, size, strs, sizestrs)
  BY <1>1, <1>6, <1>10 DEF Shape
<1>12. Kept(g, f) = g
  <2>1. Kept(g, f) = [i \in 0..(MemSize - 1) |-> IF Used(i) THEN g[i] ELSE LEFTOVER]
    BY <1>1, <1>3, <1>11, KeptCells
  <2>2. \A i \in 0..(MemSize - 1) : (IF Used(i) THEN g[i] ELSE LEFTOVER) = g[i]
    <3> HIDE DEF Used
    <3> QED
      BY <1>2
  <2>3. Kept(g, f) = [i \in 0..(MemSize - 1) |-> g[i]]
    <3> HIDE DEF Used
    <3> QED
      BY <2>1, <2>2
  <2> QED
    BY <1>3, <2>3 DEF IsMemory
<1>13. \E depth : IsBlob(g, f, depth)
  BY <1>11, ShapeIsBlob
<1>14. g[f + 1] = total
  BY <1>6 DEF InHeader
<1>15. Good(g, f)
  BY <1>1, <1>3, <1>12, <1>13, <1>14 DEF Good
<1>16. Blob(g, f, total, rsv, n, struct, size, strs, sizestrs)
  BY <1>1, <1>3, <1>11 DEF Blob
<1> QED
  BY <1>15, <1>16

SameInUse(m, g, f, rsv, n, struct, size, strs, sizestrs) ==
    \A i \in 0..(MemSize - 1) :
       InUse(i, f, rsv, n, struct, size, strs, sizestrs) => g[i] = m[i]

(* What is kept of two memories with the same blob is the same. *)
LEMMA SameIsKept ==
    ASSUME NEW m, NEW g, NEW f, NEW total, NEW rsv, NEW n, NEW struct, NEW size, NEW strs,
           NEW sizestrs, Blob(m, f, total, rsv, n, struct, size, strs, sizestrs),
           Blob(g, f, total, rsv, n, struct, size, strs, sizestrs),
           SameInUse(m, g, f, rsv, n, struct, size, strs, sizestrs)
    PROVE  Kept(g, f) = Kept(m, f)
<1> DEFINE Used(i) == InUse(i, f, rsv, n, struct, size, strs, sizestrs)
<1>1. Kept(m, f) = [i \in 0..(MemSize - 1) |-> IF Used(i) THEN m[i] ELSE LEFTOVER]
  BY KeptCells DEF Blob
<1>2. Kept(g, f) = [i \in 0..(MemSize - 1) |-> IF Used(i) THEN g[i] ELSE LEFTOVER]
  BY KeptCells DEF Blob
<1>3. \A i \in 0..(MemSize - 1) : Used(i) => g[i] = m[i]
  BY DEF SameInUse
<1> HIDE DEF Used
<1>4. \A i \in 0..(MemSize - 1) :
          (IF Used(i) THEN g[i] ELSE LEFTOVER) = IF Used(i) THEN m[i] ELSE LEFTOVER
  BY <1>3
<1> QED
  BY <1>1, <1>2, <1>4

(* The fields of the header, as the code reads them *)
LEMMA BlobFields ==
    ASSUME NEW m, NEW total, NEW rsv, NEW n, NEW struct, NEW size, NEW strs, NEW sizestrs,
           Blob(m, fdt, total, rsv, n, struct, size, strs, sizestrs)
    PROVE  /\ totalsize(m) = total /\ off_mem_rsvmap(m) = rsv /\ off_dt_struct(m) = struct
           /\ off_dt_strings(m) = strs /\ size_dt_strings(m) = sizestrs
           /\ size_dt_struct(m) = size + FDT_TAGSIZE /\ fdt_data_size_(m) = strs + sizestrs
           /\ num_mem_rsv(m) = n /\ SizeMemRsv(m) = 2 * n + 2
<1>1. /\ InHeader(m, fdt, total, rsv, struct, size, strs, sizestrs) /\ fdt \in Nat
      /\ IsReserved(m, fdt + rsv, n) /\ fdt + total <= MemSize
      /\ Fit(total, rsv, n, struct, size, strs, sizestrs)
  BY DEF Blob, Shape, Holds
<1>2. /\ totalsize(m) = total /\ off_mem_rsvmap(m) = rsv /\ off_dt_struct(m) = struct
      /\ off_dt_strings(m) = strs /\ size_dt_strings(m) = sizestrs
      /\ size_dt_struct(m) = size + FDT_TAGSIZE
  BY <1>1, FieldNumbers, Zenon
     DEF InHeader, Field, totalsize, off_mem_rsvmap, off_dt_struct, off_dt_strings,
         size_dt_strings, size_dt_struct
<1>3. fdt + rsv \in Int /\ n \in 0..MemSize /\ n \in Nat
  BY <1>1, TagSize DEF Fit
<1>4. num_mem_rsv(m) = n
  <2>1. Reserved(m, fdt + rsv) = n
    BY <1>1, <1>3, ReservedIs
  <2> QED
    BY <1>2, <2>1, Zenon DEF num_mem_rsv
<1>5. SizeMemRsv(m) = 2 * n + 2
  BY <1>3, <1>4 DEF SizeMemRsv, ReserveSize
<1>6. fdt_data_size_(m) = strs + sizestrs
  BY <1>2, Zenon DEF fdt_data_size_
<1> QED
  BY <1>2, <1>4, <1>5, <1>6

----------------------------------------------------------------------------
(* Cells that calls write *)

(* Outside of the cells from lo on, n in number, both memories agree. *)
SameOutside(m, g, lo, n) ==
    \A i \in 0..(MemSize - 1) : i < lo \/ lo + n <= i => g[i] = m[i]

LEMMA MemmoveCells ==
    ASSUME NEW m, IsMemory(m), NEW to \in Nat, NEW from \in Nat, NEW n \in Int,
           to + n <= MemSize
    PROVE  /\ IsMemory(memmove(m, to, from, n))
           /\ SameOutside(m, memmove(m, to, from, n), to, n)
           /\ Moved(m, from, memmove(m, to, from, n), to, n)
<1> PICK g : g = memmove(m, to, from, n)
  OBVIOUS
<1>0. MemSize \in Nat
  BY TagSize
<1>1. DOMAIN m = 0..(MemSize - 1)
  BY DEF IsMemory
<1>2. g = [i \in 0..(MemSize - 1) |-> IF i \in to..(to + n - 1) THEN m[from + i - to] ELSE m[i]]
  BY <1>1, Zenon DEF memmove
<1>3. IsMemory(g)
  BY <1>2 DEF IsMemory
<1>4. SameOutside(m, g, to, n)
  <2>1. \A i \in 0..(MemSize - 1) : i < to \/ to + n <= i => i \notin to..(to + n - 1)
    BY <1>0
  <2> QED
    BY <1>2, <2>1 DEF SameOutside
<1>5. Moved(m, from, g, to, n)
  <2>1. \A x \in 0..(n - 1) : /\ to + x \in 0..(MemSize - 1) /\ to + x \in to..(to + n - 1)
                              /\ from + (to + x) - to = from + x
    BY <1>0
  <2>2. ASSUME NEW x \in 0..(n - 1) PROVE g[to + x] = m[from + x]
    <3>1. PICK i : i = to + x
      OBVIOUS
    <3>2. i \in 0..(MemSize - 1) /\ i \in to..(to + n - 1) /\ from + i - to = from + x
      BY <2>1, <3>1
    <3>3. g[i] = m[from + i - to]
      BY <1>2, <3>2
    <3> QED
      BY <3>1, <3>2, <3>3
  <2> QED
    BY <2>2 DEF Moved
<1> QED
  BY <1>3, <1>4, <1>5

(* The cells from address a on are the sequence s. *)
Written(g, a, s) == \A k \in 1..Len(s) : g[a + (k - 1)] = s[k]

LEMMA PutCells ==
    ASSUME NEW m, IsMemory(m), NEW a \in Nat, NEW s, Len(s) \in Nat, a + Len(s) <= MemSize
    PROVE  /\ IsMemory(Put(m, a, s)) /\ SameOutside(m, Put(m, a, s), a, Len(s))
           /\ Written(Put(m, a, s), a, s)
<1> PICK g, n : g = Put(m, a, s) /\ n = Len(s)
  OBVIOUS
<1>0. MemSize \in Nat /\ n \in Nat /\ a + n <= MemSize
  BY TagSize
<1>1. DOMAIN m = 0..(MemSize - 1)
  BY DEF IsMemory
<1>2. g = [i \in 0..(MemSize - 1) |-> IF i \in a..(a + n - 1) THEN s[i - a + 1] ELSE m[i]]
  BY <1>1, Zenon DEF Put
<1>3. IsMemory(g)
  BY <1>2 DEF IsMemory
<1>4. SameOutside(m, g, a, n)
  <2>1. \A i \in 0..(MemSize - 1) : i < a \/ a + n <= i => i \notin a..(a + n - 1)
    BY <1>0
  <2> QED
    BY <1>2, <2>1 DEF SameOutside
<1>5. ASSUME NEW k \in 1..n PROVE g[a + (k - 1)] = s[k]
  <2>1. PICK i : i = a + (k - 1)
    OBVIOUS
  <2>2. i \in 0..(MemSize - 1) /\ i \in a..(a + n - 1) /\ i - a + 1 = k
    BY <1>0, <2>1
  <2>3. g[i] = s[i - a + 1]
    BY <1>2, <2>2
  <2> QED
    BY <2>1, <2>2, <2>3
<1> QED
  BY <1>3, <1>4, <1>5 DEF Written

IsCellSet(m, g, a, v) ==
    IsMemory(g) /\ g[a] = v /\ \A i \in 0..(MemSize - 1) : i # a => g[i] = m[i]

LEMMA CellSet ==
    ASSUME NEW m, IsMemory(m), NEW a, a \in 0..(MemSize - 1), NEW v,
           NEW g, g = [m EXCEPT ![a] = v]
    PROVE  IsCellSet(m, g, a, v)
<1>1. DOMAIN m = 0..(MemSize - 1)
  BY DEF IsMemory
<1>2. g = [i \in 0..(MemSize - 1) |-> IF i = a THEN v ELSE m[i]]
  BY <1>1
<1> QED
  BY <1>2 DEF IsMemory, IsCellSet

(* One field of the header set *)
LEMMA FieldSet ==
    ASSUME NEW m, IsMemory(m), fdt \in Nat, fdt + 8 <= MemSize, NEW name, NEW k \in 0..7,
           Fields[name] = k, NEW v
    PROVE  IsCellSet(m, With(m, name, v), fdt + k, v)
<1> PICK a, g : a = fdt + k /\ g = With(m, name, v)
  OBVIOUS
<1>1. g = [m EXCEPT ![a] = v] /\ a \in 0..(MemSize - 1)
  BY TagSize DEF With
<1>2. IsCellSet(m, g, a, v)
  BY <1>1, CellSet
<1> QED
  BY <1>2

(* The blocks are where code that edits expects them. *)
Ordered(rsv, n, struct, size, strs) ==
    rsv + 2 * n + 2 <= struct /\ struct + size + FDT_TAGSIZE <= strs

LEMMA EditableIsOrdered ==
    ASSUME NEW m, NEW total, NEW rsv, NEW n, NEW struct, NEW size, NEW strs, NEW sizestrs,
           Blob(m, fdt, total, rsv, n, struct, size, strs, sizestrs), Editable(m)
    PROVE  Ordered(rsv, n, struct, size, strs)
<1>1. /\ off_mem_rsvmap(m) = rsv /\ off_dt_struct(m) = struct
      /\ off_dt_strings(m) = strs /\ size_dt_struct(m) = size + FDT_TAGSIZE
  BY BlobFields
<1>2. Fit(total, rsv, n, struct, size, strs, sizestrs)
  BY DEF Blob, Shape
<1>3. struct >= rsv + 2 /\ strs >= struct + (size + FDT_TAGSIZE)
  <2>1. ~(struct < rsv + ReserveSize) /\ ~(strs < struct + (size + FDT_TAGSIZE))
    BY <1>1, Zenon DEF Editable, fdt_blocks_misordered_
  <2> QED
    BY <1>2, <2>1, TagSize DEF Fit, ReserveSize
<1> QED
  BY <1>2, <1>3, TagSize DEF Fit, Ordered

(* Memory in which from address p on newlen cells are instead of oldlen,   *)
(* up to address end, where a field of the header may have changed         *)
IsSpliced(m, g, p, oldlen, newlen, end) ==
    /\ IsMemory(g)
    /\ \A i \in 0..(MemSize - 1) : fdt + 8 <= i /\ i < p => g[i] = m[i]
    /\ Moved(m, p + oldlen, g, p + newlen, end - (p + oldlen))

LEMMA SplicedCells ==
    ASSUME NEW m, NEW total, NEW rsv, NEW n, NEW struct, NEW size, NEW strs, NEW sizestrs,
           Blob(m, fdt, total, rsv, n, struct, size, strs, sizestrs),
           NEW p \in Nat, NEW oldlen \in Nat, NEW newlen \in Nat, NEW end,
           end = fdt + strs + sizestrs, fdt + 8 <= p, p + oldlen <= end,
           strs + sizestrs - oldlen + newlen <= total
    PROVE  /\ IsSpliced(m, Spliced(m, p, oldlen, newlen), p, oldlen, newlen, end)
           /\ \A i \in 0..(MemSize - 1) :
                 i < p => Spliced(m, p, oldlen, newlen)[i] = m[i]
<1> PICK g, to, from, cells : /\ g = Spliced(m, p, oldlen, newlen) /\ to = p + newlen
                              /\ from = p + oldlen /\ cells = end - from
  OBVIOUS
<1>1. /\ fdt \in Nat /\ fdt + total <= MemSize /\ IsMemory(m) /\ total \in Nat
      /\ strs \in Nat /\ sizestrs \in Nat /\ MemSize \in Nat
  BY TagSize DEF Blob, Shape, Fit
<1>2. fdt_data_size_(m) = strs + sizestrs
  BY BlobFields
<1>3. end = fdt + (strs + sizestrs) /\ end \in Nat
  BY <1>1
<1>4. g = memmove(m, to, from, cells)
  <2>1. g = memmove(m, p + newlen, p + oldlen, fdt + fdt_data_size_(m) - (p + oldlen))
    BY Zenon DEF Spliced
  <2>2. fdt + fdt_data_size_(m) - (p + oldlen) = cells
    BY <1>1, <1>2
  <2> QED
    BY <2>1, <2>2
<1>5. to \in Nat /\ from \in Nat /\ cells \in Int /\ to + cells <= MemSize
  BY <1>1, <1>3
<1>6. IsMemory(g) /\ SameOutside(m, g, to, cells) /\ Moved(m, from, g, to, cells)
  BY <1>1, <1>4, <1>5, MemmoveCells
<1>7. \A i \in 0..(MemSize - 1) : i < p => g[i] = m[i]
  <2>1. \A i \in 0..(MemSize - 1) : i < p => i < to
    BY <1>5
  <2> QED
    BY <1>6, <2>1 DEF SameOutside
<1> QED
  BY <1>6, <1>7 DEF IsSpliced

LEMMA StructSplicedCells ==
    ASSUME NEW m, NEW total, NEW rsv, NEW n, NEW struct, NEW size, NEW strs, NEW sizestrs,
           Blob(m, fdt, total, rsv, n, struct, size, strs, sizestrs),
           Ordered(rsv, n, struct, size, strs),
           NEW p \in Nat, NEW oldlen \in Nat, NEW newlen \in Nat, NEW end,
           end = fdt + strs + sizestrs, fdt + struct <= p, p + oldlen <= fdt + strs,
           HasRoom(m, oldlen, newlen),
           NEW size2, size2 = size - oldlen + newlen, NEW strs2, strs2 = strs - oldlen + newlen
    PROVE  /\ strs2 + sizestrs <= total
           /\ IsSpliced(m, fdt_splice_struct_(m, p, oldlen, newlen), p, oldlen, newlen, end)
           /\ InHeader(fdt_splice_struct_(m, p, oldlen, newlen), fdt, total, rsv, struct,
                       size2, strs2, sizestrs)
<1> PICK g, f : g = fdt_splice_struct_(m, p, oldlen, newlen) /\ f = fdt
  OBVIOUS
<1>1. /\ f \in Nat /\ f + total <= MemSize /\ IsMemory(m) /\ total \in Nat
      /\ strs \in Nat /\ sizestrs \in Nat /\ struct \in Nat /\ size \in Nat
      /\ MemSize \in Nat /\ FDT_TAGSIZE \in Nat /\ 8 <= struct /\ strs + sizestrs <= total
      /\ InHeader(m, f, total, rsv, struct, size, strs, sizestrs)
  BY TagSize DEF Blob, Shape, Fit
<1>2. /\ fdt_data_size_(m) = strs + sizestrs /\ totalsize(m) = total
      /\ size_dt_struct(m) = size + FDT_TAGSIZE /\ off_dt_strings(m) = strs
  BY BlobFields
<1>3. strs + sizestrs - oldlen + newlen <= total
  BY <1>1, <1>2 DEF HasRoom
<1>4. strs2 + sizestrs <= total
  BY <1>1, <1>3
<1> PICK s : s = Spliced(m, p, oldlen, newlen)
  OBVIOUS
<1>5. f + 8 <= p /\ p + oldlen <= end
  BY <1>1
<1>6. IsSpliced(m, s, p, oldlen, newlen, end) /\ \A i \in 0..(MemSize - 1) : i < p => s[i] = m[i]
  BY <1>3, <1>5, SplicedCells
<1> PICK v, w : v = size2 + FDT_TAGSIZE /\ w = strs2
  OBVIOUS
<1>7. size_dt_struct(m) + newlen - oldlen = v /\ off_dt_strings(m) + newlen - oldlen = w
  BY <1>1, <1>2
<1> PICK h : h = With(s, "size_dt_struct", v)
  OBVIOUS
<1>8. g = With(h, "off_dt_strings", w)
  BY <1>7, Zenon DEF fdt_splice_struct_
<1>9. f + 8 <= MemSize /\ IsMemory(s)
  BY <1>1, <1>6 DEF IsSpliced
<1>10. /\ IsMemory(h) /\ h[f + 7] = v
       /\ \A i \in 0..(MemSize - 1) : i # f + 7 => h[i] = s[i]
  <2>1. 7 \in 0..7 /\ Fields["size_dt_struct"] = 7
    BY FieldNumbers
  <2> QED
    BY <1>1, <1>9, <2>1, FieldSet DEF IsCellSet
<1>11. /\ IsMemory(g) /\ g[f + 3] = w
       /\ \A i \in 0..(MemSize - 1) : i # f + 3 => g[i] = h[i]
  <2>1. 3 \in 0..7 /\ Fields["off_dt_strings"] = 3
    BY FieldNumbers
  <2> QED
    BY <1>1, <1>8, <1>9, <1>10, <2>1, FieldSet DEF IsCellSet
<1>12. \A i \in 0..(MemSize - 1) : f + 8 <= i => g[i] = s[i]
  BY <1>1, <1>10, <1>11
<1>13. IsSpliced(m, g, p, oldlen, newlen, end)
  <2> PICK to, from, cells : /\ to = p + newlen /\ from = p + oldlen
                             /\ cells = end - (p + oldlen)
    OBVIOUS
  <2>1. Moved(m, from, s, to, cells)
    BY <1>6 DEF IsSpliced
  <2>2. \A x \in 0..(cells - 1) : to + x \in 0..(MemSize - 1) /\ f + 8 <= to + x
    BY <1>1, <1>3, <1>5
  <2>3. Moved(m, from, g, to, cells)
    BY <1>12, <2>1, <2>2 DEF Moved
  <2>4. \A i \in 0..(MemSize - 1) : f + 8 <= i /\ i < p => g[i] = m[i]
    BY <1>6, <1>12
  <2> QED
    BY <1>11, <2>3, <2>4 DEF IsSpliced
<1>14. InHeader(g, f, total, rsv, struct, size2, strs2, sizestrs)
  <2>1. /\ m[f + 1] = total /\ m[f + 2] = struct /\ m[f + 4] = rsv /\ m[f + 6] = sizestrs
    BY <1>1 DEF InHeader
  <2>2. \A k \in 0..7 : f + k \in 0..(MemSize - 1) /\ f + k < p
    BY <1>1, <1>5
  <2>3. \A k \in {1, 2, 4, 6} : g[f + k] = m[f + k]
    <3>1. TAKE k \in {1, 2, 4, 6}
    <3>2. k \in 0..7 /\ f + k # f + 3 /\ f + k # f + 7
      BY <1>1
    <3>3. g[f + k] = h[f + k] /\ h[f + k] = s[f + k] /\ s[f + k] = m[f + k]
      BY <1>6, <1>10, <1>11, <2>2, <3>2
    <3> QED
      BY <3>3
  <2>4. g[f + 7] = v
    <3>1. f + 7 \in 0..(MemSize - 1) /\ f + 7 # f + 3
      BY <1>1, <2>2
    <3> QED
      BY <1>10, <1>11, <3>1
  <2> QED
    BY <1>11, <2>1, <2>3, <2>4 DEF InHeader
<1> QED
  BY <1>4, <1>13, <1>14

(* What is written behind the header and before the cells that moved       *)
Between(lo, len, to, cells) ==
    /\ lo \in Nat /\ len \in Nat /\ to \in Nat /\ cells \in Int /\ to + cells <= MemSize
    /\ fdt \in Nat /\ fdt + 8 <= lo /\ lo + len <= to /\ lo + len <= MemSize

LEMMA WrittenBetween ==
    ASSUME NEW m, NEW g, NEW h, NEW lo, NEW len, SameOutside(g, h, lo, len), NEW from,
           NEW to, NEW cells, Moved(m, from, g, to, cells),
           Between(lo, len, to, cells),
           NEW total, NEW rsv, NEW struct, NEW size, NEW strs, NEW sizestrs,
           InHeader(g, fdt, total, rsv, struct, size, strs, sizestrs)
    PROVE  /\ Moved(m, from, h, to, cells)
           /\ InHeader(h, fdt, total, rsv, struct, size, strs, sizestrs)
<1>0. /\ MemSize \in Nat
      /\ lo \in Nat /\ len \in Nat /\ to \in Nat /\ cells \in Int /\ to + cells <= MemSize
      /\ fdt \in Nat /\ fdt + 8 <= lo /\ lo + len <= to /\ lo + len <= MemSize
  BY TagSize DEF Between
<1>1. Moved(m, from, h, to, cells)
  <2>1. \A x \in 0..(cells - 1) : to + x \in 0..(MemSize - 1) /\ lo + len <= to + x
    BY <1>0
  <2>2. \A x \in 0..(cells - 1) : h[to + x] = g[to + x]
    BY <2>1 DEF SameOutside
  <2> QED
    BY <2>2 DEF Moved
<1>2. \A k \in 1..7 : h[fdt + k] = g[fdt + k]
  <2>1. \A k \in 1..7 : fdt + k \in 0..(MemSize - 1) /\ fdt + k < lo
    BY <1>0
  <2> QED
    BY <2>1 DEF SameOutside
<1> QED
  BY <1>1, <1>2 DEF InHeader

----------------------------------------------------------------------------
(* The structure block edited *)

LEMMA MovedPart ==
    ASSUME NEW m, NEW p \in Int, NEW g, NEW to \in Int, NEW size \in Int,
           Moved(m, p, g, to, size), NEW k \in Nat, NEW less \in Int, k + less <= size,
           NEW a, a = p + k, NEW b, b = to + k
    PROVE  Moved(m, a, g, b, less)
<1>1. ASSUME NEW x \in 0..(less - 1) PROVE g[b + x] = m[a + x]
  <2>1. k + x \in 0..(size - 1) /\ b + x = to + (k + x) /\ a + x = p + (k + x)
    OBVIOUS
  <2>2. g[to + (k + x)] = m[p + (k + x)]
    BY <2>1 DEF Moved
  <2> QED
    BY <2>1, <2>2
<1> QED
  BY <1>1 DEF Moved

(* Tags p to q of the tree that is in the block *)
IsRange(m, at, size, D, N, p, q) ==
    /\ IsStruct(m, at, size, D, N) /\ D[0] = 0 /\ D[size] = 0
    /\ p \in DOMAIN D /\ q \in DOMAIN D /\ p <= q

LEMMA RangeIs ==
    ASSUME NEW m, NEW at, NEW size, NEW D, NEW N, NEW p, NEW q,
           IsRange(m, at, size, D, N, p, q)
    PROVE  /\ size \in Nat /\ p \in Nat /\ q \in Nat /\ p <= q /\ q <= size
           /\ D[p] \in Nat /\ D[q] \in Nat /\ Aligned(p) /\ Aligned(q)
  BY StructIs DEF IsRange

LEMMA TreeEdited ==
    ASSUME NEW m, NEW at \in Int, NEW size, NEW D, NEW N, NEW p, NEW q,
           IsRange(m, at, size, D, N, p, q), NEW g, NEW M, NEW n, N \subseteq M,
           Leads(g, at + p, n, M, D[p], D[q]), Moved(m, at, g, at, p),
           Moved(m, at + q, g, at + p + n, size - q)
    PROVE  IsTree(g, at, p + n + (size - q), M)
<1>1. IsStruct(m, at, size, D, N) /\ D[0] = 0 /\ D[size] = 0
      /\ p \in DOMAIN D /\ q \in DOMAIN D /\ p <= q
  BY DEF IsRange
<1>2. PICK E : IsStruct(g, at + p, n, E, M) /\ E[0] = D[p] /\ E[n] = D[q]
  BY DEF Leads
<1>3. /\ \A x \in 0..(p - 1) : g[at + x] = m[at + x]
      /\ \A x \in 0..(size - q - 1) : g[at + p + n + x] = m[at + q + x]
  BY DEF Moved
<1>4. \E F : /\ IsStruct(g, at, p + n + (size - q), F, M)
             /\ F[0] = D[0] /\ F[p + n + (size - q)] = D[size]
  BY <1>1, <1>2, <1>3, StructSpliced
<1> QED
  BY <1>1, <1>4 DEF IsTree

(* The tags from p to q are replaced by n cells, all behind them moves. *)
LEMMA StructEdited ==
    ASSUME NEW m, NEW total, NEW rsv, NEW n, NEW struct, NEW size, NEW strs, NEW sizestrs,
           Blob(m, fdt, total, rsv, n, struct, size, strs, sizestrs),
           Ordered(rsv, n, struct, size, strs),
           NEW D, NEW N, N = StringsIn(m, fdt + strs, sizestrs), NEW p, NEW q,
           IsRange(m, fdt + struct, size, D, N, p, q),
           NEW g, IsMemory(g), NEW k \in Nat, NEW size2, size2 = size - (q - p) + k,
           NEW strs2, strs2 = strs - (q - p) + k, strs2 + sizestrs <= total,
           InHeader(g, fdt, total, rsv, struct, size2, strs2, sizestrs),
           \A i \in 0..(MemSize - 1) : fdt + 8 <= i /\ i < fdt + struct + p => g[i] = m[i],
           Moved(m, fdt + struct + q, g, fdt + struct + p + k, strs + sizestrs - (struct + q)),
           Leads(g, fdt + struct + p, k, N, D[p], D[q])
    PROVE  Blob(g, fdt, total, rsv, n, struct, size2, strs2, sizestrs)
<1> PICK f, at, old : f = fdt /\ at = fdt + struct /\ old = fdt + strs
  OBVIOUS
<1>1. /\ f \in Nat /\ f + total <= MemSize /\ InBuffer(f, total) /\ total \in Nat
      /\ strs \in Nat /\ sizestrs \in Nat /\ struct \in Nat /\ size \in Nat
      /\ rsv \in Nat /\ n \in Nat /\ 8 <= rsv
      /\ MemSize \in Nat /\ FDT_TAGSIZE \in Nat \ {0} /\ 8 <= struct /\ strs + sizestrs <= total
      /\ Holds(m, f, rsv, n, struct, size, strs, sizestrs)
      /\ rsv + 2 * n + 2 <= struct /\ struct + size + FDT_TAGSIZE <= strs
  BY TagSize DEF Blob, Shape, Fit, Ordered
<1>2. /\ p \in Nat /\ q \in Nat /\ p <= q /\ q <= size
  BY RangeIs
<1>3. at \in Nat /\ old \in Nat /\ size2 \in Nat /\ strs2 \in Nat
      /\ struct + size2 + FDT_TAGSIZE <= strs2
  BY <1>1, <1>2
<1>4. Fit(total, rsv, n, struct, size2, strs2, sizestrs)
  BY <1>1, <1>3 DEF Fit
<1> PICK a, b, tail : a = at + q /\ b = at + p + k /\ tail = strs + sizestrs - (struct + q)
  OBVIOUS
<1>5. a \in Int /\ b \in Int /\ tail \in Int /\ Moved(m, a, g, b, tail)
  BY <1>1, <1>2, <1>3
<1>6. IsReserved(g, f + rsv, n)
  <2> PICK r : r = f + rsv
    OBVIOUS
  <2>1. \A x \in 0..((2 * n + 2) - 1) :
           r + x \in 0..(MemSize - 1) /\ f + 8 <= r + x /\ r + x < f + struct + p
    BY <1>1, <1>2
  <2>2. Moved(m, r, g, r, 2 * n + 2)
    BY <2>1 DEF Moved
  <2>3. IsReserved(m, r, n) /\ r \in Int
    BY <1>1 DEF Holds
  <2>4. IsReserved(g, r, n)
    BY <1>1, <2>2, <2>3, ReservedMoves
  <2> QED
    BY <2>4
<1> PICK new, M : new = f + strs2 /\ M = StringsIn(g, new, sizestrs)
  OBVIOUS
<1>7. N \subseteq M
  <2> PICK j : j = strs - (struct + q)
    OBVIOUS
  <2>1. j \in Nat /\ j + sizestrs <= tail /\ old = a + j /\ new = b + j
    BY <1>1, <1>2, <1>3
  <2>2. Moved(m, old, g, new, sizestrs)
    BY <1>1, <1>5, <2>1, MovedPart
  <2>3. StringsIn(m, old, sizestrs) \subseteq StringsIn(g, new, sizestrs)
    BY <1>1, <1>3, <2>2, StringsMove
  <2> QED
    BY <2>3
<1>8. Leads(g, at + p, k, M, D[p], D[q])
  <2>1. PICK E : IsStruct(g, at + p, k, E, N) /\ E[0] = D[p] /\ E[k] = D[q]
    BY Zenon DEF Leads
  <2>2. at + p \in Int /\ \A x \in 0..(k - 1) : g[at + p + x] = g[at + p + x]
    BY <1>2, <1>3
  <2>3. IsStruct(g, at + p, k, E, M)
    BY <1>7, <2>1, <2>2, StructMoves
  <2> QED
    BY <2>1, <2>3 DEF Leads
<1>9. IsTree(g, at, p + k + (size - q), M)
  <2>1. Moved(m, at, g, at, p)
    <3>1. \A x \in 0..(p - 1) :
             at + x \in 0..(MemSize - 1) /\ f + 8 <= at + x /\ at + x < f + struct + p
      BY <1>1, <1>2, <1>3
    <3> QED
      BY <3>1 DEF Moved
  <2>2. Moved(m, at + q, g, at + p + k, size - q)
    <3>1. size - q \in Int /\ size - q <= tail
      BY <1>1, <1>2
    <3>2. Moved(m, a, g, b, size - q)
      BY <1>5, <3>1, MovedLess
    <3> QED
      BY <3>2
  <2>3. IsRange(m, at, size, D, N, p, q)
    OBVIOUS
  <2>4. at \in Int
    BY <1>3
  <2> QED
    BY <1>7, <1>8, <2>1, <2>2, <2>3, <2>4, TreeEdited
<1>10. g[at + size2] = FDT_END
  <2>1. size - q \in 0..(tail - 1) /\ b + (size - q) = at + size2 /\ a + (size - q) = at + size
    BY <1>1, <1>2, <1>3
  <2>2. g[b + (size - q)] = m[a + (size - q)]
    BY <1>5, <2>1 DEF Moved
  <2>3. m[at + size] = FDT_END
    BY <1>1 DEF Holds
  <2> QED
    BY <2>1, <2>2, <2>3
<1>11. p + k + (size - q) = size2
  BY <1>1, <1>2
<1>12. IsTree(g, at, size2, M)
  BY <1>9, <1>11
<1>13. Holds(g, f, rsv, n, struct, size2, strs2, sizestrs)
  BY <1>6, <1>10, <1>12 DEF Holds
<1>14. Shape(g, f, total, rsv, n, struct, size2, strs2, sizestrs)
  BY <1>1, <1>4, <1>13 DEF Shape
<1> QED
  BY <1>1, <1>14 DEF Blob

(* The tags from p to q are overwritten. *)
LEMMA StructOverwritten ==
    ASSUME NEW m, NEW total, NEW rsv, NEW n, NEW struct, NEW size, NEW strs, NEW sizestrs,
           Blob(m, fdt, total, rsv, n, struct, size, strs, sizestrs),
           NEW D, NEW N, N = StringsIn(m, fdt + strs, sizestrs), NEW p, NEW q,
           IsRange(m, fdt + struct, size, D, N, p, q),
           NEW g, IsMemory(g), SameOutside(m, g, fdt + struct + p, q - p),
           Leads(g, fdt + struct + p, q - p, N, D[p], D[q])
    PROVE  Blob(g, fdt, total, rsv, n, struct, size, strs, sizestrs)
<1> PICK f, at, str : f = fdt /\ at = fdt + struct /\ str = fdt + strs
  OBVIOUS
<1>1. /\ f \in Nat /\ f + total <= MemSize /\ InBuffer(f, total) /\ total \in Nat
      /\ strs \in Nat /\ sizestrs \in Nat /\ struct \in Nat /\ size \in Nat
      /\ rsv \in Nat /\ n \in Nat /\ 8 <= rsv /\ 8 <= strs
      /\ MemSize \in Nat /\ FDT_TAGSIZE \in Nat \ {0} /\ 8 <= struct
      /\ rsv + 2 * n + 2 <= total /\ struct + size + FDT_TAGSIZE <= total
      /\ strs + sizestrs <= total
      /\ rsv + 2 * n + 2 <= struct \/ struct + size + FDT_TAGSIZE <= rsv
      /\ struct + size + FDT_TAGSIZE <= strs \/ strs + sizestrs <= struct
      /\ Holds(m, f, rsv, n, struct, size, strs, sizestrs)
      /\ Fit(total, rsv, n, struct, size, strs, sizestrs)
      /\ InHeader(m, f, total, rsv, struct, size, strs, sizestrs)
  BY TagSize DEF Blob, Shape, Fit
<1>2. /\ p \in Nat /\ q \in Nat /\ p <= q /\ q <= size
  BY RangeIs
<1>3. at \in Nat /\ str \in Nat
  BY <1>1
<1>4. \A i \in 0..(MemSize - 1) : i < at + p \/ at + q <= i => g[i] = m[i]
  <2>1. at + p + (q - p) = at + q
    BY <1>2, <1>3
  <2> QED
    BY <2>1 DEF SameOutside
<1>5. InHeader(g, f, total, rsv, struct, size, strs, sizestrs)
  <2>1. \A i \in 1..7 : f + i \in 0..(MemSize - 1) /\ f + i < at + p
    BY <1>1, <1>2
  <2>2. \A i \in 1..7 : g[f + i] = m[f + i]
    BY <1>4, <2>1
  <2> QED
    BY <1>1, <2>2 DEF InHeader
<1>6. IsReserved(g, f + rsv, n)
  <2> PICK r : r = f + rsv
    OBVIOUS
  <2>1. \A x \in 0..((2 * n + 2) - 1) :
           r + x \in 0..(MemSize - 1) /\ (r + x < at + p \/ at + q <= r + x)
    BY <1>1, <1>2
  <2>2. Moved(m, r, g, r, 2 * n + 2)
    BY <1>4, <2>1 DEF Moved
  <2>3. IsReserved(m, r, n) /\ r \in Int
    BY <1>1 DEF Holds
  <2>4. IsReserved(g, r, n)
    BY <1>1, <2>2, <2>3, ReservedMoves
  <2> QED
    BY <2>4
<1> PICK M : M = StringsIn(g, str, sizestrs)
  OBVIOUS
<1>7. N \subseteq M
  <2>1. \A x \in 0..(sizestrs - 1) :
           str + x \in 0..(MemSize - 1) /\ (str + x < at + p \/ at + q <= str + x)
    BY <1>1, <1>2
  <2>2. Moved(m, str, g, str, sizestrs)
    BY <1>4, <2>1 DEF Moved
  <2>3. StringsIn(m, str, sizestrs) \subseteq StringsIn(g, str, sizestrs)
    BY <1>1, <1>3, <2>2, StringsMove
  <2> QED
    BY <2>3
<1> PICK k : k = q - p
  OBVIOUS
<1>8. Leads(g, at + p, k, M, D[p], D[q])
  <2>1. PICK E : IsStruct(g, at + p, k, E, N) /\ E[0] = D[p] /\ E[k] = D[q]
    BY Zenon DEF Leads
  <2>2. at + p \in Int /\ \A x \in 0..(k - 1) : g[at + p + x] = g[at + p + x]
    BY <1>2, <1>3
  <2>3. IsStruct(g, at + p, k, E, M)
    BY <1>7, <2>1, <2>2, StructMoves
  <2> QED
    BY <2>1, <2>3 DEF Leads
<1>9. IsTree(g, at, p + k + (size - q), M)
  <2>1. Moved(m, at, g, at, p)
    <3>1. \A x \in 0..(p - 1) : at + x \in 0..(MemSize - 1) /\ at + x < at + p
      BY <1>1, <1>2, <1>3
    <3> QED
      BY <1>4, <3>1 DEF Moved
  <2>2. Moved(m, at + q, g, at + p + k, size - q)
    <3>1. at + p + k = at + q
      BY <1>2, <1>3
    <3>2. \A x \in 0..(size - q - 1) : at + q + x \in 0..(MemSize - 1) /\ at + q <= at + q + x
      BY <1>1, <1>2, <1>3
    <3> QED
      BY <1>4, <3>1, <3>2 DEF Moved
  <2>3. IsRange(m, at, size, D, N, p, q)
    OBVIOUS
  <2>4. at \in Int
    BY <1>3
  <2> QED
    BY <1>7, <1>8, <2>1, <2>2, <2>3, <2>4, TreeEdited
<1>10. g[at + size] = FDT_END
  <2>1. at + size \in 0..(MemSize - 1) /\ at + q <= at + size
    BY <1>1, <1>2, <1>3
  <2>2. m[at + size] = FDT_END
    BY <1>1 DEF Holds
  <2> QED
    BY <1>4, <2>1, <2>2
<1>11. p + k + (size - q) = size
  BY <1>1, <1>2
<1>12. IsTree(g, at, size, M)
  BY <1>9, <1>11
<1>13. Holds(g, f, rsv, n, struct, size, strs, sizestrs)
  BY <1>6, <1>10, <1>12 DEF Holds
<1>14. Shape(g, f, total, rsv, n, struct, size, strs, sizestrs)
  BY <1>1, <1>5, <1>13 DEF Shape
<1> QED
  BY <1>1, <1>14 DEF Blob

LEMMA WiderOutside ==
    ASSUME NEW m, NEW g, NEW lo \in Int, NEW n \in Int, SameOutside(m, g, lo, n),
           NEW low \in Int, NEW more \in Int, low <= lo, lo + n <= low + more
    PROVE  SameOutside(m, g, low, more)
<1>1. MemSize \in Nat
  BY TagSize
<1> QED
  BY <1>1 DEF SameOutside

LEMMA BothOutside ==
    ASSUME NEW m, NEW g, NEW h, NEW lo, NEW n, SameOutside(m, g, lo, n), SameOutside(g, h, lo, n)
    PROVE  SameOutside(m, h, lo, n)
  BY DEF SameOutside

LEMMA SameIsOutside ==
    ASSUME NEW m, NEW lo, NEW n
    PROVE  SameOutside(m, m, lo, n)
  BY DEF SameOutside

(* From c cells behind p on, up to q, newlen cells take the place of       *)
(* oldlen, and then all from p on up to where they end is written.         *)
IsRespliced(m, h, at, p, q, c, oldlen, newlen) ==
    /\ c \in Nat /\ oldlen \in Nat /\ newlen \in Nat /\ q = p + c + oldlen
    /\ HasRoom(m, oldlen, newlen) /\ IsMemory(h)
    /\ SameOutside(fdt_splice_struct_(m, at + p + c, oldlen, newlen), h, at + p, c + newlen)

(* The blob at fdt has some numbers in its header. *)
IsSomeBlob(m) ==
    \E total, rsv, n, struct, size, strs, sizestrs :
        Blob(m, fdt, total, rsv, n, struct, size, strs, sizestrs)

LEMMA StructRespliced ==
    ASSUME NEW m, NEW total, NEW rsv, NEW n, NEW struct, NEW size, NEW strs, NEW sizestrs,
           Blob(m, fdt, total, rsv, n, struct, size, strs, sizestrs),
           Ordered(rsv, n, struct, size, strs),
           NEW at, at = fdt + struct, NEW D, NEW N, N = StringsIn(m, fdt + strs, sizestrs),
           NEW p, NEW q, IsRange(m, at, size, D, N, p, q),
           NEW h, NEW c, NEW oldlen, NEW newlen,
           IsRespliced(m, h, at, p, q, c, oldlen, newlen),
           Leads(h, at + p, c + newlen, N, D[p], D[q])
    PROVE  IsSomeBlob(h)
<1> PICK addr : addr = at + p + c
  OBVIOUS
<1>a. /\ c \in Nat /\ oldlen \in Nat /\ newlen \in Nat /\ q = p + c + oldlen
      /\ HasRoom(m, oldlen, newlen) /\ IsMemory(h)
      /\ SameOutside(fdt_splice_struct_(m, addr, oldlen, newlen), h, at + p, c + newlen)
  BY DEF IsRespliced
<1> PICK end, size2, strs2, g, k :
        /\ end = fdt + strs + sizestrs
        /\ size2 = size - oldlen + newlen /\ strs2 = strs - oldlen + newlen
        /\ g = fdt_splice_struct_(m, addr, oldlen, newlen) /\ k = c + newlen
  OBVIOUS
<1>1. /\ fdt \in Nat /\ fdt + total <= MemSize /\ total \in Nat
      /\ strs \in Nat /\ sizestrs \in Nat /\ struct \in Nat /\ size \in Nat
      /\ MemSize \in Nat /\ FDT_TAGSIZE \in Nat \ {0} /\ 8 <= struct /\ strs + sizestrs <= total
      /\ struct + size + FDT_TAGSIZE <= strs
  BY TagSize DEF Blob, Shape, Fit, Ordered
<1>2. /\ p \in Nat /\ q \in Nat /\ p <= q /\ q <= size
  BY RangeIs
<1>3. /\ addr \in Nat /\ fdt + struct <= addr /\ addr + oldlen <= fdt + strs
      /\ addr = at + p + c /\ at \in Nat /\ end \in Nat
  BY <1>a, <1>1, <1>2
<1>4. /\ strs2 + sizestrs <= total
      /\ IsSpliced(m, g, addr, oldlen, newlen, end)
      /\ InHeader(g, fdt, total, rsv, struct, size2, strs2, sizestrs)
  BY <1>a, <1>3, StructSplicedCells
<1> PICK from, to, tail : /\ from = at + q /\ to = at + p + k
                          /\ tail = strs + sizestrs - (struct + q)
  OBVIOUS
<1>5. /\ from = addr + oldlen /\ to = addr + newlen /\ tail = end - (addr + oldlen)
      /\ from \in Nat /\ to \in Nat /\ tail \in Int /\ k \in Nat
  BY <1>a, <1>1, <1>2, <1>3
<1>6. Moved(m, from, g, to, tail)
  BY <1>4, <1>5 DEF IsSpliced
<1>7. /\ Moved(m, from, h, to, tail)
      /\ InHeader(h, fdt, total, rsv, struct, size2, strs2, sizestrs)
  <2> PICK lo : lo = at + p
    OBVIOUS
  <2>1. SameOutside(g, h, lo, k)
    BY <1>a
  <2>2. /\ lo \in Nat /\ fdt + 8 <= lo /\ lo + k <= to /\ to + tail <= MemSize
        /\ lo + k <= MemSize
    BY <1>a, <1>1, <1>2, <1>3, <1>4, <1>5
  <2>3. Between(lo, k, to, tail)
    BY <1>1, <1>5, <2>2 DEF Between
  <2>4. InHeader(g, fdt, total, rsv, struct, size2, strs2, sizestrs)
    BY <1>4
  <2> QED
    BY <1>6, <2>1, <2>3, <2>4, WrittenBetween
<1>8. \A i \in 0..(MemSize - 1) : fdt + 8 <= i /\ i < at + p => h[i] = m[i]
  <2>1. \A i \in 0..(MemSize - 1) : i < at + p => i < addr
    BY <1>a, <1>1, <1>2, <1>3
  <2>2. \A i \in 0..(MemSize - 1) : i < at + p => h[i] = g[i]
    BY <1>a DEF SameOutside
  <2> QED
    BY <1>4, <2>1, <2>2 DEF IsSpliced
<1>9. size2 = size - (q - p) + k /\ strs2 = strs - (q - p) + k
  BY <1>a, <1>1, <1>2
<1>10. Leads(h, fdt + struct + p, k, N, D[p], D[q])
  OBVIOUS
<1>11. Moved(m, fdt + struct + q, h, fdt + struct + p + k, strs + sizestrs - (struct + q))
  BY <1>7
<1>12. \A i \in 0..(MemSize - 1) : fdt + 8 <= i /\ i < fdt + struct + p => h[i] = m[i]
  BY <1>8
<1>13. Blob(h, fdt, total, rsv, n, struct, size2, strs2, sizestrs)
  <2>1. IsMemory(h) /\ IsRange(m, fdt + struct, size, D, N, p, q)
    BY <1>a
  <2> QED
    BY <1>4, <1>5, <1>7, <1>9, <1>10, <1>11, <1>12, <2>1, StructEdited
<1> QED
  BY <1>13 DEF IsSomeBlob

(* Before it is written the memory agrees up to where it was spliced. *)
LEMMA SplicedBefore ==
    ASSUME NEW m, NEW total, NEW rsv, NEW n, NEW struct, NEW size, NEW strs, NEW sizestrs,
           Blob(m, fdt, total, rsv, n, struct, size, strs, sizestrs),
           Ordered(rsv, n, struct, size, strs),
           NEW addr \in Nat, NEW oldlen \in Nat, NEW newlen \in Nat,
           fdt + struct <= addr, addr + oldlen <= fdt + strs, HasRoom(m, oldlen, newlen),
           NEW g, g = fdt_splice_struct_(m, addr, oldlen, newlen)
    PROVE  /\ IsMemory(g) /\ addr + newlen <= MemSize
           /\ \A i \in (fdt + struct)..(addr - 1) : g[i] = m[i]
<1> PICK end, size2, strs2 :
        /\ end = fdt + strs + sizestrs
        /\ size2 = size - oldlen + newlen /\ strs2 = strs - oldlen + newlen
  OBVIOUS
<1>1. /\ fdt \in Nat /\ fdt + total <= MemSize /\ total \in Nat
      /\ strs \in Nat /\ sizestrs \in Nat /\ struct \in Nat /\ size \in Nat
      /\ MemSize \in Nat /\ 8 <= struct /\ strs + sizestrs <= total
  BY TagSize DEF Blob, Shape, Fit
<1>2. strs2 + sizestrs <= total /\ IsSpliced(m, g, addr, oldlen, newlen, end)
  BY StructSplicedCells
<1>3. addr + newlen <= MemSize /\ addr - 1 \in 0..(MemSize - 1) \cup {-1}
  BY <1>1, <1>2
<1>4. \A i \in (fdt + struct)..(addr - 1) : i \in 0..(MemSize - 1) /\ fdt + 8 <= i /\ i < addr
  BY <1>1, <1>3
<1> QED
  BY <1>2, <1>3, <1>4 DEF IsSpliced

----------------------------------------------------------------------------
(* What calls find *)

LEMMA BlobTree ==
    ASSUME NEW m, NEW total, NEW rsv, NEW n, NEW struct, NEW size, NEW strs, NEW sizestrs,
           Blob(m, fdt, total, rsv, n, struct, size, strs, sizestrs),
           NEW at, at = fdt + struct, NEW N, N = StringsIn(m, fdt + strs, sizestrs)
    PROVE  \E D : IsStructOf(m, at, size, D, N) /\ D[0] = 0 /\ D[size] = 0
<1>1. /\ fdt \in Nat /\ fdt + total <= MemSize /\ total \in Nat /\ struct \in Nat
      /\ size \in Nat /\ struct + size + FDT_TAGSIZE <= total /\ FDT_TAGSIZE \in Nat
      /\ MemSize \in Nat /\ Holds(m, fdt, rsv, n, struct, size, strs, sizestrs)
  BY TagSize DEF Blob, Shape, Fit
<1>2. off_dt_struct(m) = struct /\ size_dt_struct(m) = size + FDT_TAGSIZE
  BY BlobFields
<1>3. /\ at \in Nat /\ at = fdt + off_dt_struct(m) /\ at + size_dt_struct(m) <= MemSize
  BY <1>1, <1>2
<1>4. IsTree(m, at, size, N) /\ m[at + size] = FDT_END
  BY <1>1 DEF Holds
<1> QED
  BY <1>2, <1>3, <1>4 DEF IsTree, IsStructOf

(* The property tags are found by fdt_get_property. *)
LEMMA FoundIs ==
    ASSUME NEW m, NEW at, NEW size, NEW D, NEW N, IsStructOf(m, at, size, D, N),
           NEW node, NEW name, fdt_get_property(m, node, name) # {}
    PROVE  /\ Min(fdt_get_property(m, node, name)) \in DOMAIN D \ {size}
           /\ m[at + Min(fdt_get_property(m, node, name))] = FDT_PROP
<1> DEFINE named == {o \in ToSet(TagOffsets(m)) :
                       /\ node < o /\ o < PropsEnd(m, node)
                       /\ m[At(m, o)] = FDT_PROP /\ NameOf(m, o) = name}
           found == {o \in named : \A p \in named : o <= p}
<1>1. fdt_get_property(m, node, name) = found
  BY Zenon DEF fdt_get_property
<1>2. \A o \in found : o \in DOMAIN D \ {size} /\ m[at + o] = FDT_PROP
  <2>1. \A o \in named : o \in ToSet(TagOffsets(m)) /\ m[At(m, o)] = FDT_PROP
    OBVIOUS
  <2>2. \A o : At(m, o) = at + o
    BY Zenon DEF At, IsStructOf
  <2> QED
    BY <2>1, <2>2, OffsetsAre
<1>3. \E o \in found : \A p \in found : o <= p
  BY <1>1
<1> HIDE DEF found
<1>4. Min(found) \in found
  BY <1>3, Zenon DEF Min
<1> QED
  BY <1>1, <1>2, <1>4

LEMMA PropIs ==
    ASSUME NEW m, NEW at, NEW size, NEW D, NEW N, IsStructOf(m, at, size, D, N),
           NEW o, o \in DOMAIN D \ {size}, m[at + o] = FDT_PROP
    PROVE  /\ o + 3 * FDT_TAGSIZE + TagAlign(LenOf(m, o)) \in DOMAIN D
           /\ D[o + 3 * FDT_TAGSIZE + TagAlign(LenOf(m, o))] = D[o]
           /\ LenOf(m, o) \in Nat /\ m[at + o + FDT_TAGSIZE] = LenOf(m, o)
           /\ m[at + o + 2 * FDT_TAGSIZE] \in N
<1>1. PICK next \in DOMAIN D : o < next /\ IsTagStep(m, at, D, N, o, next)
  BY StructTags
<1> PICK len : len = m[at + o + FDT_TAGSIZE]
  OBVIOUS
<1>2. /\ len \in Nat /\ Aligned(next) /\ o + 3 * FDT_TAGSIZE + len <= next
      /\ next < o + 3 * FDT_TAGSIZE + len + FDT_TAGSIZE
  <2>1. IsTag(m, at, o, next)
    BY <1>1 DEF IsTagStep
  <2> QED
    BY <2>1 DEF IsTag, FDT_BEGIN_NODE, FDT_END_NODE, FDT_NOP, FDT_PROP
<1>3. LenOf(m, o) = len
  BY Zenon DEF LenOf, At, IsStructOf
<1>4. Aligned(o) /\ o \in Nat /\ next \in Nat
  BY StructIs DEF IsStructOf
<1> PICK t, x, q : /\ t = TagAlign(len) /\ x = o + 3 * FDT_TAGSIZE + len
                   /\ q = o + 3 * FDT_TAGSIZE + t
  OBVIOUS
<1>5. t \in Nat /\ Aligned(t) /\ len <= t /\ t < len + FDT_TAGSIZE
  BY <1>2, TagAlignIs
<1>6. Aligned(q)
  <2>1. Aligned(o + 3 * FDT_TAGSIZE)
    BY <1>4, AlignedSum, AlignedTags
  <2> QED
    BY <1>5, <2>1, AlignedSum
<1>7. FDT_TAGSIZE \in Nat \ {0}
  BY TagSize
<1>8. /\ x \in Int /\ x <= next /\ next < x + FDT_TAGSIZE /\ x <= q /\ q < x + FDT_TAGSIZE
  BY <1>2, <1>4, <1>5, <1>7
<1>9. next = q
  BY <1>2, <1>6, <1>8, AlignedIsUnique
<1>10. D[next] = D[o] /\ m[at + o + 2 * FDT_TAGSIZE] \in N
  BY <1>1 DEF IsTagStep, IsStep
<1> QED
  BY <1>2, <1>3, <1>9, <1>10

LEMMA CellsAre ==
    ASSUME NEW m, NEW a, NEW n \in Nat
    PROVE  Len(Cells(m, a, n)) = n
<1> DEFINE Cell(i) == m[a + i - 1]
<1>1. Cells(m, a, n) = [i \in 1..n |-> Cell(i)]
  BY Zenon DEF Cells
<1> HIDE DEF Cell
<1>2. Len([i \in 1..n |-> Cell(i)]) = n
  OBVIOUS
<1> QED
  BY <1>1, <1>2

LEMMA NodeIs ==
    ASSUME NEW m, NEW at, NEW size, NEW D, NEW N, IsStructOf(m, at, size, D, N),
           NEW o, o \in DOMAIN D \ {size}, m[at + o] = FDT_BEGIN_NODE,
           NEW len, len = Len(StringAt(m, at + o + FDT_TAGSIZE))
    PROVE  /\ o + FDT_TAGSIZE + TagAlign(len + 1) \in DOMAIN D
           /\ D[o + FDT_TAGSIZE + TagAlign(len + 1)] = D[o] + 1 /\ len \in Nat
<1>1. PICK next \in DOMAIN D : o < next /\ IsTagStep(m, at, D, N, o, next)
  BY StructTags
<1>2. /\ Aligned(o) /\ o \in Nat /\ next \in Nat /\ next <= size /\ size \in Nat /\ at \in Nat
      /\ FDT_TAGSIZE \in Nat \ {0} /\ at + size + FDT_TAGSIZE <= MemSize /\ MemSize \in Nat
  <2>1. /\ Aligned(o) /\ o \in Nat /\ next \in Nat /\ next <= size /\ size \in Nat /\ at \in Nat
    BY StructIs DEF IsStructOf
  <2>2. at + (size + FDT_TAGSIZE) <= MemSize
    BY DEF IsStructOf
  <2> QED
    BY <2>1, <2>2, TagSize
<1>3. IsTag(m, at, o, next)
  BY <1>1 DEF IsTagStep
<1>4. PICK z \in (o + FDT_TAGSIZE)..(next - 1) :
          /\ next < z + 1 + FDT_TAGSIZE
          /\ m[at + z] = 0
          /\ \A y \in (o + FDT_TAGSIZE)..(z - 1) : m[at + y] # 0
  BY <1>3 DEF IsTag, FDT_BEGIN_NODE, FDT_END_NODE, FDT_NOP, FDT_PROP
<1> PICK a, b, l : a = at + o + FDT_TAGSIZE /\ b = at + z /\ l = z - (o + FDT_TAGSIZE)
  OBVIOUS
<1>5. NulFrom(m, a) = b
  <2>1. a \in Nat /\ b \in Nat /\ a <= b /\ b < MemSize /\ m[b] = 0
    BY <1>2, <1>4
  <2>2. ASSUME NEW j \in a..(b - 1) PROVE m[j] # 0
    <3>1. j - at \in (o + FDT_TAGSIZE)..(z - 1) /\ at + (j - at) = j
      BY <1>2, <1>4
    <3> QED
      BY <1>4, <3>1
  <2> QED
    BY <2>1, <2>2, NulFromIs
<1>6. len = l /\ l \in Nat
  <2>1. b - a = l /\ l \in Nat
    BY <1>2, <1>4
  <2>2. StringAt(m, a) = Cells(m, a, b - a)
    BY <1>5, Zenon DEF StringAt
  <2>3. len = Len(Cells(m, a, l))
    BY <2>1, <2>2
  <2> QED
    BY <2>1, <2>3, CellsAre
<1> PICK t, x, q : t = TagAlign(l + 1) /\ x = z + 1 /\ q = o + FDT_TAGSIZE + t
  OBVIOUS
<1>7. t \in Nat /\ Aligned(t) /\ l + 1 <= t /\ t < l + 1 + FDT_TAGSIZE
  BY <1>6, TagAlignIs
<1>8. Aligned(q)
  <2>1. Aligned(o + FDT_TAGSIZE)
    BY <1>2, AlignedSum, AlignedTags
  <2> QED
    BY <1>7, <2>1, AlignedSum
<1>9. /\ x \in Int /\ x <= next /\ next < x + FDT_TAGSIZE /\ x <= q /\ q < x + FDT_TAGSIZE
  <2>1. l = z - (o + FDT_TAGSIZE) /\ x = z + 1 /\ q = o + FDT_TAGSIZE + t
    OBVIOUS
  <2>2. z \in Int /\ z <= next - 1 /\ next < z + 1 + FDT_TAGSIZE
    BY <1>2, <1>4
  <2> QED
    BY ONLY <1>2, <1>7, <2>1, <2>2
<1>10. next = q
  <2>1. Aligned(next)
    BY <1>3 DEF IsTag
  <2> QED
    BY <1>8, <1>9, <2>1, AlignedIsUnique
<1>11. D[next] = D[o] + 1
  BY <1>1 DEF IsTagStep, IsStep
<1> QED
  BY <1>6, <1>10, <1>11

----------------------------------------------------------------------------
(* What calls return *)

(* A call that fails returns the memory as it was. *)
Sound(r) == IsSomeBlob(r.mem) /\ (r.ret # "OK" => Kept(r.mem, fdt) = mem)

(* What holds after each step *)
StepIsGood == Good(mem', fdt') /\ (ret' # "OK" => mem' = mem /\ fdt' = fdt)

LEMMA FailedIsSound ==
    ASSUME fdt # NULL, Good(mem, fdt), NEW error
    PROVE  Sound(Failed(error))
<1>1. IsSomeBlob(mem)
  BY GoodIsBlob DEF IsSomeBlob
<1>2. mem = Kept(mem, fdt)
  BY DEF Good
<1>3. Failed(error).mem = mem
  BY DEF Failed
<1> QED
  BY <1>1, <1>2, <1>3, Zenon DEF Sound

LEMMA DoneIsSound ==
    ASSUME NEW m, IsSomeBlob(m)
    PROVE  Sound(Done(m))
<1>1. Done(m).mem = m /\ Done(m).ret = "OK"
  BY DEF Done
<1> QED
  BY <1>1, Zenon DEF Sound

LEMMA ReturnsIsGood ==
    ASSUME NEW r, Sound(r), Returns(r)
    PROVE  StepIsGood
<1>1. ret' = r.ret /\ mem' = Kept(r.mem, fdt) /\ fdt' = fdt
  BY DEF Returns
<1>2. Good(Kept(r.mem, fdt), fdt)
  BY BlobKept DEF Sound, IsSomeBlob
<1>3. r.ret # "OK" => Kept(r.mem, fdt) = mem
  BY DEF Sound
<1> QED
  BY <1>1, <1>2, <1>3 DEF StepIsGood

(* Tags that end as deep as they begin are cut out. *)
LEMMA StructCut ==
    ASSUME NEW m, NEW total, NEW rsv, NEW n, NEW struct, NEW size, NEW strs, NEW sizestrs,
           Blob(m, fdt, total, rsv, n, struct, size, strs, sizestrs), Editable(m),
           NEW at, at = fdt + struct, NEW N, N = StringsIn(m, fdt + strs, sizestrs),
           NEW D, IsStructOf(m, at, size, D, N), D[0] = 0, D[size] = 0,
           NEW p \in DOMAIN D, NEW q \in DOMAIN D, p <= q, D[p] = D[q]
    PROVE  IsSomeBlob(fdt_splice_struct_(m, At(m, p), q - p, 0))
<1> PICK addr, old, g : addr = at + p /\ old = q - p /\ g = fdt_splice_struct_(m, addr, old, 0)
  OBVIOUS
<1>1. /\ fdt \in Nat /\ fdt + total <= MemSize /\ total \in Nat /\ strs \in Nat
      /\ sizestrs \in Nat /\ struct \in Nat /\ size \in Nat /\ strs + sizestrs <= total
      /\ FDT_TAGSIZE \in Nat /\ struct + size + FDT_TAGSIZE <= strs
      /\ Ordered(rsv, n, struct, size, strs)
  BY EditableIsOrdered, TagSize DEF Blob, Shape, Fit, Ordered
<1>2. At(m, p) = addr
  <2>1. At(m, p) = fdt + off_dt_struct(m) + p
    BY Zenon DEF At
  <2>2. off_dt_struct(m) = struct
    BY BlobFields
  <2> QED
    BY <2>1, <2>2
<1>3. IsRange(m, at, size, D, N, p, q)
  BY DEF IsStructOf, IsRange
<1>4. p \in Nat /\ q \in Nat /\ q <= size /\ old \in Nat /\ D[p] \in Nat
  BY <1>3, RangeIs
<1>5. HasRoom(m, old, 0)
  <2>1. fdt_data_size_(m) = strs + sizestrs /\ totalsize(m) = total
    BY BlobFields
  <2> QED
    BY <1>1, <1>4, <2>1 DEF HasRoom
<1>6. addr \in Nat /\ fdt + struct <= addr /\ addr + old <= fdt + strs
  BY <1>1, <1>4
<1>7. IsMemory(g)
  <2>1. g = fdt_splice_struct_(m, addr, old, 0)
    OBVIOUS
  <2>2. Blob(m, fdt, total, rsv, n, struct, size, strs, sizestrs)
    OBVIOUS
  <2>3. Ordered(rsv, n, struct, size, strs) /\ 0 \in Nat /\ old \in Nat
    BY <1>1, <1>4
  <2> QED
    BY ONLY <1>5, <1>6, <2>1, <2>2, <2>3, SplicedBefore
<1>8. Leads(g, at + p, 0, N, D[p], D[q])
  <2> PICK d, to : d = D[p] /\ to = at + p
    OBVIOUS
  <2>1. d \in Nat
    BY <1>4
  <2>2. Leads(g, to, 0, N, d, d)
    BY <2>1, NothingLeads
  <2> QED
    BY <2>2
<1>9. IsRespliced(m, g, at, p, q, 0, old, 0)
  <2>1. 0 \in Nat /\ q = p + 0 + old /\ addr = at + p + 0
    BY <1>1, <1>4
  <2>2. SameOutside(g, g, at + p, 0 + 0)
    BY SameIsOutside
  <2> QED
    BY <1>4, <1>5, <1>7, <2>1, <2>2 DEF IsRespliced
<1>10. Leads(g, at + p, 0 + 0, N, D[p], D[q])
  BY <1>8
<1> QED
  BY <1>1, <1>2, <1>3, <1>9, <1>10, StructRespliced

LEMMA RefusalIsGood ==
    ASSUME fdt # NULL, Good(mem, fdt), NEW error, Returns(Failed(error))
    PROVE  StepIsGood
  BY FailedIsSound, ReturnsIsGood

LEMMA EditIsGood ==
    ASSUME NEW m, IsSomeBlob(m), Returns(Done(m))
    PROVE  StepIsGood
  BY DoneIsSound, ReturnsIsGood

(* The blob that a call finds, and the tree in it *)
IsFound(total, rsv, n, struct, size, strs, sizestrs, at, N, D) ==
    /\ Blob(mem, fdt, total, rsv, n, struct, size, strs, sizestrs)
    /\ at = fdt + struct /\ N = StringsIn(mem, fdt + strs, sizestrs)
    /\ IsStructOf(mem, at, size, D, N) /\ D[0] = 0 /\ D[size] = 0

LEMMA IsFoundAlways ==
    ASSUME fdt # NULL, Good(mem, fdt)
    PROVE  \E total, rsv, n, struct, size, strs, sizestrs, at, N, D :
              IsFound(total, rsv, n, struct, size, strs, sizestrs, at, N, D)
<1>1. PICK total, rsv, n, struct, size, strs, sizestrs :
          Blob(mem, fdt, total, rsv, n, struct, size, strs, sizestrs)
  BY GoodIsBlob
<1> PICK at, N : at = fdt + struct /\ N = StringsIn(mem, fdt + strs, sizestrs)
  OBVIOUS
<1>2. PICK D : IsStructOf(mem, at, size, D, N) /\ D[0] = 0 /\ D[size] = 0
  BY <1>1, BlobTree
<1> QED
  BY <1>1, <1>2 DEF IsFound

(* The nodes that a caller finds *)
LEMMA NodeIsFound ==
    ASSUME NEW m, NEW at, NEW size, NEW D, NEW N, IsStructOf(m, at, size, D, N),
           NEW node \in NodeOffsets(m)
    PROVE  node \in DOMAIN D \ {size} /\ m[at + node] = FDT_BEGIN_NODE
<1>1. At(m, node) = at + node
  BY Zenon DEF At, IsStructOf
<1>2. node \in ToSet(TagOffsets(m)) /\ m[At(m, node)] = FDT_BEGIN_NODE
  BY DEF NodeOffsets
<1> QED
  BY <1>1, <1>2, OffsetsAre

LEMMA DelpropIsGood ==
    ASSUME fdt # NULL, Good(mem, fdt), NEW node, NEW name, fdt_delprop(node, name)
    PROVE  StepIsGood
<1> PICK found, prop, len : /\ found = fdt_get_property(mem, node, name) /\ prop = Min(found)
                            /\ len = 3 * FDT_TAGSIZE + TagAlign(LenOf(mem, prop))
  OBVIOUS
<1>1. \/ Returns(Failed("BADLAYOUT")) \/ Returns(Failed("NOTFOUND"))
      \/ /\ Editable(mem) /\ found # {}
         /\ Returns(Done(fdt_splice_struct_(mem, At(mem, prop), len, 0)))
  BY Zenon DEF fdt_delprop
<1>2. CASE Editable(mem) /\ found # {}
            /\ Returns(Done(fdt_splice_struct_(mem, At(mem, prop), len, 0)))
  <2>1. PICK total, rsv, n, struct, size, strs, sizestrs, at, N, D :
            IsFound(total, rsv, n, struct, size, strs, sizestrs, at, N, D)
    BY IsFoundAlways
  <2>2. /\ Blob(mem, fdt, total, rsv, n, struct, size, strs, sizestrs)
        /\ at = fdt + struct /\ N = StringsIn(mem, fdt + strs, sizestrs)
        /\ IsStructOf(mem, at, size, D, N) /\ D[0] = 0 /\ D[size] = 0
    BY <2>1 DEF IsFound
  <2>3. prop \in DOMAIN D \ {size} /\ mem[at + prop] = FDT_PROP
    BY <1>2, <2>2, FoundIs
  <2> PICK q : q = prop + 3 * FDT_TAGSIZE + TagAlign(LenOf(mem, prop))
    OBVIOUS
  <2>4. q \in DOMAIN D /\ D[q] = D[prop] /\ LenOf(mem, prop) \in Nat
    BY <2>2, <2>3, PropIs
  <2>5. len \in Nat /\ prop \in Nat /\ q - prop = len /\ prop <= q
    <3>1. TagAlign(LenOf(mem, prop)) \in Nat /\ FDT_TAGSIZE \in Nat
      BY <2>4, TagAlignIs, TagSize
    <3>2. prop \in Nat
      BY <2>2, <2>3, StructIs DEF IsStructOf
    <3> QED
      BY <3>1, <3>2
  <2>6. IsSomeBlob(fdt_splice_struct_(mem, At(mem, prop), q - prop, 0))
    BY <1>2, <2>2, <2>3, <2>4, <2>5, StructCut
  <2> QED
    BY <1>2, <2>5, <2>6, EditIsGood
<1> QED
  BY <1>1, <1>2, RefusalIsGood

LEMMA DelNodeIsGood ==
    ASSUME fdt # NULL, Good(mem, fdt), NEW node \in NodeOffsets(mem), fdt_del_node(node)
    PROVE  StepIsGood
<1> PICK end : end = fdt_node_end_offset_(mem, node)
  OBVIOUS
<1>1. \/ Returns(Failed("BADLAYOUT"))
      \/ /\ Editable(mem)
         /\ Returns(Done(fdt_splice_struct_(mem, At(mem, node), end - node, 0)))
  BY Zenon DEF fdt_del_node
<1>2. CASE Editable(mem) /\ Returns(Done(fdt_splice_struct_(mem, At(mem, node), end - node, 0)))
  <2>1. PICK total, rsv, n, struct, size, strs, sizestrs, at, N, D :
            IsFound(total, rsv, n, struct, size, strs, sizestrs, at, N, D)
    BY IsFoundAlways
  <2>2. /\ Blob(mem, fdt, total, rsv, n, struct, size, strs, sizestrs)
        /\ at = fdt + struct /\ N = StringsIn(mem, fdt + strs, sizestrs)
        /\ IsStructOf(mem, at, size, D, N) /\ D[0] = 0 /\ D[size] = 0
    BY <2>1 DEF IsFound
  <2>3. node \in DOMAIN D \ {size} /\ mem[at + node] = FDT_BEGIN_NODE
    BY <2>2, NodeIsFound
  <2>4. end \in DOMAIN D /\ node < end /\ D[end] = D[node]
    BY <2>2, <2>3, NodeEndIs
  <2>5. node <= end
    <3>1. node \in Nat /\ end \in Nat
      BY <2>2, <2>3, <2>4, StructIs DEF IsStructOf
    <3> QED
      BY <2>4, <3>1
  <2>6. IsSomeBlob(fdt_splice_struct_(mem, At(mem, node), end - node, 0))
    BY <1>2, <2>2, <2>3, <2>4, <2>5, StructCut
  <2> QED
    BY <1>2, <2>6, EditIsGood
<1> QED
  BY <1>1, <1>2, RefusalIsGood

(* A property where its tag, its length and the offset of its name are *)
LEMMA PropLeads ==
    ASSUME NEW g, NEW a \in Int, NEW len \in Nat, NEW N, g[a] = FDT_PROP,
           g[a + FDT_TAGSIZE] = len, g[a + 2 * FDT_TAGSIZE] \in N,
           NEW d \in Nat, NEW n, n = 3 * FDT_TAGSIZE + TagAlign(len)
    PROVE  Leads(g, a, n, N, d, d)
<1>1. FDT_TAGSIZE \in Nat \ {0} /\ TagAlign(len) \in Nat
  BY TagSize, TagAlignIs
<1>2. a + 0 = a /\ a + 0 + FDT_TAGSIZE = a + FDT_TAGSIZE /\ 0 + n = n /\ 0 < n
  BY <1>1
<1>3. IsTag(g, a, 0, n)
  <2>1. g[a + 0] = FDT_PROP /\ g[a + 0 + FDT_TAGSIZE] = len
    BY <1>2
  <2>2. IsTag(g, a, 0, 0 + (3 * FDT_TAGSIZE + TagAlign(len)))
    BY <2>1, AlignedTags, PropIsTag
  <2> QED
    BY <1>2, <2>2
<1>4. IsStep(g[a], d, d)
  BY DEF IsStep, FDT_PROP, FDT_BEGIN_NODE, FDT_END_NODE
<1> QED
  BY <1>2, <1>3, <1>4, TagLeads

(* A node's tag and its name *)
LEMMA BeginLeads ==
    ASSUME NEW g, NEW a \in Int, NEW name \in Seq(Nat \ {0}), NEW N, g[a] = FDT_BEGIN_NODE,
           Written(g, a + FDT_TAGSIZE, Terminated(name)),
           NEW d \in Nat, NEW n, n = FDT_TAGSIZE + TagAlign(Len(name) + 1)
    PROVE  Leads(g, a, n, N, d, d + 1)
<1> PICK len, s : len = Len(name) /\ s = Terminated(name)
  OBVIOUS
<1>1. FDT_TAGSIZE \in Nat \ {0} /\ len \in Nat /\ TagAlign(len + 1) \in Nat
  BY TagSize, TagAlignIs
<1>2. a + 0 = a /\ 0 + n = n /\ 0 < n
  BY <1>1
<1>3. Len(s) = len + 1 /\ s[len + 1] = 0 /\ \A k \in 1..len : s[k] = name[k]
  BY DEF Terminated
<1>4. \A k \in 1..(len + 1) : g[a + FDT_TAGSIZE + (k - 1)] = s[k]
  BY <1>3 DEF Written
<1>5. /\ \A k \in 1..len : g[a + (0 + FDT_TAGSIZE + k - 1)] = name[k]
      /\ g[a + (0 + FDT_TAGSIZE + len)] = 0
  <2>1. ASSUME NEW k \in 1..len
        PROVE  g[a + (0 + FDT_TAGSIZE + k - 1)] = name[k]
    <3>1. k \in 1..(len + 1) /\ a + (0 + FDT_TAGSIZE + k - 1) = a + FDT_TAGSIZE + (k - 1)
      BY <1>1
    <3> QED
      BY <1>3, <1>4, <3>1
  <2>2. /\ len + 1 \in 1..(len + 1)
        /\ a + (0 + FDT_TAGSIZE + len) = a + FDT_TAGSIZE + ((len + 1) - 1)
    BY <1>1
  <2> QED
    BY <1>3, <1>4, <2>1, <2>2
<1>6. IsTag(g, a, 0, n)
  <2>1. g[a + 0] = FDT_BEGIN_NODE
    BY <1>2
  <2>2. IsTag(g, a, 0, 0 + (FDT_TAGSIZE + TagAlign(Len(name) + 1)))
    BY <1>5, <2>1, AlignedTags, BeginIsTag
  <2> QED
    BY <1>2, <2>2
<1> PICK e : e = d + 1
  OBVIOUS
<1>7. IsStep(g[a], d, e)
  BY DEF IsStep, FDT_PROP, FDT_BEGIN_NODE, FDT_END_NODE, FDT_NOP
<1>8. g[a] # FDT_PROP /\ e \in Nat
  BY DEF FDT_PROP, FDT_BEGIN_NODE
<1>9. Leads(g, a, n, N, d, e)
  BY <1>2, <1>6, <1>7, <1>8, TagLeads
<1> QED
  BY <1>9

(* Where the tags of the tree are *)
LEMMA PlaceIs ==
    ASSUME NEW total, NEW rsv, NEW n, NEW struct, NEW size, NEW strs, NEW sizestrs, NEW at,
           NEW N, NEW D, IsFound(total, rsv, n, struct, size, strs, sizestrs, at, N, D),
           NEW p \in DOMAIN D
    PROVE  /\ At(mem, p) = at + p /\ at \in Nat /\ p \in Nat /\ size \in Nat /\ p <= size
           /\ at + size + FDT_TAGSIZE <= MemSize /\ D[p] \in Nat /\ Aligned(p)
           /\ FDT_TAGSIZE \in Nat \ {0} /\ IsMemory(mem)
<1>1. /\ at \in Nat /\ at = fdt + off_dt_struct(mem) /\ IsStruct(mem, at, size, D, N)
      /\ size_dt_struct(mem) = size + FDT_TAGSIZE /\ at + size_dt_struct(mem) <= MemSize
  BY DEF IsFound, IsStructOf
<1>2. At(mem, p) = at + p
  BY <1>1, Zenon DEF At
<1>3. size \in Nat /\ p \in Nat /\ p <= size /\ D[p] \in Nat /\ Aligned(p)
  BY <1>1, StructIs
<1> QED
  BY <1>1, <1>2, <1>3, TagSize DEF IsFound, Blob

(* Tags overwritten with FDT_NOP *)
LEMMA NopRegionIsSound ==
    ASSUME NEW total, NEW rsv, NEW n, NEW struct, NEW size, NEW strs, NEW sizestrs, NEW at,
           NEW N, NEW D, IsFound(total, rsv, n, struct, size, strs, sizestrs, at, N, D),
           NEW p \in DOMAIN D, NEW q \in DOMAIN D, p <= q, D[p] = D[q],
           NEW len, TagAlign(len) = q - p
    PROVE  IsSomeBlob(fdt_nop_region_(At(mem, p), len))
<1> PICK k, a, s, g : /\ k = q - p /\ a = at + p
                      /\ s = [i \in 1..k |-> IF Aligned(i - 1) THEN FDT_NOP ELSE 0]
                      /\ g = Put(mem, a, s)
  OBVIOUS
<1>1. /\ At(mem, p) = a /\ a \in Nat /\ k \in Nat /\ a + k <= MemSize /\ D[p] \in Nat
      /\ Aligned(p) /\ Aligned(q) /\ p \in Nat /\ q \in Nat /\ IsMemory(mem)
  <2>1. /\ At(mem, p) = at + p /\ at \in Nat /\ p \in Nat /\ size \in Nat /\ p <= size
        /\ at + size + FDT_TAGSIZE <= MemSize /\ D[p] \in Nat /\ Aligned(p)
        /\ FDT_TAGSIZE \in Nat \ {0} /\ IsMemory(mem)
    BY PlaceIs
  <2>2. q \in Nat /\ q <= size /\ Aligned(q)
    BY PlaceIs
  <2> QED
    BY <2>1, <2>2, TagSize
<1>2. fdt_nop_region_(At(mem, p), len) = g
  BY <1>1 DEF fdt_nop_region_
<1>3. Len(s) = k /\ \A i \in 1..k : s[i] = IF Aligned(i - 1) THEN FDT_NOP ELSE 0
  BY <1>1
<1>4. IsMemory(g) /\ SameOutside(mem, g, a, k) /\ Written(g, a, s)
  BY <1>1, <1>3, PutCells
<1>5. AreNops(g, a, k)
  <2> SUFFICES ASSUME NEW x \in 0..(k - 1), Aligned(x)
               PROVE  g[a + x] = FDT_NOP
    BY DEF AreNops
  <2> PICK i : i = x + 1
    OBVIOUS
  <2>1. i \in 1..k /\ i - 1 = x
    BY <1>1
  <2>2. g[a + (i - 1)] = s[i]
    BY <1>3, <1>4, <2>1 DEF Written
  <2>3. s[i] = FDT_NOP
    BY <1>3, <2>1
  <2> QED
    BY <2>1, <2>2, <2>3
<1>6. Aligned(k)
  BY <1>1, AlignedMinus
<1> PICK d : d = D[p]
  OBVIOUS
<1>7. Leads(g, a, k, N, d, d)
  BY <1>1, <1>5, <1>6, NopsLead
<1>8. IsRange(mem, at, size, D, N, p, q)
  BY DEF IsFound, IsStructOf, IsRange
<1>9. /\ Blob(mem, fdt, total, rsv, n, struct, size, strs, sizestrs)
      /\ at = fdt + struct /\ N = StringsIn(mem, fdt + strs, sizestrs)
  BY DEF IsFound
<1>10. Blob(g, fdt, total, rsv, n, struct, size, strs, sizestrs)
  BY <1>4, <1>7, <1>8, <1>9, StructOverwritten
<1> QED
  BY <1>2, <1>10 DEF IsSomeBlob

LEMMA NopNodeIsGood ==
    ASSUME fdt # NULL, Good(mem, fdt), NEW node \in NodeOffsets(mem), fdt_nop_node(node)
    PROVE  StepIsGood
<1> PICK end : end = fdt_node_end_offset_(mem, node)
  OBVIOUS
<1>1. Returns(Done(fdt_nop_region_(At(mem, node), end - node)))
  BY Zenon DEF fdt_nop_node
<1>2. PICK total, rsv, n, struct, size, strs, sizestrs, at, N, D :
          IsFound(total, rsv, n, struct, size, strs, sizestrs, at, N, D)
  BY IsFoundAlways
<1>3. IsStructOf(mem, at, size, D, N) /\ D[size] = 0
  BY <1>2 DEF IsFound
<1>4. node \in DOMAIN D \ {size} /\ mem[at + node] = FDT_BEGIN_NODE
  BY <1>3, NodeIsFound
<1>5. end \in DOMAIN D /\ node < end /\ D[end] = D[node]
  BY <1>3, <1>4, NodeEndIs
<1>6. node \in Nat /\ end \in Nat /\ Aligned(node) /\ Aligned(end)
  BY <1>2, <1>4, <1>5, PlaceIs
<1>7. TagAlign(end - node) = end - node
  <2>1. Aligned(end - node)
    BY <1>5, <1>6, AlignedMinus
  <2> QED
    BY <2>1 DEF Aligned
<1>8. IsSomeBlob(fdt_nop_region_(At(mem, node), end - node))
  <2>1. node <= end
    BY <1>5, <1>6
  <2> QED
    BY <1>2, <1>4, <1>5, <1>7, <2>1, NopRegionIsSound
<1> QED
  BY <1>1, <1>8, EditIsGood

(* The property that a call finds, and the tag behind it *)
LEMMA PropIsFound ==
    ASSUME NEW total, NEW rsv, NEW n, NEW struct, NEW size, NEW strs, NEW sizestrs, NEW at,
           NEW N, NEW D, IsFound(total, rsv, n, struct, size, strs, sizestrs, at, N, D),
           NEW node, NEW name, fdt_get_property(mem, node, name) # {},
           NEW prop, prop = Min(fdt_get_property(mem, node, name)),
           NEW len, len = LenOf(mem, prop), NEW q, q = prop + 3 * FDT_TAGSIZE + TagAlign(len)
    PROVE  /\ prop \in DOMAIN D /\ q \in DOMAIN D /\ D[prop] = D[q] /\ prop <= q
           /\ len \in Nat /\ mem[at + prop] = FDT_PROP /\ mem[at + prop + FDT_TAGSIZE] = len
           /\ mem[at + prop + 2 * FDT_TAGSIZE] \in N
<1>1. IsStructOf(mem, at, size, D, N)
  BY DEF IsFound
<1>2. prop \in DOMAIN D \ {size} /\ mem[at + prop] = FDT_PROP
  BY <1>1, FoundIs
<1>3. /\ q \in DOMAIN D /\ D[q] = D[prop] /\ len \in Nat
      /\ mem[at + prop + FDT_TAGSIZE] = len /\ mem[at + prop + 2 * FDT_TAGSIZE] \in N
  BY <1>1, <1>2, PropIs
<1>4. prop \in Nat
  BY <1>2, PlaceIs
<1>5. prop <= q
  BY <1>3, <1>4, TagSize, TagAlignIs
<1> QED
  BY <1>2, <1>3, <1>5

LEMMA NopPropertyIsGood ==
    ASSUME fdt # NULL, Good(mem, fdt), NEW node, NEW name, fdt_nop_property(node, name)
    PROVE  StepIsGood
<1> PICK found, prop, len, q :
        /\ found = fdt_get_property(mem, node, name) /\ prop = Min(found)
        /\ len = LenOf(mem, prop) /\ q = prop + 3 * FDT_TAGSIZE + TagAlign(len)
  OBVIOUS
<1>1. \/ Returns(Failed("NOTFOUND"))
      \/ /\ found # {}
         /\ Returns(Done(fdt_nop_region_(At(mem, prop), 3 * FDT_TAGSIZE + len)))
  BY Zenon DEF fdt_nop_property
<1>2. CASE found # {} /\ Returns(Done(fdt_nop_region_(At(mem, prop), 3 * FDT_TAGSIZE + len)))
  <2>1. PICK total, rsv, n, struct, size, strs, sizestrs, at, N, D :
            IsFound(total, rsv, n, struct, size, strs, sizestrs, at, N, D)
    BY IsFoundAlways
  <2>2. /\ prop \in DOMAIN D /\ q \in DOMAIN D /\ D[prop] = D[q] /\ prop <= q
        /\ len \in Nat
    BY <1>2, <2>1, PropIsFound
  <2> PICK whole, t : whole = 3 * FDT_TAGSIZE + len /\ t = TagAlign(len)
    OBVIOUS
  <2>3. prop \in Nat /\ FDT_TAGSIZE \in Nat \ {0}
    BY <2>1, <2>2, PlaceIs
  <2>4. t \in Nat /\ Aligned(t) /\ len <= t /\ t < len + FDT_TAGSIZE
    BY <2>2, TagAlignIs
  <2>5. whole \in Nat
    BY <2>2, <2>3
  <2> PICK w, x : w = TagAlign(whole) /\ x = 3 * FDT_TAGSIZE + t
    OBVIOUS
  <2>6. Aligned(w) /\ whole <= w /\ w < whole + FDT_TAGSIZE
    BY <2>5, TagAlignIs
  <2>7. Aligned(x) /\ whole <= x /\ x < whole + FDT_TAGSIZE
    <3>1. Aligned(3 * FDT_TAGSIZE)
      BY AlignedTags
    <3>2. Aligned(x)
      BY <2>4, <3>1, AlignedSum
    <3> QED
      BY <2>2, <2>3, <2>4, <3>2
  <2>8. w = x
    BY <2>5, <2>6, <2>7, AlignedIsUnique
  <2>9. TagAlign(whole) = q - prop
    BY <2>3, <2>4, <2>8
  <2>10. IsSomeBlob(fdt_nop_region_(At(mem, prop), whole))
    BY <2>1, <2>2, <2>9, NopRegionIsSound
  <2> QED
    BY <1>2, <2>10, EditIsGood
<1> QED
  BY <1>1, <1>2, RefusalIsGood

LEMMA InplaceIsGood ==
    ASSUME fdt # NULL, Good(mem, fdt), NEW node, NEW name, NEW value \in Values,
           fdt_setprop_inplace(node, name, value)
    PROVE  StepIsGood
<1> PICK found, prop, len, q :
        /\ found = fdt_get_property(mem, node, name) /\ prop = Min(found)
        /\ len = LenOf(mem, prop) /\ q = prop + 3 * FDT_TAGSIZE + TagAlign(len)
  OBVIOUS
<1>1. \/ Returns(Failed("NOTFOUND")) \/ Returns(Failed("NOSPACE"))
      \/ /\ found # {} /\ len = Len(value)
         /\ Returns(Done(Put(mem, At(mem, prop) + 3 * FDT_TAGSIZE, value)))
  BY Zenon DEF fdt_setprop_inplace
<1>2. CASE found # {} /\ len = Len(value)
            /\ Returns(Done(Put(mem, At(mem, prop) + 3 * FDT_TAGSIZE, value)))
  <2>1. PICK total, rsv, n, struct, size, strs, sizestrs, at, N, D :
            IsFound(total, rsv, n, struct, size, strs, sizestrs, at, N, D)
    BY IsFoundAlways
  <2>2. /\ prop \in DOMAIN D /\ q \in DOMAIN D /\ D[prop] = D[q] /\ prop <= q
        /\ len \in Nat /\ mem[at + prop] = FDT_PROP /\ mem[at + prop + FDT_TAGSIZE] = len
        /\ mem[at + prop + 2 * FDT_TAGSIZE] \in N
    <3>1. found # {}
      BY <1>2
    <3> QED
      BY <2>1, <3>1, PropIsFound
  <2> PICK a, t, k, w, g : /\ a = at + prop /\ t = TagAlign(len) /\ k = q - prop
                           /\ w = a + 3 * FDT_TAGSIZE /\ g = Put(mem, w, value)
    OBVIOUS
  <2>3. /\ At(mem, prop) = a /\ a \in Nat /\ IsMemory(mem) /\ FDT_TAGSIZE \in Nat \ {0}
        /\ prop \in Nat /\ q \in Nat /\ D[prop] \in Nat /\ at \in Nat
    BY <2>1, <2>2, PlaceIs
  <2>4. q <= size /\ size \in Nat /\ at + size + FDT_TAGSIZE <= MemSize
    BY <2>1, <2>2, PlaceIs
  <2>5. t \in Nat /\ len <= t
    BY <2>2, TagAlignIs
  <2>6. k = 3 * FDT_TAGSIZE + t /\ a + k <= MemSize /\ w \in Nat /\ w + len <= MemSize
    BY <2>2, <2>3, <2>4, <2>5, TagSize
  <2>7. IsMemory(g) /\ SameOutside(mem, g, w, len)
    BY <1>2, <2>2, <2>3, <2>6, PutCells
  <2>8. SameOutside(mem, g, a, k)
    BY <2>2, <2>3, <2>5, <2>6, <2>7, WiderOutside
  <2>9. g[a] = FDT_PROP /\ g[a + FDT_TAGSIZE] = len /\ g[a + 2 * FDT_TAGSIZE] \in N
    <3>1. \A i \in a..(w - 1) : g[i] = mem[i]
      BY <2>3, <2>5, <2>6, <2>7, TagSize DEF SameOutside
    <3>2. /\ a \in a..(w - 1) /\ a + FDT_TAGSIZE \in a..(w - 1)
          /\ a + 2 * FDT_TAGSIZE \in a..(w - 1)
      BY <2>3
    <3> QED
      BY <2>2, <3>1, <3>2
  <2> PICK d : d = D[prop]
    OBVIOUS
  <2>10. Leads(g, a, k, N, d, d)
    <3>1. d \in Nat /\ a \in Int /\ len \in Nat /\ k = 3 * FDT_TAGSIZE + TagAlign(len)
      BY <2>2, <2>3, <2>6
    <3> QED
      BY <2>9, <3>1, PropLeads
  <2>11. IsRange(mem, at, size, D, N, prop, q)
    BY <2>1, <2>2 DEF IsFound, IsStructOf, IsRange
  <2>12. /\ Blob(mem, fdt, total, rsv, n, struct, size, strs, sizestrs)
         /\ at = fdt + struct /\ N = StringsIn(mem, fdt + strs, sizestrs)
    BY <2>1 DEF IsFound
  <2>13. Blob(g, fdt, total, rsv, n, struct, size, strs, sizestrs)
    BY <2>2, <2>7, <2>8, <2>10, <2>11, <2>12, StructOverwritten
  <2>14. IsSomeBlob(g)
    BY <2>13 DEF IsSomeBlob
  <2> QED
    BY <1>2, <2>3, <2>14, EditIsGood
<1> QED
  BY <1>1, <1>2, RefusalIsGood

(* Room made or taken between tags p and q, c cells behind p, and the      *)
(* cells between them written                                              *)
LEMMA RespliceIsSound ==
    ASSUME NEW total, NEW rsv, NEW n, NEW struct, NEW size, NEW strs, NEW sizestrs, NEW at,
           NEW N, NEW D, IsFound(total, rsv, n, struct, size, strs, sizestrs, at, N, D),
           Editable(mem), NEW p \in DOMAIN D, NEW q \in DOMAIN D, p <= q,
           NEW h, NEW c, NEW oldlen, NEW newlen,
           IsRespliced(mem, h, at, p, q, c, oldlen, newlen),
           Leads(h, at + p, c + newlen, N, D[p], D[q])
    PROVE  IsSomeBlob(h)
<1>1. IsRange(mem, at, size, D, N, p, q)
  BY DEF IsFound, IsStructOf, IsRange
<1>2. /\ Blob(mem, fdt, total, rsv, n, struct, size, strs, sizestrs)
      /\ at = fdt + struct /\ N = StringsIn(mem, fdt + strs, sizestrs)
  BY DEF IsFound
<1>3. Ordered(rsv, n, struct, size, strs)
  BY <1>2, EditableIsOrdered
<1> QED
  BY <1>1, <1>2, <1>3, StructRespliced

(* The memory once it is spliced there *)
LEMMA SpliceIs ==
    ASSUME NEW total, NEW rsv, NEW n, NEW struct, NEW size, NEW strs, NEW sizestrs, NEW at,
           NEW N, NEW D, IsFound(total, rsv, n, struct, size, strs, sizestrs, at, N, D),
           Editable(mem), NEW p \in DOMAIN D, NEW q \in DOMAIN D,
           NEW c \in Nat, NEW oldlen \in Nat, NEW newlen \in Nat, q = p + c + oldlen,
           HasRoom(mem, oldlen, newlen), NEW a, a = at + p + c,
           NEW g, g = fdt_splice_struct_(mem, a, oldlen, newlen)
    PROVE  /\ IsMemory(g) /\ a \in Nat /\ a + newlen <= MemSize
           /\ \A i \in (at + p)..(a - 1) : g[i] = mem[i]
<1>1. /\ Blob(mem, fdt, total, rsv, n, struct, size, strs, sizestrs) /\ at = fdt + struct
  BY DEF IsFound
<1>2. Ordered(rsv, n, struct, size, strs)
  BY <1>1, EditableIsOrdered
<1>3. at \in Nat /\ p \in Nat /\ q \in Nat /\ size \in Nat /\ q <= size /\ FDT_TAGSIZE \in Nat
  BY PlaceIs
<1>4. fdt \in Nat /\ struct \in Nat /\ strs \in Nat /\ struct + size + FDT_TAGSIZE <= strs
  BY <1>1, <1>2 DEF Blob, Shape, Fit, Ordered
<1>5. a \in Nat /\ fdt + struct <= a /\ a + oldlen <= fdt + strs
  BY <1>1, <1>3, <1>4
<1>6. /\ IsMemory(g) /\ a + newlen <= MemSize
      /\ \A i \in (fdt + struct)..(a - 1) : g[i] = mem[i]
  BY <1>1, <1>2, <1>5, SplicedBefore
<1>7. \A i \in (at + p)..(a - 1) : i \in (fdt + struct)..(a - 1)
  BY <1>1, <1>3, <1>4, <1>5
<1> QED
  BY <1>5, <1>6, <1>7

LEMMA OutsideFrom ==
    ASSUME NEW g, NEW h, NEW w, NEW n \in Nat, SameOutside(g, h, w, n),
           NEW a \in Nat, NEW c \in Nat, w = a + c, NEW more \in Nat, n <= more
    PROVE  SameOutside(g, h, a, c + more)
<1>1. w \in Int /\ c + more \in Int /\ a <= w /\ w + n <= a + (c + more)
  OBVIOUS
<1> QED
  BY <1>1, WiderOutside

LEMMA SetNameIsGood ==
    ASSUME fdt # NULL, Good(mem, fdt), NEW node \in NodeOffsets(mem), NEW name \in Names,
           fdt_set_name(node, name)
    PROVE  StepIsGood
<1> PICK w, len, old, new, s :
        /\ w = At(mem, node) + FDT_TAGSIZE /\ len = Len(StringAt(mem, w))
        /\ old = TagAlign(len + 1) /\ new = TagAlign(Len(name) + 1) /\ s = Terminated(name)
  OBVIOUS
<1> PICK g, h : g = fdt_splice_struct_(mem, w, old, new) /\ h = Put(g, w, s)
  OBVIOUS
<1>1. \/ Returns(Failed("BADLAYOUT")) \/ Returns(Failed("NOSPACE"))
      \/ Editable(mem) /\ HasRoom(mem, old, new) /\ Returns(Done(h))
  BY Zenon DEF fdt_set_name
<1>2. CASE Editable(mem) /\ HasRoom(mem, old, new) /\ Returns(Done(h))
  <2>1. PICK total, rsv, n, struct, size, strs, sizestrs, at, N, D :
            IsFound(total, rsv, n, struct, size, strs, sizestrs, at, N, D)
    BY IsFoundAlways
  <2>2. IsStructOf(mem, at, size, D, N)
    BY <2>1 DEF IsFound
  <2>3. node \in DOMAIN D \ {size} /\ mem[at + node] = FDT_BEGIN_NODE
    BY <2>2, NodeIsFound
  <2>4. /\ At(mem, node) = at + node /\ at \in Nat /\ node \in Nat /\ D[node] \in Nat
        /\ FDT_TAGSIZE \in Nat \ {0}
    BY <2>1, <2>3, PlaceIs
  <2> PICK a, q, d, e : a = at + node /\ q = node + FDT_TAGSIZE + old /\ d = D[node] /\ e = d + 1
    OBVIOUS
  <2>5. w = at + node + FDT_TAGSIZE
    BY <2>4
  <2>6. len = Len(StringAt(mem, at + node + FDT_TAGSIZE))
    BY <2>5
  <2>7. q \in DOMAIN D /\ D[q] = e /\ len \in Nat
    BY <2>2, <2>3, <2>6, NodeIs
  <2>8. name \in Seq(Nat \ {0}) /\ Len(name) \in Nat
    BY ConstantsAreTyped
  <2>9. old \in Nat /\ new \in Nat /\ Len(name) + 1 <= new
    BY <2>7, <2>8, TagAlignIs
  <2>10. FDT_TAGSIZE \in Nat /\ node \in DOMAIN D /\ q = node + FDT_TAGSIZE + old /\ node <= q
    BY <2>3, <2>4, <2>9
  <2>11. /\ IsMemory(g) /\ w \in Nat /\ w + new <= MemSize
         /\ \A i \in (at + node)..(w - 1) : g[i] = mem[i]
    <3> PICK c : c = FDT_TAGSIZE
      OBVIOUS
    <3>1. /\ c \in Nat /\ old \in Nat /\ new \in Nat /\ q = node + c + old
          /\ node \in DOMAIN D /\ q \in DOMAIN D /\ w = at + node + c
      BY <2>5, <2>7, <2>9, <2>10
    <3>2. Editable(mem) /\ HasRoom(mem, old, new) /\ g = fdt_splice_struct_(mem, w, old, new)
      BY <1>2
    <3> HIDE DEF Editable, HasRoom
    <3> QED
      BY <2>1, <3>1, <3>2, SpliceIs
  <2>12. Len(s) = Len(name) + 1
    BY <2>8 DEF Terminated
  <2>13. IsMemory(h) /\ SameOutside(g, h, w, Len(s)) /\ Written(h, w, s)
    <3>1. Len(s) \in Nat /\ w + Len(s) <= MemSize
      BY <2>8, <2>9, <2>11, <2>12, TagSize
    <3> QED
      BY <2>11, <3>1, PutCells
  <2>14. SameOutside(g, h, a, FDT_TAGSIZE + new)
    <3>1. a \in Nat /\ w = a + FDT_TAGSIZE
      BY <2>4, <2>5
    <3>2. Len(s) \in Nat /\ Len(s) <= new
      BY <2>8, <2>9, <2>12
    <3> QED
      BY <2>4, <2>9, <2>13, <3>1, <3>2, OutsideFrom
  <2>15. h[a] = FDT_BEGIN_NODE
    <3>1. a \in (at + node)..(w - 1) /\ a \in 0..(MemSize - 1)
      BY <2>4, <2>5, <2>9, <2>11, TagSize
    <3>2. g[a] = mem[a]
      BY <2>11, <3>1
    <3>3. h[a] = g[a]
      BY <2>4, <2>5, <2>13, <3>1 DEF SameOutside
    <3> QED
      BY <2>3, <3>2, <3>3
  <2>16. Leads(h, a, FDT_TAGSIZE + new, N, d, d + 1)
    <3> PICK k : k = FDT_TAGSIZE + new
      OBVIOUS
    <3>1. k = FDT_TAGSIZE + TagAlign(Len(name) + 1) /\ a \in Int /\ d \in Nat
      BY <2>4
    <3>2. Written(h, a + FDT_TAGSIZE, Terminated(name))
      BY <2>5, <2>13
    <3>3. Leads(h, a, k, N, d, d + 1)
      BY <2>8, <2>15, <3>1, <3>2, BeginLeads
    <3> QED
      BY <3>3
  <2>17. IsRespliced(mem, h, at, node, q, FDT_TAGSIZE, old, new)
    <3>1. SameOutside(fdt_splice_struct_(mem, at + node + FDT_TAGSIZE, old, new), h,
                      at + node, FDT_TAGSIZE + new)
      BY <2>5, <2>14
    <3> QED
      BY <1>2, <2>9, <2>10, <2>13, <3>1 DEF IsRespliced
  <2>18. Leads(h, at + node, FDT_TAGSIZE + new, N, D[node], D[q])
    BY <2>7, <2>16
  <2>19. IsSomeBlob(h)
    BY <1>2, <2>1, <2>7, <2>10, <2>17, <2>18, RespliceIsSound
  <2> QED
    BY <1>2, <2>19, EditIsGood
<1> QED
  BY <1>1, <1>2, RefusalIsGood

SameOn(m, g, lo, hi) == \A i \in lo..(hi - 1) : g[i] = m[i]

(* The cells of a property at address a with room for a value of len cells, *)
(* its length at b and its value at w, written from v on                    *)
PropSizes(a, c, w, new, len, b, from, k, v, n) ==
    /\ a \in Nat /\ c = 3 * FDT_TAGSIZE /\ w = a + c /\ new \in Nat /\ w + new <= MemSize
    /\ len \in Nat /\ new = TagAlign(len) /\ b = a + FDT_TAGSIZE /\ from \in Nat
    /\ k \in Nat /\ from + k = len /\ v = w + from /\ n = c + new

(* The length and the value of a property written where there is room *)
LEMMA PropWritten ==
    ASSUME NEW m, NEW g, IsMemory(g), NEW a, NEW c, NEW w, NEW new, NEW len, NEW b, NEW from,
           NEW k, NEW v, NEW n, PropSizes(a, c, w, new, len, b, from, k, v, n),
           SameOn(m, g, a, w), NEW N, m[a] = FDT_PROP, m[a + 2 * FDT_TAGSIZE] \in N,
           NEW f, f = [g EXCEPT ![b] = len], NEW value, Len(value) = k,
           NEW h, h = Put(f, v, value), NEW d \in Nat
    PROVE  IsMemory(h) /\ SameOutside(g, h, a, n) /\ Leads(h, a, n, N, d, d)
<1> USE DEF PropSizes
<1>1. /\ FDT_TAGSIZE \in Nat \ {0} /\ MemSize \in Nat /\ len <= new
  BY TagSize, TagAlignIs
<1>2. /\ c \in Nat /\ w \in Nat /\ b \in Nat /\ a <= b /\ b < w /\ w <= MemSize
      /\ b \in 0..(MemSize - 1) /\ v \in Nat /\ v + k <= w + new /\ w <= v
  BY <1>1
<1>3. IsCellSet(g, f, b, len)
  BY <1>1, <1>2, CellSet
<1>4. IsMemory(f) /\ f[b] = len /\ \A i \in 0..(MemSize - 1) : i # b => f[i] = g[i]
  BY <1>3 DEF IsCellSet
<1>5. IsMemory(h) /\ SameOutside(f, h, v, k)
  <2>1. v + Len(value) <= MemSize
    BY <1>1, <1>2
  <2> QED
    BY <1>1, <1>2, <1>4, <2>1, PutCells
<1>6. \A i \in a..(w - 1) : i # b => h[i] = m[i]
  <2> SUFFICES ASSUME NEW i \in a..(w - 1), i # b PROVE h[i] = m[i]
    OBVIOUS
  <2>1. i \in 0..(MemSize - 1) /\ i < v
    BY <1>1, <1>2
  <2>2. h[i] = f[i]
    BY <1>5, <2>1 DEF SameOutside
  <2>3. g[i] = m[i]
    BY DEF SameOn
  <2> QED
    BY <1>4, <2>1, <2>2, <2>3
<1>7. h[b] = len
  <2>1. b \in 0..(MemSize - 1) /\ b < v
    BY <1>1, <1>2
  <2>2. h[b] = f[b]
    BY <1>5, <2>1 DEF SameOutside
  <2> QED
    BY <1>4, <2>2
<1>8. h[a] = FDT_PROP /\ h[a + 2 * FDT_TAGSIZE] \in N
  <2>1. a \in a..(w - 1) /\ a # b
    BY <1>1, <1>2
  <2>2. a + 2 * FDT_TAGSIZE \in a..(w - 1) /\ a + 2 * FDT_TAGSIZE # b
    BY <1>1, <1>2
  <2> QED
    BY <1>6, <2>1, <2>2
<1>9. Leads(h, a, n, N, d, d)
  <2>1. a \in Int /\ h[a + FDT_TAGSIZE] = len /\ n = 3 * FDT_TAGSIZE + TagAlign(len)
    BY <1>7
  <2> QED
    BY <1>8, <2>1, PropLeads
<1>11. /\ a \in Nat /\ c = 3 * FDT_TAGSIZE /\ w = a + c /\ new \in Nat
       /\ b = a + FDT_TAGSIZE /\ n = c + new /\ k \in Nat
  BY Zenon
<1>10. SameOutside(g, h, a, n)
  <2>1. SameOutside(f, h, a, n)
    <3>1. n \in Int /\ a <= v /\ v + k <= a + n
      BY ONLY <1>1, <1>2, <1>11
    <3> QED
      BY <1>1, <1>2, <1>5, <3>1, WiderOutside
  <2>2. SameOutside(g, f, a, n)
    <3>1. a <= b /\ b < a + n
      BY ONLY <1>1, <1>2, <1>11
    <3>2. \A i \in 0..(MemSize - 1) : i < a \/ a + n <= i => i # b
      BY ONLY <1>1, <1>2, <1>11, <3>1
    <3> QED
      BY <1>4, <3>2, Zenon DEF SameOutside
  <2> QED
    BY <2>1, <2>2, BothOutside
<1> QED
  BY <1>5, <1>9, <1>10

LEMMA ResizeIsSound ==
    ASSUME fdt # NULL, Good(mem, fdt), NEW node, NEW name,
           fdt_get_property(mem, node, name) # {}, Editable(mem),
           NEW prop, prop = Min(fdt_get_property(mem, node, name)),
           NEW from \in Nat, NEW value \in Values, NEW len, len = from + Len(value)
    PROVE  Sound(fdt_resize_property_(prop, len, from, value))
<1>1. PICK oldlen, old, new, w, g, f, h :
        /\ oldlen = LenOf(mem, prop) /\ old = TagAlign(oldlen) /\ new = TagAlign(len)
        /\ w = At(mem, prop) + 3 * FDT_TAGSIZE /\ g = fdt_splice_struct_(mem, w, old, new)
        /\ f = [g EXCEPT ![At(mem, prop) + FDT_TAGSIZE] = len] /\ h = Put(f, w + from, value)
  OBVIOUS
<1>2. fdt_resize_property_(prop, len, from, value)
          = IF ~HasRoom(mem, old, new) THEN Failed("NOSPACE") ELSE Done(h)
  BY <1>1, Zenon DEF fdt_resize_property_
<1>3. CASE HasRoom(mem, old, new)
  <2>1. PICK total, rsv, n, struct, size, strs, sizestrs, at, N, D :
            IsFound(total, rsv, n, struct, size, strs, sizestrs, at, N, D)
    BY IsFoundAlways
  <2>2. PICK a, q, d, c, b, v :
           /\ a = at + prop /\ q = prop + 3 * FDT_TAGSIZE + TagAlign(oldlen)
           /\ d = D[prop] /\ c = 3 * FDT_TAGSIZE /\ b = a + FDT_TAGSIZE /\ v = w + from
    OBVIOUS
  <2>3. /\ prop \in DOMAIN D /\ q \in DOMAIN D /\ D[prop] = D[q] /\ prop <= q
        /\ oldlen \in Nat /\ mem[at + prop] = FDT_PROP
        /\ mem[at + prop + 2 * FDT_TAGSIZE] \in N
    BY <1>1, <2>1, <2>2, PropIsFound
  <2>4. /\ At(mem, prop) = at + prop /\ at \in Nat /\ prop \in Nat /\ D[prop] \in Nat
        /\ FDT_TAGSIZE \in Nat \ {0}
    BY <2>1, <2>3, PlaceIs
  <2>5. PICK k : k = Len(value) /\ k \in Nat
    BY ConstantsAreTyped
  <2>6. len \in Nat /\ from + k = len
    BY <2>5
  <2>7. old \in Nat /\ new \in Nat
    BY <1>1, <2>3, <2>6, TagAlignIs
  <2>8. c \in Nat /\ q = prop + c + old /\ w = at + prop + c /\ w = a + c /\ a \in Nat
    <3>1. q = prop + 3 * FDT_TAGSIZE + old
      BY <1>1, <2>2, Zenon
    <3>2. w = at + prop + 3 * FDT_TAGSIZE
      BY <1>1, <2>4, Zenon
    <3>3. c = 3 * FDT_TAGSIZE /\ a = at + prop
      BY <2>2
    <3>4. c \in Nat /\ a \in Nat
      BY <2>4, <3>3
    <3>5. q = prop + c + old
      BY <3>1, <3>3, Zenon
    <3>6. w = at + prop + c /\ w = a + c
      BY <3>2, <3>3, Zenon
    <3> QED
      BY <3>4, <3>5, <3>6
  <2>9. g = fdt_splice_struct_(mem, w, old, new)
    BY <1>1
  <2>10. /\ IsMemory(g) /\ w \in Nat /\ w + new <= MemSize
         /\ \A i \in (at + prop)..(w - 1) : g[i] = mem[i]
    BY <1>3, <2>1, <2>3, <2>7, <2>8, <2>9, SpliceIs
  <2>11. f = [g EXCEPT ![b] = len] /\ h = Put(f, v, value)
    BY <1>1, <2>2, <2>4
  <2>12. IsMemory(h) /\ SameOutside(g, h, a, c + new) /\ Leads(h, a, c + new, N, d, d)
    <3> PICK more : more = c + new
      OBVIOUS
    <3>1. SameOn(mem, g, a, w)
      BY <2>2, <2>10 DEF SameOn
    <3>2. mem[a] = FDT_PROP /\ mem[a + 2 * FDT_TAGSIZE] \in N /\ d \in Nat
      BY <2>2, <2>3, <2>4
    <3>3. new = TagAlign(len) /\ c = 3 * FDT_TAGSIZE /\ b = a + FDT_TAGSIZE /\ v = w + from
      BY <1>1, <2>2
    <3>4. k \in Nat /\ Len(value) = k /\ from + k = len /\ len \in Nat /\ new \in Nat
      BY <2>5, <2>6, <2>7
    <3>5. IsMemory(g) /\ w + new <= MemSize /\ a \in Nat /\ w = a + c
      BY <2>8, <2>10
    <3>6. PropSizes(a, c, w, new, len, b, from, k, v, more)
      BY <3>3, <3>4, <3>5 DEF PropSizes
    <3>7. IsMemory(h) /\ SameOutside(g, h, a, more) /\ Leads(h, a, more, N, d, d)
      BY <2>11, <3>1, <3>2, <3>4, <3>5, <3>6, PropWritten
    <3> QED
      BY <3>7
  <2>13. IsRespliced(mem, h, at, prop, q, c, old, new)
    <3>1. SameOutside(fdt_splice_struct_(mem, at + prop + c, old, new), h, at + prop, c + new)
      BY <2>2, <2>8, <2>9, <2>12
    <3> QED
      BY <1>3, <2>7, <2>8, <2>12, <3>1 DEF IsRespliced
  <2>14. Leads(h, at + prop, c + new, N, D[prop], D[q])
    BY <2>2, <2>3, <2>12
  <2>15. IsSomeBlob(h)
    BY <2>1, <2>3, <2>13, <2>14, RespliceIsSound
  <2> QED
    BY <1>2, <1>3, <2>15, DoneIsSound
<1> QED
  BY <1>2, <1>3, FailedIsSound

(* Cells put where room is made before a tag *)
LEMMA InsertIsSound ==
    ASSUME NEW m, NEW total, NEW rsv, NEW n, NEW struct, NEW size, NEW strs, NEW sizestrs,
           Blob(m, fdt, total, rsv, n, struct, size, strs, sizestrs),
           Ordered(rsv, n, struct, size, strs),
           NEW at, at = fdt + struct, NEW N, N = StringsIn(m, fdt + strs, sizestrs),
           NEW D, IsStructOf(m, at, size, D, N), D[0] = 0, D[size] = 0, NEW o \in DOMAIN D,
           NEW k \in Nat, HasRoom(m, 0, k), NEW s, Len(s) \in Nat, Len(s) <= k,
           NEW a, a = at + o, NEW h, h = Put(fdt_splice_struct_(m, a, 0, k), a, s),
           Written(h, a, s) => Leads(h, a, k, N, D[o], D[o])
    PROVE  IsSomeBlob(h)
<1>1. PICK g : g = fdt_splice_struct_(m, a, 0, k)
  OBVIOUS
<1>2. IsRange(m, at, size, D, N, o, o)
  <2>1. o <= o
    BY StructIs DEF IsStructOf
  <2> QED
    BY <2>1 DEF IsStructOf, IsRange
<1>3. o \in Nat /\ size \in Nat /\ o <= size /\ D[o] \in Nat
  BY <1>2, RangeIs
<1>4. /\ fdt \in Nat /\ struct \in Nat /\ strs \in Nat /\ struct + size + FDT_TAGSIZE <= strs
      /\ FDT_TAGSIZE \in Nat
  BY TagSize DEF Blob, Shape, Fit, Ordered
<1>5. a \in Nat /\ fdt + struct <= a /\ a + 0 <= fdt + strs
  BY <1>3, <1>4
<1>6. IsMemory(g) /\ a + k <= MemSize
  BY <1>1, <1>5, SplicedBefore
<1>7. PICK len : len = Len(s) /\ len \in Nat /\ len <= k
  OBVIOUS
<1>8. IsMemory(h) /\ SameOutside(g, h, a, len) /\ Written(h, a, s)
  <2>1. a + Len(s) <= MemSize
    BY <1>5, <1>6, <1>7, TagSize
  <2> QED
    BY <1>1, <1>5, <1>6, <1>7, <2>1, PutCells
<1>9. SameOutside(g, h, a, k)
  <2>1. a \in Int /\ len \in Int /\ k \in Int /\ a <= a /\ a + len <= a + k
    BY <1>5, <1>7
  <2> QED
    BY <1>8, <2>1, WiderOutside
<1>10. IsRespliced(m, h, at, o, o, 0, 0, k)
  <2>1. at + o + 0 = a /\ 0 + k = k /\ o = o + 0 + 0 /\ at + o = a
    BY <1>3, <1>4
  <2>2. SameOutside(fdt_splice_struct_(m, at + o + 0, 0, k), h, at + o, 0 + k)
    BY <1>1, <1>9, <2>1
  <2> QED
    BY <1>8, <2>1, <2>2 DEF IsRespliced
<1>11. Leads(h, at + o, 0 + k, N, D[o], D[o])
  <2>1. at + o = a /\ 0 + k = k
    OBVIOUS
  <2> QED
    BY <1>8, <2>1
<1> QED
  BY <1>2, <1>10, <1>11, StructRespliced

LEMMA PropCellsLead ==
    ASSUME NEW len \in Nat, NEW off, NEW s, PropRecord(s, len, off),
           NEW h, NEW a \in Nat, Written(h, a, s), NEW M, off \in M,
           NEW k, k = 3 * FDT_TAGSIZE + TagAlign(len), NEW d \in Nat
    PROVE  Leads(h, a, k, M, d, d)
<1>1. FDT_TAGSIZE \in Nat \ {0}
  BY TagSize
<1> USE DEF PropRecord
<1>2. PICK l : l = Len(s) /\ l \in Nat /\ 2 * FDT_TAGSIZE + 1 <= l
  BY <1>1
<1>3. \A i \in 1..l : h[a + (i - 1)] = s[i]
  BY <1>2 DEF Written
<1>4. h[a] = FDT_PROP
  <2>1. 1 \in 1..l /\ a + (1 - 1) = a
    BY <1>1, <1>2
  <2> QED
    BY <1>3, <2>1
<1>5. h[a + FDT_TAGSIZE] = len
  <2>1. FDT_TAGSIZE + 1 \in 1..l /\ a + ((FDT_TAGSIZE + 1) - 1) = a + FDT_TAGSIZE
    BY <1>1, <1>2
  <2> QED
    BY <1>3, <2>1
<1>6. h[a + 2 * FDT_TAGSIZE] \in M
  <2>1. /\ 2 * FDT_TAGSIZE + 1 \in 1..l
        /\ a + ((2 * FDT_TAGSIZE + 1) - 1) = a + 2 * FDT_TAGSIZE
    BY <1>1, <1>2
  <2> QED
    BY <1>3, <2>1
<1>7. a \in Int
  OBVIOUS
<1> QED
  BY <1>4, <1>5, <1>6, <1>7, PropLeads

(* Blocks whose cells stay as they were *)
LEMMA BlocksStay ==
    ASSUME NEW m, NEW f, NEW total, NEW rsv, NEW n, NEW struct, NEW size, NEW strs,
           NEW sizestrs, Blob(m, f, total, rsv, n, struct, size, strs, sizestrs), NEW g,
           \A i \in 0..(MemSize - 1) :
              f + 8 <= i /\ InUse(i, f, rsv, n, struct, size, strs, sizestrs) => g[i] = m[i]
    PROVE  /\ Moved(m, f + rsv, g, f + rsv, 2 * n + 2)
           /\ Moved(m, f + struct, g, f + struct, size + FDT_TAGSIZE)
           /\ Moved(m, f + strs, g, f + strs, sizestrs)
<1>1. /\ f \in Nat /\ Fit(total, rsv, n, struct, size, strs, sizestrs) /\ f + total <= MemSize
      /\ FDT_TAGSIZE \in Nat \ {0} /\ MemSize \in Nat
  BY TagSize DEF Blob, Shape
<1>2. ASSUME NEW x \in 0..((2 * n + 2) - 1)
      PROVE  g[f + rsv + x] = m[f + rsv + x]
  <2>1. PICK i : i = f + rsv + x
    OBVIOUS
  <2>2. /\ i \in 0..(MemSize - 1) /\ f + 8 <= i
        /\ f + rsv <= i /\ i < f + rsv + 2 * n + 2
    BY <1>1, <2>1 DEF Fit
  <2>3. InUse(i, f, rsv, n, struct, size, strs, sizestrs)
    BY <2>2 DEF InUse
  <2> QED
    BY <2>1, <2>2, <2>3
<1>3. ASSUME NEW x \in 0..((size + FDT_TAGSIZE) - 1)
      PROVE  g[f + struct + x] = m[f + struct + x]
  <2>1. PICK i : i = f + struct + x
    OBVIOUS
  <2>2. /\ i \in 0..(MemSize - 1) /\ f + 8 <= i
        /\ f + struct <= i /\ i < f + struct + size + FDT_TAGSIZE
    BY <1>1, <2>1 DEF Fit
  <2>3. InUse(i, f, rsv, n, struct, size, strs, sizestrs)
    BY <2>2 DEF InUse
  <2> QED
    BY <2>1, <2>2, <2>3
<1>4. ASSUME NEW x \in 0..(sizestrs - 1)
      PROVE  g[f + strs + x] = m[f + strs + x]
  <2>1. PICK i : i = f + strs + x
    OBVIOUS
  <2>2. /\ i \in 0..(MemSize - 1) /\ f + 8 <= i
        /\ f + strs <= i /\ i < f + strs + sizestrs
    BY <1>1, <2>1 DEF Fit
  <2>3. InUse(i, f, rsv, n, struct, size, strs, sizestrs)
    BY <2>2 DEF InUse
  <2> QED
    BY <2>1, <2>2, <2>3
<1>5. Moved(m, f + rsv, g, f + rsv, 2 * n + 2)
  BY <1>2, Zenon DEF Moved
<1>6. Moved(m, f + struct, g, f + struct, size + FDT_TAGSIZE)
  BY <1>3, Zenon DEF Moved
<1>7. Moved(m, f + strs, g, f + strs, sizestrs)
  BY <1>4, Zenon DEF Moved
<1> QED
  BY <1>5, <1>6, <1>7

SameUpTo(m, g, lo, hi) == \A i \in 0..(MemSize - 1) : lo <= i /\ i < hi => g[i] = m[i]

(* More strings behind the ones of an ordered blob *)
LEMMA StringsGrow ==
    ASSUME NEW m, NEW total, NEW rsv, NEW n, NEW struct, NEW size, NEW strs, NEW sizestrs,
           Blob(m, fdt, total, rsv, n, struct, size, strs, sizestrs),
           Ordered(rsv, n, struct, size, strs), NEW more \in Nat, sizestrs <= more,
           strs + more <= total, NEW g, IsMemory(g),
           InHeader(g, fdt, total, rsv, struct, size, strs, more),
           SameUpTo(m, g, fdt + 8, fdt + strs + sizestrs),
           NEW at, at = fdt + struct, NEW N, N = StringsIn(m, fdt + strs, sizestrs), NEW D,
           IsStructOf(m, at, size, D, N), NEW M, M = StringsIn(g, fdt + strs, more)
    PROVE  /\ Blob(g, fdt, total, rsv, n, struct, size, strs, more)
           /\ IsStructOf(g, at, size, D, M) /\ N \subseteq M
<1>1. /\ fdt \in Nat /\ Fit(total, rsv, n, struct, size, strs, sizestrs)
      /\ fdt + total <= MemSize /\ InBuffer(fdt, total)
      /\ Holds(m, fdt, rsv, n, struct, size, strs, sizestrs)
      /\ FDT_TAGSIZE \in Nat \ {0} /\ MemSize \in Nat
  BY TagSize DEF Blob, Shape
<1>2. /\ total \in Nat /\ rsv \in Nat /\ n \in Nat /\ struct \in Nat /\ size \in Nat
      /\ strs \in Nat /\ sizestrs \in Nat
  BY <1>1 DEF Fit
<1>3. /\ Moved(m, fdt + rsv, g, fdt + rsv, 2 * n + 2)
      /\ Moved(m, fdt + struct, g, fdt + struct, size + FDT_TAGSIZE)
      /\ Moved(m, fdt + strs, g, fdt + strs, sizestrs)
  <2>1. ASSUME NEW i \in 0..(MemSize - 1), fdt + 8 <= i,
               InUse(i, fdt, rsv, n, struct, size, strs, sizestrs)
        PROVE  g[i] = m[i]
    <3>1. i < fdt + strs + sizestrs
      BY <1>1, <1>2, <2>1 DEF InUse, Fit, Ordered
    <3> QED
      BY <2>1, <3>1 DEF SameUpTo
  <2> QED
    BY <2>1, BlocksStay
<1>4. N \subseteq M
  <2>1. fdt + strs \in Int
    BY <1>1, <1>2
  <2> QED
    BY <1>2, <1>3, <2>1, StringsMove
<1>5. Moved(m, at, g, at, size) /\ Moved(m, at, g, at, size + FDT_TAGSIZE) /\ at \in Nat
  BY <1>1, <1>2, <1>3, MovedLess
<1>6. IsStruct(m, at, size, D, N) /\ IsStruct(g, at, size, D, M)
  <2>1. IsStruct(m, at, size, D, N)
    BY DEF IsStructOf
  <2>2. \A x \in 0..(size - 1) : g[at + x] = m[at + x]
    BY <1>5 DEF Moved
  <2> QED
    BY <1>4, <1>5, <2>1, <2>2, StructMoves
<1>7. g[at + size] = FDT_END
  <2>1. m[at + size] = FDT_END
    BY DEF IsStructOf
  <2>2. size \in 0..((size + FDT_TAGSIZE) - 1)
    BY <1>1, <1>2
  <2>3. \A x \in 0..((size + FDT_TAGSIZE) - 1) : g[at + x] = m[at + x]
    BY <1>5, Zenon DEF Moved
  <2> QED
    BY <2>1, <2>2, <2>3, Zenon
<1>8. IsReserved(g, fdt + rsv, n)
  <2>1. IsReserved(m, fdt + rsv, n) /\ fdt + rsv \in Int
    BY <1>1, <1>2 DEF Holds
  <2> QED
    BY <1>2, <1>3, <2>1, ReservedMoves
<1>9. Holds(g, fdt, rsv, n, struct, size, strs, more)
  <2>1. IsTree(m, at, size, N)
    BY <1>1 DEF Holds
  <2>2. IsTree(g, at, size, M)
    BY <1>4, <1>5, <2>1, TreeMoves
  <2> QED
    BY <1>7, <1>8, <2>2 DEF Holds
<1>10. Fit(total, rsv, n, struct, size, strs, more)
  BY <1>1, <1>2 DEF Fit, Ordered
<1>11. Blob(g, fdt, total, rsv, n, struct, size, strs, more)
  BY <1>1, <1>9, <1>10 DEF Blob, Shape
<1>12. IsStructOf(g, at, size, D, M)
  <2>1. off_dt_struct(g) = struct /\ size_dt_struct(g) = size + FDT_TAGSIZE
    BY <1>11, BlobFields
  <2>2. at + (size + FDT_TAGSIZE) <= MemSize
    BY <1>1, <1>2 DEF Fit
  <2> QED
    BY <1>5, <1>6, <1>7, <2>1, <2>2 DEF IsStructOf
<1> QED
  BY <1>4, <1>11, <1>12

(* A string put behind the others, and its size counted as v *)
IsNamed(m, g, e, name, v) ==
    /\ IsMemory(g) /\ g[fdt + 6] = v
    /\ \A i \in 0..(MemSize - 1) : i < e /\ i # fdt + 6 => g[i] = m[i]
    /\ g[e + Len(name)] = 0

LEMMA StringPut ==
    ASSUME NEW m, IsMemory(m), fdt \in Nat, NEW e \in Nat, fdt + 8 <= e,
           NEW name, name \in PropNames, e + (Len(name) + 1) <= MemSize, NEW v
    PROVE  IsNamed(m, With(Put(m, e, Terminated(name)), "size_dt_strings", v), e, name, v)
<1>1. PICK s, h, g, len : /\ s = Terminated(name) /\ h = Put(m, e, s) /\ len = Len(name)
                          /\ g = With(h, "size_dt_strings", v)
  OBVIOUS
<1>2. len \in Nat /\ Len(s) = len + 1 /\ s[len + 1] = 0 /\ MemSize \in Nat
  <2>1. name \in Seq(Nat \ {0})
    BY ConstantsAreTyped
  <2>2. Len(Append(name, 0)) = Len(name) + 1 /\ Append(name, 0)[Len(name) + 1] = 0
    BY <2>1
  <2> QED
    BY <1>1, <2>1, <2>2, TagSize DEF Terminated
<1>3. IsMemory(h) /\ SameOutside(m, h, e, Len(s)) /\ Written(h, e, s)
  <2>1. Len(s) \in Nat /\ e + Len(s) <= MemSize
    BY <1>1, <1>2
  <2> QED
    BY <1>1, <2>1, PutCells
<1>4. IsCellSet(h, g, fdt + 6, v)
  <2>1. Fields["size_dt_strings"] = 6 /\ 6 \in 0..7 /\ fdt + 8 <= MemSize
    BY <1>1, <1>2, FieldNumbers
  <2> QED
    BY <1>1, <1>3, <2>1, FieldSet
<1>5. IsMemory(g) /\ g[fdt + 6] = v /\ \A i \in 0..(MemSize - 1) : i # fdt + 6 => g[i] = h[i]
  BY <1>4 DEF IsCellSet
<1>6. \A i \in 0..(MemSize - 1) : i < e => h[i] = m[i]
  BY <1>3 DEF SameOutside
<1>7. g[e + len] = 0
  <2>1. len + 1 \in 1..Len(s) /\ e + ((len + 1) - 1) = e + len
    BY <1>2
  <2>2. h[e + len] = 0
    BY <1>2, <1>3, <2>1 DEF Written
  <2>3. e + len \in 0..(MemSize - 1) /\ e + len # fdt + 6
    BY <1>1, <1>2
  <2> QED
    BY <1>5, <2>2, <2>3
<1> QED
  BY <1>1, <1>5, <1>6, <1>7 DEF IsNamed

(* The string's offset is one of a string in the block. *)
LEMMA NamedIs ==
    ASSUME NEW total, NEW rsv, NEW n, NEW struct, NEW size, NEW strs, NEW sizestrs, NEW at,
           NEW N, NEW D, IsFound(total, rsv, n, struct, size, strs, sizestrs, at, N, D),
           Editable(mem), NEW name, name \in PropNames, StringPlaces(mem, name) = {},
           HasRoom(mem, 0, Len(name) + 1),
           NEW e, e = fdt + (strs + sizestrs)
    PROVE  /\ fdt \in Nat /\ IsMemory(mem) /\ e \in Nat /\ fdt + 8 <= e /\ Len(name) \in Nat
           /\ e + (Len(name) + 1) <= fdt + total /\ fdt + total <= MemSize
           /\ Fit(total, rsv, n, struct, size, strs, sizestrs)
           /\ Ordered(rsv, n, struct, size, strs)
           /\ WithString(mem, name) = With(Put(mem, e, Terminated(name)), "size_dt_strings",
                                           sizestrs + Len(name) + 1)
           /\ IsNamed(mem, WithString(mem, name), e, name, sizestrs + Len(name) + 1)
<1>1. Blob(mem, fdt, total, rsv, n, struct, size, strs, sizestrs)
  BY DEF IsFound
<1>2. /\ fdt \in Nat /\ fdt + total <= MemSize /\ IsMemory(mem)
      /\ Fit(total, rsv, n, struct, size, strs, sizestrs)
  BY <1>1 DEF Blob, Shape
<1>3. Ordered(rsv, n, struct, size, strs)
  BY <1>1, EditableIsOrdered
<1>4. /\ totalsize(mem) = total /\ fdt_data_size_(mem) = strs + sizestrs
      /\ size_dt_strings(mem) = sizestrs
  BY <1>1, BlobFields
<1>5. PICK len : len = Len(name) /\ len \in Nat
  BY ConstantsAreTyped
<1>6. strs \in Nat /\ sizestrs \in Nat /\ total \in Nat /\ 8 <= strs
  BY <1>2 DEF Fit
<1>7. (strs + sizestrs) - 0 + (len + 1) <= total
  BY <1>4, <1>5, Zenon DEF HasRoom
<1>8. e \in Nat /\ fdt + 8 <= e /\ e + (len + 1) <= fdt + total
  BY <1>2, <1>5, <1>6, <1>7
<1>9. WithString(mem, name) = With(Put(mem, e, Terminated(name)), "size_dt_strings",
                                   sizestrs + Len(name) + 1)
  BY <1>4, Zenon DEF WithString
<1>10. PICK v : v = sizestrs + Len(name) + 1
  OBVIOUS
<1>11. e + (Len(name) + 1) <= MemSize
  BY <1>2, <1>5, <1>6, <1>8, TagSize
<1>12. IsNamed(mem, With(Put(mem, e, Terminated(name)), "size_dt_strings", v), e, name, v)
  BY <1>2, <1>8, <1>11, StringPut
<1>13. IsNamed(mem, WithString(mem, name), e, name, v)
  BY <1>9, <1>10, <1>12, Zenon
<1> QED
  BY <1>2, <1>3, <1>5, <1>8, <1>9, <1>10, <1>13

(* The offset of a string that is there already *)
LEMMA PlaceOfString ==
    ASSUME fdt \in Nat, NEW strs \in Nat, strs = off_dt_strings(mem), NEW sizestrs \in Nat,
           sizestrs = size_dt_strings(mem), NEW name, name \in PropNames,
           StringPlaces(mem, name) # {}
    PROVE  StringOffset(mem, name) \in StringsIn(mem, fdt + strs, sizestrs)
<1>1. PICK len, s : len = Len(name) /\ s = Terminated(name)
  OBVIOUS
<1>2. len \in Nat /\ s[len + 1] = 0
  <2>1. name \in Seq(Nat \ {0})
    BY ConstantsAreTyped
  <2>2. Append(name, 0)[Len(name) + 1] = 0 /\ Len(name) \in Nat
    BY <2>1
  <2> QED
    BY <1>1, <2>2 DEF Terminated
<1>3. PICK P : P = StringPlaces(mem, name)
  OBVIOUS
<1>4. P = {i \in 0..(sizestrs - len - 1) : Cells(mem, fdt + strs + i, len + 1) = s}
  BY <1>1, <1>3, Zenon DEF StringPlaces
<1>5. P \subseteq Nat /\ P # {}
  BY <1>3, <1>4
<1>6. PICK i \in P : \A j \in P : i <= j
  BY <1>5, LeastOf
<1>7. Min(P) \in P
  BY <1>6, Zenon DEF Min
<1>8. PICK o : o = Min(P)
  OBVIOUS
<1>9. StringOffset(mem, name) = o
  BY <1>3, <1>8, Zenon DEF StringOffset
<1>10. o \in 0..(sizestrs - len - 1) /\ Cells(mem, fdt + strs + o, len + 1) = s
  BY <1>4, <1>7, <1>8
<1>11. mem[fdt + strs + (o + len)] = 0
  <2>1. PICK a : a = fdt + strs + o
    OBVIOUS
  <2>2. Cells(mem, a, len + 1)[len + 1] = mem[a + (len + 1) - 1]
    BY <1>2 DEF Cells
  <2> QED
    BY <1>2, <1>10, <2>1, <2>2
<1>12. o \in 0..(sizestrs - 1) /\ o + len \in o..(sizestrs - 1)
  BY <1>2, <1>10
<1> QED
  BY <1>9, <1>11, <1>12 DEF StringsIn

LEMMA NamedIsBlob ==
    ASSUME NEW total, NEW rsv, NEW n, NEW struct, NEW size, NEW strs, NEW sizestrs, NEW at,
           NEW N, NEW D, IsFound(total, rsv, n, struct, size, strs, sizestrs, at, N, D),
           Editable(mem), NEW name, name \in PropNames,
           StringPlaces(mem, name) # {} \/ HasRoom(mem, 0, Len(name) + 1),
           NEW named, named = WithString(mem, name)
    PROVE  \E more, M : /\ Blob(named, fdt, total, rsv, n, struct, size, strs, more)
                        /\ M = StringsIn(named, fdt + strs, more)
                        /\ IsStructOf(named, at, size, D, M)
                        /\ StringOffset(mem, name) \in M
<1>1. /\ Blob(mem, fdt, total, rsv, n, struct, size, strs, sizestrs)
      /\ at = fdt + struct /\ N = StringsIn(mem, fdt + strs, sizestrs)
      /\ IsStructOf(mem, at, size, D, N)
  BY DEF IsFound
<1>2. CASE StringPlaces(mem, name) # {}
  <2>1. named = mem
    BY <1>2, Zenon DEF WithString
  <2>2. /\ off_dt_strings(mem) = strs /\ size_dt_strings(mem) = sizestrs /\ sizestrs \in Nat
        /\ strs \in Nat /\ fdt \in Nat
    BY <1>1, BlobFields DEF Blob, Shape, Fit
  <2>3. StringOffset(mem, name) \in N
    BY <1>1, <1>2, <2>2, PlaceOfString
  <2> QED
    BY <1>1, <2>1, <2>3
<1>3. CASE StringPlaces(mem, name) = {} /\ HasRoom(mem, 0, Len(name) + 1)
  <2>1. PICK e, more, M : /\ e = fdt + (strs + sizestrs) /\ more = sizestrs + Len(name) + 1
                          /\ M = StringsIn(named, fdt + strs, more)
    OBVIOUS
  <2>2. /\ fdt \in Nat /\ IsMemory(mem) /\ e \in Nat /\ fdt + 8 <= e /\ Len(name) \in Nat
        /\ e + (Len(name) + 1) <= fdt + total /\ fdt + total <= MemSize
        /\ Fit(total, rsv, n, struct, size, strs, sizestrs)
        /\ Ordered(rsv, n, struct, size, strs)
        /\ IsNamed(mem, named, e, name, more)
    BY <1>3, <2>1, NamedIs
  <2>3. PICK len : len = Len(name) /\ len \in Nat
    BY <2>2
  <2>4. /\ rsv \in Nat /\ n \in Nat /\ struct \in Nat /\ size \in Nat /\ strs \in Nat
        /\ sizestrs \in Nat /\ total \in Nat /\ MemSize \in Nat
    BY <2>2, TagSize DEF Fit
  <2>5. more \in Nat /\ sizestrs <= more /\ strs + more <= total /\ more = sizestrs + (len + 1)
    BY <2>1, <2>2, <2>3, <2>4
  <2>6. /\ IsMemory(named) /\ named[fdt + 6] = more
        /\ \A i \in 0..(MemSize - 1) : i < e /\ i # fdt + 6 => named[i] = mem[i]
        /\ named[e + len] = 0
    BY <2>2, <2>3 DEF IsNamed
  <2>7. InHeader(named, fdt, total, rsv, struct, size, strs, more)
    <3>1. InHeader(mem, fdt, total, rsv, struct, size, strs, sizestrs)
      BY <1>1 DEF Blob, Shape
    <3>2. \A k \in {1, 2, 3, 4, 7} : fdt + k \in 0..(MemSize - 1) /\ fdt + k < e /\ fdt + k # fdt + 6
      BY <2>2, <2>3, <2>4
    <3>3. \A k \in {1, 2, 3, 4, 7} : named[fdt + k] = mem[fdt + k]
      BY <2>6, <3>2
    <3> QED
      BY <2>6, <3>1, <3>3 DEF InHeader
  <2>8. SameUpTo(mem, named, fdt + 8, fdt + strs + sizestrs)
    <3>1. fdt + strs + sizestrs = e
      BY <2>1, <2>2, <2>4
    <3>2. \A i \in 0..(MemSize - 1) : fdt + 8 <= i /\ i < e => named[i] = mem[i]
      <4>1. TAKE i \in 0..(MemSize - 1)
      <4>2. HAVE fdt + 8 <= i /\ i < e
      <4>3. i # fdt + 6
        BY ONLY <2>2, <4>1, <4>2
      <4> QED
        BY <2>6, <4>1, <4>2, <4>3, Zenon
    <3> QED
      BY <3>1, <3>2, Zenon DEF SameUpTo
  <2>9. /\ Blob(named, fdt, total, rsv, n, struct, size, strs, more)
        /\ IsStructOf(named, at, size, D, M)
    BY <1>1, <2>1, <2>2, <2>5, <2>6, <2>7, <2>8, StringsGrow
  <2>10. StringOffset(mem, name) \in M
    <3>1. size_dt_strings(mem) = sizestrs
      BY <1>1, BlobFields
    <3>2. StringOffset(mem, name) = sizestrs
      BY <1>3, <3>1, Zenon DEF StringOffset
    <3>3. sizestrs \in 0..(more - 1) /\ sizestrs + len \in sizestrs..(more - 1)
      BY <2>3, <2>4, <2>5
    <3>4. fdt + strs + (sizestrs + len) = e + len
      BY <2>1, <2>2, <2>3, <2>4
    <3> QED
      BY <2>1, <2>6, <3>2, <3>3, <3>4 DEF StringsIn
  <2> QED
    BY <2>1, <2>9, <2>10
<1> QED
  BY <1>2, <1>3

(* Without the string the blob is as it was. *)
LEMMA RolledBackIs ==
    ASSUME fdt # NULL, Good(mem, fdt), Editable(mem), NEW name, name \in PropNames,
           StringPlaces(mem, name) = {}, HasRoom(mem, 0, Len(name) + 1),
           NEW r, r = RolledBack(WithString(mem, name), name, TRUE)
    PROVE  IsSomeBlob(r) /\ Kept(r, fdt) = mem
<1>1. PICK total, rsv, n, struct, size, strs, sizestrs, at, N, D :
          IsFound(total, rsv, n, struct, size, strs, sizestrs, at, N, D)
  BY IsFoundAlways
<1>2. /\ Blob(mem, fdt, total, rsv, n, struct, size, strs, sizestrs)
      /\ at = fdt + struct /\ N = StringsIn(mem, fdt + strs, sizestrs)
      /\ IsStructOf(mem, at, size, D, N)
  BY <1>1 DEF IsFound
<1>3. PICK e, more, named :
         /\ e = fdt + (strs + sizestrs) /\ more = sizestrs + Len(name) + 1
         /\ named = WithString(mem, name)
  OBVIOUS
<1>4. /\ fdt \in Nat /\ IsMemory(mem) /\ e \in Nat /\ fdt + 8 <= e /\ Len(name) \in Nat
      /\ e + (Len(name) + 1) <= fdt + total /\ fdt + total <= MemSize
      /\ Fit(total, rsv, n, struct, size, strs, sizestrs)
      /\ Ordered(rsv, n, struct, size, strs)
      /\ IsNamed(mem, named, e, name, more)
  BY <1>1, <1>3, NamedIs
<1>5. /\ rsv \in Nat /\ n \in Nat /\ struct \in Nat /\ size \in Nat /\ strs \in Nat
      /\ sizestrs \in Nat /\ total \in Nat /\ MemSize \in Nat
  BY <1>4, TagSize DEF Fit
<1>6. /\ IsMemory(named) /\ named[fdt + 6] = more
      /\ \A i \in 0..(MemSize - 1) : i < e /\ i # fdt + 6 => named[i] = mem[i]
  BY <1>4 DEF IsNamed
<1>7. PICK v : v = size_dt_strings(named) - (Len(name) + 1)
  OBVIOUS
<1>8. v = sizestrs
  <2>1. size_dt_strings(named) = named[fdt + 6]
    BY FieldNumbers, Zenon DEF size_dt_strings, Field
  <2> QED
    BY <1>3, <1>4, <1>5, <1>6, <1>7, <2>1
<1>9. r = With(named, "size_dt_strings", v)
  BY <1>3, <1>7, Zenon DEF RolledBack
<1>10. IsCellSet(named, r, fdt + 6, v)
  <2>1. Fields["size_dt_strings"] = 6 /\ 6 \in 0..7 /\ fdt + 8 <= MemSize
    BY <1>4, <1>5, FieldNumbers
  <2> QED
    BY <1>4, <1>6, <1>9, <2>1, FieldSet
<1>11. IsMemory(r) /\ r[fdt + 6] = sizestrs
  BY <1>8, <1>10 DEF IsCellSet
<1>12. InHeader(mem, fdt, total, rsv, struct, size, strs, sizestrs)
  BY <1>2 DEF Blob, Shape
<1>13. \A i \in 0..(MemSize - 1) : i < e => r[i] = mem[i]
  <2> SUFFICES ASSUME NEW i \in 0..(MemSize - 1), i < e PROVE r[i] = mem[i]
    OBVIOUS
  <2>1. CASE i = fdt + 6
    BY <1>11, <1>12, <2>1 DEF InHeader
  <2>2. CASE i # fdt + 6
    <3>1. r[i] = named[i]
      BY <1>10, <2>2 DEF IsCellSet
    <3> QED
      BY <1>6, <2>2, <3>1
  <2> QED
    BY <2>1, <2>2
<1>14. InHeader(r, fdt, total, rsv, struct, size, strs, sizestrs)
  <2>1. \A k \in {1, 2, 3, 4, 6, 7} : fdt + k \in 0..(MemSize - 1) /\ fdt + k < e
    BY <1>4, <1>5
  <2>2. \A k \in {1, 2, 3, 4, 6, 7} : r[fdt + k] = mem[fdt + k]
    BY <1>13, <2>1
  <2> QED
    BY <1>12, <2>2 DEF InHeader
<1>15. Blob(r, fdt, total, rsv, n, struct, size, strs, sizestrs)
  <2>1. fdt + strs + sizestrs = e
    BY <1>3, <1>4, <1>5
  <2>2. SameUpTo(mem, r, fdt + 8, fdt + strs + sizestrs)
    BY <1>13, <2>1 DEF SameUpTo
  <2>3. PICK same : same = sizestrs
    OBVIOUS
  <2>4. /\ same \in Nat /\ sizestrs <= same /\ strs + same <= total
        /\ InHeader(r, fdt, total, rsv, struct, size, strs, same)
    <3>1. strs + sizestrs <= total
      BY <1>4 DEF Fit
    <3>2. sizestrs <= sizestrs /\ sizestrs \in Nat
      BY <1>5
    <3> QED
      BY <1>14, <2>3, <3>1, <3>2, Zenon
  <2>5. PICK M : M = StringsIn(r, fdt + strs, same)
    OBVIOUS
  <2>6. Blob(r, fdt, total, rsv, n, struct, size, strs, same)
    <3>1. IsMemory(r) /\ Ordered(rsv, n, struct, size, strs)
      BY <1>4, <1>11
    <3> QED
      BY ONLY <1>2, <2>2, <2>4, <2>5, <3>1, StringsGrow
  <2> QED
    BY <2>3, <2>6
<1>16. Kept(r, fdt) = Kept(mem, fdt)
  <2>1. ASSUME NEW i \in 0..(MemSize - 1), InUse(i, fdt, rsv, n, struct, size, strs, sizestrs)
        PROVE  r[i] = mem[i]
    <3>1. i < e
      BY <1>3, <1>4, <1>5, <2>1, TagSize DEF InUse, Fit, Ordered
    <3> QED
      BY <1>13, <2>1, <3>1
  <2>2. SameInUse(mem, r, fdt, rsv, n, struct, size, strs, sizestrs)
    BY <2>1 DEF SameInUse
  <2> QED
    BY <1>2, <1>15, <2>2, SameIsKept
<1>17. Kept(mem, fdt) = mem
  BY DEF Good
<1> QED
  BY <1>15, <1>16, <1>17 DEF IsSomeBlob

(* The tag after a node's, where its properties begin *)
LEMMA FirstIs ==
    ASSUME NEW m, NEW at, NEW size, NEW D, NEW N, IsStructOf(m, at, size, D, N),
           NEW node \in DOMAIN D \ {size}
    PROVE  NextTag(m, node).next \in DOMAIN D
<1>1. PICK next \in DOMAIN D : NextTag(m, node) = [tag |-> m[at + node], next |-> next]
  BY StructTags
<1> QED
  BY <1>1

LEMMA AddPropertyIsSound ==
    ASSUME fdt # NULL, Good(mem, fdt), NEW node \in NodeOffsets(mem), NEW name,
           name \in PropNames, NEW value \in Values, Editable(mem)
    PROVE  Sound(fdt_add_property_(node, name, value))
<1>1. PICK named, o, k, off, s, h :
         /\ named = WithString(mem, name) /\ o = NextTag(mem, node).next
         /\ k = 3 * FDT_TAGSIZE + TagAlign(Len(value)) /\ off = StringOffset(mem, name)
         /\ s = Word(FDT_PROP) \o Word(Len(value)) \o Word(off) \o value
         /\ h = Put(fdt_splice_struct_(named, At(mem, o), 0, k), At(mem, o), s)
  OBVIOUS
<1>2. fdt_add_property_(node, name, value)
         = IF StringPlaces(mem, name) = {} /\ ~HasRoom(mem, 0, Len(name) + 1)
           THEN Failed("NOSPACE")
           ELSE IF ~HasRoom(named, 0, k)
           THEN [ret |-> "NOSPACE",
                 mem |-> RolledBack(named, name, StringPlaces(mem, name) = {})]
           ELSE Done(h)
  BY <1>1, Zenon DEF fdt_add_property_
<1>3. PICK total, rsv, n, struct, size, strs, sizestrs, at, N, D :
          IsFound(total, rsv, n, struct, size, strs, sizestrs, at, N, D)
  BY IsFoundAlways
<1>4. /\ Blob(mem, fdt, total, rsv, n, struct, size, strs, sizestrs)
      /\ at = fdt + struct /\ N = StringsIn(mem, fdt + strs, sizestrs)
      /\ IsStructOf(mem, at, size, D, N) /\ D[0] = 0 /\ D[size] = 0
  BY <1>3 DEF IsFound
<1>5. CASE StringPlaces(mem, name) = {} /\ ~HasRoom(mem, 0, Len(name) + 1)
  BY <1>2, <1>5, FailedIsSound
<1>6. CASE /\ StringPlaces(mem, name) # {} \/ HasRoom(mem, 0, Len(name) + 1)
           /\ ~HasRoom(named, 0, k)
  <2>1. PICK r : r = RolledBack(named, name, StringPlaces(mem, name) = {})
    OBVIOUS
  <2>2. fdt_add_property_(node, name, value) = [ret |-> "NOSPACE", mem |-> r]
    BY <1>2, <1>6, <2>1, Zenon
  <2>3. IsSomeBlob(r) /\ Kept(r, fdt) = mem
    <3>1. CASE StringPlaces(mem, name) # {}
      <4>1. named = mem
        BY <1>1, <3>1, Zenon DEF WithString
      <4>2. r = mem
        BY <2>1, <3>1, <4>1, Zenon DEF RolledBack
      <4> QED
        BY <1>4, <4>2 DEF IsSomeBlob, Good
    <3>2. CASE StringPlaces(mem, name) = {}
      <4>1. HasRoom(mem, 0, Len(name) + 1)
        BY <1>6, <3>2
      <4>2. r = RolledBack(WithString(mem, name), name, TRUE)
        BY <1>1, <2>1, <3>2, Zenon DEF RolledBack
      <4> QED
        BY <3>2, <4>1, <4>2, RolledBackIs
    <3> QED
      BY <3>1, <3>2
  <2> QED
    BY <2>2, <2>3 DEF Sound
<1>7. CASE /\ StringPlaces(mem, name) # {} \/ HasRoom(mem, 0, Len(name) + 1)
           /\ HasRoom(named, 0, k)
  <2>1. fdt_add_property_(node, name, value) = Done(h)
    BY <1>2, <1>7, Zenon
  <2>2. PICK more, M : /\ Blob(named, fdt, total, rsv, n, struct, size, strs, more)
                       /\ M = StringsIn(named, fdt + strs, more)
                       /\ IsStructOf(named, at, size, D, M) /\ off \in M
    BY <1>1, <1>3, <1>7, NamedIsBlob
  <2>3. node \in DOMAIN D \ {size}
    BY <1>4, NodeIsFound
  <2>4. o \in DOMAIN D
    BY <1>1, <1>4, <2>3, FirstIs
  <2>5. /\ At(mem, o) = at + o /\ at \in Nat /\ o \in Nat /\ D[o] \in Nat
        /\ FDT_TAGSIZE \in Nat \ {0}
    BY <1>3, <2>4, PlaceIs
  <2>6. PICK a, d, len : a = at + o /\ d = D[o] /\ len = Len(value)
    OBVIOUS
  <2>7. value \in Seq(Nat) /\ len \in Nat
    BY <2>6, ConstantsAreTyped
  <2>8. off \in Int
    BY <2>2 DEF StringsIn
  <2>9. PropRecord(s, len, off)
    <3>1. s = ((Word(FDT_PROP) \o Word(Len(value))) \o Word(off)) \o value
      BY <1>1
    <3>2. PropRecord(s, Len(value), off)
      BY ONLY <2>7, <2>8, <3>1, PropCells
    <3> QED
      BY <2>6, <3>2
  <2>10. TagAlign(len) \in Nat /\ len <= TagAlign(len)
    BY <2>7, TagAlignIs
  <2>11. Len(s) \in Nat /\ Len(s) <= k /\ k \in Nat
    <3>1. Len(s) = 3 * FDT_TAGSIZE + len
      BY <2>9 DEF PropRecord
    <3>2. k = 3 * FDT_TAGSIZE + TagAlign(len)
      BY <1>1, <2>6
    <3> QED
      BY <2>5, <2>7, <2>10, <3>1, <3>2
  <2>12. Written(h, a, s) => Leads(h, a, k, M, d, d)
    <3>1. HAVE Written(h, a, s)
    <3>2. a \in Nat /\ d \in Nat /\ k = 3 * FDT_TAGSIZE + TagAlign(len)
      BY <1>1, <2>5, <2>6
    <3> QED
      BY ONLY <2>2, <2>7, <2>9, <3>1, <3>2, PropCellsLead
  <2>13. Ordered(rsv, n, struct, size, strs)
    BY <1>4, EditableIsOrdered
  <2>14. h = Put(fdt_splice_struct_(named, a, 0, k), a, s)
    BY <1>1, <2>5, <2>6
  <2>15. IsSomeBlob(h)
    <3>1. /\ at = fdt + struct /\ D[0] = 0 /\ D[size] = 0 /\ a = at + o
      BY <1>4, <2>6
    <3>2. Written(h, a, s) => Leads(h, a, k, M, D[o], D[o])
      BY <2>6, <2>12
    <3>3. HasRoom(named, 0, k)
      BY <1>7
    <3> QED
      BY ONLY <2>2, <2>4, <2>11, <2>13, <2>14, <3>1, <3>2, <3>3, InsertIsSound
  <2> QED
    BY <2>1, <2>15, DoneIsSound
<1> QED
  BY <1>5, <1>6, <1>7

LEMMA SetpropIsGood ==
    ASSUME fdt # NULL, Good(mem, fdt), NEW node \in NodeOffsets(mem), NEW name \in PropNames,
           NEW value \in Values, fdt_setprop(node, name, value)
    PROVE  StepIsGood
<1>1. PICK found, len, zero : /\ found = fdt_get_property(mem, node, name)
                              /\ len = Len(value) /\ zero = 0
  OBVIOUS
<1>2. \/ Returns(Failed("BADLAYOUT"))
      \/ Editable(mem) /\ Returns(fdt_add_property_(node, name, value))
      \/ /\ Editable(mem) /\ found # {}
         /\ Returns(fdt_resize_property_(Min(found), len, zero, value))
  BY <1>1, Zenon DEF fdt_setprop
<1>3. CASE Editable(mem) /\ Returns(fdt_add_property_(node, name, value))
  BY <1>3, AddPropertyIsSound, ReturnsIsGood
<1>4. CASE /\ Editable(mem) /\ found # {}
           /\ Returns(fdt_resize_property_(Min(found), len, zero, value))
  <2>1. zero \in Nat /\ len = zero + Len(value)
    BY <1>1, ConstantsAreTyped
  <2>2. PICK prop : prop = Min(fdt_get_property(mem, node, name))
    OBVIOUS
  <2>3. Sound(fdt_resize_property_(prop, len, zero, value))
    BY <1>1, <1>4, <2>1, <2>2, ResizeIsSound
  <2> QED
    BY <1>1, <1>4, <2>2, <2>3, ReturnsIsGood
<1> QED
  BY <1>2, <1>3, <1>4, RefusalIsGood

LEMMA AppendpropIsGood ==
    ASSUME fdt # NULL, Good(mem, fdt), NEW node \in NodeOffsets(mem), NEW name \in PropNames,
           NEW value \in Values, fdt_appendprop(node, name, value)
    PROVE  StepIsGood
<1>1. PICK found, oldlen, len : /\ found = fdt_get_property(mem, node, name)
                                /\ oldlen = LenOf(mem, Min(found))
                                /\ len = oldlen + Len(value)
  OBVIOUS
<1>2. \/ Returns(Failed("BADLAYOUT"))
      \/ Editable(mem) /\ Returns(fdt_add_property_(node, name, value))
      \/ /\ Editable(mem) /\ found # {}
         /\ Returns(fdt_resize_property_(Min(found), len, oldlen, value))
  BY <1>1, Zenon DEF fdt_appendprop
<1>3. CASE Editable(mem) /\ Returns(fdt_add_property_(node, name, value))
  BY <1>3, AddPropertyIsSound, ReturnsIsGood
<1>4. CASE /\ Editable(mem) /\ found # {}
           /\ Returns(fdt_resize_property_(Min(found), len, oldlen, value))
  <2>1. PICK prop : prop = Min(fdt_get_property(mem, node, name))
    OBVIOUS
  <2>2. PICK total, rsv, n, struct, size, strs, sizestrs, at, N, D :
            IsFound(total, rsv, n, struct, size, strs, sizestrs, at, N, D)
    BY IsFoundAlways
  <2>3. oldlen \in Nat
    <3>1. PICK q : q = prop + 3 * FDT_TAGSIZE + TagAlign(oldlen)
      OBVIOUS
    <3>2. oldlen = LenOf(mem, prop)
      BY <1>1, <2>1
    <3>3. fdt_get_property(mem, node, name) # {}
      BY <1>1, <1>4
    <3> QED
      BY ONLY <2>1, <2>2, <3>1, <3>2, <3>3, PropIsFound
  <2>4. Sound(fdt_resize_property_(prop, len, oldlen, value))
    BY <1>1, <1>4, <2>1, <2>3, ResizeIsSound
  <2> QED
    BY <1>1, <1>4, <2>1, <2>4, ReturnsIsGood
<1> QED
  BY <1>2, <1>3, <1>4, RefusalIsGood

(* Tags one behind the other *)
LEMMA LeadsJoin ==
    ASSUME NEW g, NEW a \in Int, NEW n, NEW N, NEW d, NEW e, Leads(g, a, n, N, d, e),
           NEW b, b = a + n, NEW k, NEW f, Leads(g, b, k, N, e, f)
    PROVE  Leads(g, a, n + k, N, d, f)
<1>1. PICK D : IsStruct(g, a, n, D, N) /\ D[0] = d /\ D[n] = e
  BY DEF Leads
<1>2. PICK E : IsStruct(g, b, k, E, N) /\ E[0] = e /\ E[k] = f
  BY DEF Leads
<1>3. IsStruct(g, a + n, k, E, N) /\ D[n] = E[0]
  BY <1>1, <1>2
<1>4. PICK F : IsStruct(g, a, n + k, F, N) /\ F[0] = D[0] /\ F[n + k] = E[k]
  BY ONLY a \in Int, <1>1, <1>3, StructJoin
<1> QED
  BY <1>1, <1>2, <1>4, Zenon DEF Leads

(* A node's first tag, and its last *)
LEMMA NodeLeads ==
    ASSUME NEW h, NEW a \in Int, NEW name \in Seq(Nat \ {0}), NEW N, h[a] = FDT_BEGIN_NODE,
           Written(h, a + FDT_TAGSIZE, Terminated(name)),
           NEW n, n = FDT_TAGSIZE + TagAlign(Len(name) + 1),
           NEW b, b = a + n, h[b] = FDT_END_NODE, NEW d \in Nat
    PROVE  Leads(h, a, n + FDT_TAGSIZE, N, d, d)
<1>1. PICK e : e = d + 1
  OBVIOUS
<1>2. Leads(h, a, n, N, d, e)
  <2>1. Leads(h, a, n, N, d, d + 1)
    BY BeginLeads
  <2> QED
    BY <1>1, <2>1
<1>3. FDT_TAGSIZE \in Nat \ {0} /\ n \in Nat /\ b \in Int /\ b + 0 = b /\ 0 + FDT_TAGSIZE = FDT_TAGSIZE
  <2>1. PICK k : k = Len(name) + 1
    OBVIOUS
  <2>2. k \in Nat
    BY <2>1
  <2>3. TagAlign(k) \in Nat /\ n = FDT_TAGSIZE + TagAlign(k)
    BY <2>1, <2>2, TagAlignIs
  <2>4. FDT_TAGSIZE \in Nat \ {0} /\ a \in Int /\ b = a + n
    BY TagSize
  <2> QED
    BY ONLY <2>3, <2>4
<1>4. PICK t : t = FDT_TAGSIZE
  OBVIOUS
<1>5. IsTag(h, b, 0, t)
  <2>1. Aligned(0) /\ h[b + 0] = FDT_END_NODE
    BY <1>3, AlignedTags
  <2>2. IsTag(h, b, 0, 0 + FDT_TAGSIZE)
    BY <2>1, EndNodeIsTag
  <2> QED
    BY <1>3, <1>4, <2>2
<1>6. IsStep(h[b], e, d) /\ h[b] # FDT_PROP
  BY <1>1 DEF IsStep, FDT_PROP, FDT_BEGIN_NODE, FDT_END_NODE, FDT_NOP
<1>7. Leads(h, b, t, N, e, d)
  <2>1. 0 < t /\ e \in Nat /\ d \in Nat /\ b \in Int
    BY <1>1, <1>3, <1>4
  <2>2. h[b] = FDT_PROP => h[b + 2 * FDT_TAGSIZE] \in N
    BY <1>6
  <2> QED
    BY ONLY <1>5, <1>6, <2>1, <2>2, TagLeads
<1>8. Leads(h, a, n + t, N, d, d)
  BY <1>2, <1>7, LeadsJoin
<1> QED
  BY <1>4, <1>8

(* A node as it is written: its name and zeros in len cells *)
NodeRecord(s, name, len) ==
    /\ s \in Seq(Int) /\ Len(s) = FDT_TAGSIZE + len + FDT_TAGSIZE
    /\ s[1] = FDT_BEGIN_NODE /\ s[FDT_TAGSIZE + len + 1] = FDT_END_NODE
    /\ \A i \in 1..Len(name) : s[FDT_TAGSIZE + i] = name[i]
    /\ s[FDT_TAGSIZE + (Len(name) + 1)] = 0

LEMMA NodeCells ==
    ASSUME NEW name \in Seq(Nat \ {0}), NEW len, len = TagAlign(Len(name) + 1),
           NEW s, s = (Word(FDT_BEGIN_NODE)
                        \o [i \in 1..len |-> IF i <= Len(name) THEN name[i] ELSE 0])
                       \o Word(FDT_END_NODE)
    PROVE  NodeRecord(s, name, len)
<1>1. PICK u, v, w, k : /\ u = Word(FDT_BEGIN_NODE) /\ w = Word(FDT_END_NODE)
                        /\ v = [i \in 1..len |-> IF i <= Len(name) THEN name[i] ELSE 0]
                        /\ k = Len(name)
  OBVIOUS
<1>2. PICK t : t = u \o v
  OBVIOUS
<1>3. FDT_TAGSIZE \in Nat \ {0} /\ k \in Nat /\ len \in Nat /\ k + 1 <= len
  BY <1>1, TagSize, TagAlignIs
<1>4. /\ u \in Seq(Int) /\ Len(u) = FDT_TAGSIZE /\ u[1] = FDT_BEGIN_NODE
      /\ w \in Seq(Int) /\ Len(w) = FDT_TAGSIZE /\ w[1] = FDT_END_NODE
  <2>1. FDT_BEGIN_NODE \in Int /\ FDT_END_NODE \in Int
    BY DEF FDT_BEGIN_NODE, FDT_END_NODE
  <2> QED
    BY ONLY <1>1, <2>1, WordIs, Zenon
<1>5. /\ v \in Seq(Int) /\ Len(v) = len /\ v[k + 1] = 0
      /\ \A i \in 1..k : v[i] = name[i]
  <2>1. \A i \in 1..len : (IF i <= k THEN name[i] ELSE 0) \in Int
    BY <1>1, <1>3
  <2>2. v \in [1..len -> Int]
    BY <1>1, <2>1
  <2>3. v \in Seq(Int) /\ Len(v) = len
    <3>1. len \in Nat
      BY <1>3
    <3> QED
      BY ONLY <2>2, <3>1
  <2>4. v[k + 1] = 0
    BY <1>1, <1>3
  <2>5. \A i \in 1..k : v[i] = name[i]
    BY <1>1, <1>3
  <2> QED
    BY <2>3, <2>4, <2>5
<1>6. /\ t \in Seq(Int) /\ Len(t) = Len(u) + Len(v)
      /\ \A i \in 1..Len(u) : t[i] = u[i]
      /\ \A i \in 1..Len(v) : t[Len(u) + i] = v[i]
  <2>1. u \in Seq(Int) /\ v \in Seq(Int)
    BY <1>4, <1>5, Zenon
  <2> QED
    BY ONLY <2>1, <1>2, Concatenation
<1>7. /\ s \in Seq(Int) /\ Len(s) = Len(t) + Len(w)
      /\ \A i \in 1..Len(t) : s[i] = t[i]
      /\ \A i \in 1..Len(w) : s[Len(t) + i] = w[i]
  <2>1. t \in Seq(Int) /\ w \in Seq(Int)
    BY <1>4, <1>6, Zenon
  <2>2. s = t \o w
    BY <1>1, <1>2, Zenon
  <2> QED
    BY ONLY <2>1, <2>2, Concatenation
<1>8. Len(t) = FDT_TAGSIZE + len /\ Len(s) = FDT_TAGSIZE + len + FDT_TAGSIZE
  <2>1. Len(t) = FDT_TAGSIZE + len
    BY <1>4, <1>5, <1>6, Zenon
  <2> QED
    BY <1>4, <1>7, <2>1, Zenon
<1>9. s[1] = FDT_BEGIN_NODE
  <2>1. 1 \in 1..FDT_TAGSIZE /\ 1 \in 1..(FDT_TAGSIZE + len)
    BY <1>3
  <2> QED
    BY <1>4, <1>6, <1>7, <1>8, <2>1, Zenon
<1>10. s[FDT_TAGSIZE + len + 1] = FDT_END_NODE
  <2>1. 1 \in 1..FDT_TAGSIZE
    BY <1>3
  <2> QED
    BY <1>4, <1>7, <1>8, <2>1, Zenon
<1>11. \A i \in 1..len : s[FDT_TAGSIZE + i] = v[i]
  <2>1. \A i \in 1..len : FDT_TAGSIZE + i \in 1..(FDT_TAGSIZE + len)
    BY <1>3
  <2> QED
    BY <1>4, <1>5, <1>6, <1>7, <1>8, <2>1, Zenon
<1>12. k + 1 \in 1..len /\ \A i \in 1..k : i \in 1..len
  BY <1>3
<1>13. s[FDT_TAGSIZE + (k + 1)] = 0 /\ \A i \in 1..k : s[FDT_TAGSIZE + i] = name[i]
  BY <1>5, <1>11, <1>12, Zenon
<1> QED
  BY <1>1, <1>7, <1>8, <1>9, <1>10, <1>13, Zenon DEF NodeRecord

(* A node where its tags and its name are *)
LEMMA NodeCellsLead ==
    ASSUME NEW name \in Seq(Nat \ {0}), NEW len, len = TagAlign(Len(name) + 1),
           NEW s, NodeRecord(s, name, len), NEW h, NEW a \in Nat, Written(h, a, s),
           NEW N, NEW d \in Nat, NEW k, k = FDT_TAGSIZE + len + FDT_TAGSIZE
    PROVE  Leads(h, a, k, N, d, d)
<1>1. PICK t, c, r : t = FDT_TAGSIZE /\ c = Len(name) /\ r = Terminated(name)
  OBVIOUS
<1>2. t \in Nat \ {0} /\ c \in Nat /\ len \in Nat /\ c + 1 <= len /\ a \in Nat
  BY <1>1, TagSize, TagAlignIs
<1>3. /\ Len(s) = t + len + t /\ s[1] = FDT_BEGIN_NODE /\ s[t + len + 1] = FDT_END_NODE
      /\ \A i \in 1..c : s[t + i] = name[i]
      /\ s[t + (c + 1)] = 0
  BY <1>1 DEF NodeRecord
<1>4. \A j \in 1..(t + len + t) : h[a + (j - 1)] = s[j]
  BY <1>3 DEF Written
<1>5. h[a] = FDT_BEGIN_NODE
  <2>1. 1 \in 1..(t + len + t) /\ a + (1 - 1) = a
    BY <1>2
  <2> QED
    BY <1>3, <1>4, <2>1
<1>6. h[a + (t + len)] = FDT_END_NODE
  <2>1. t + len + 1 \in 1..(t + len + t) /\ a + ((t + len + 1) - 1) = a + (t + len)
    BY <1>2
  <2> QED
    BY <1>3, <1>4, <2>1
<1>7. Written(h, a + t, r)
  <2>1. Len(r) = c + 1 /\ r[c + 1] = 0 /\ \A i \in 1..c : r[i] = name[i]
    BY <1>1 DEF Terminated
  <2>2. \A i \in 1..(c + 1) : s[t + i] = r[i]
    <3>1. \A i \in 1..(c + 1) : i = c + 1 \/ i \in 1..c
      BY <1>2
    <3> QED
      BY <1>3, <2>1, <3>1
  <2>3. \A i \in 1..(c + 1) : t + i \in 1..(t + len + t) /\ a + ((t + i) - 1) = (a + t) + (i - 1)
    BY <1>2
  <2>4. \A i \in 1..(c + 1) : h[(a + t) + (i - 1)] = r[i]
    BY <1>4, <2>2, <2>3
  <2> QED
    BY <2>1, <2>4 DEF Written
<1>8. PICK b, n : n = t + len /\ b = a + n
  OBVIOUS
<1>9. Leads(h, a, n + t, N, d, d)
  <2>1. a \in Int /\ n = FDT_TAGSIZE + TagAlign(Len(name) + 1) /\ b = a + n
    BY <1>1, <1>2, <1>8
  <2>2. h[b] = FDT_END_NODE /\ Written(h, a + FDT_TAGSIZE, Terminated(name))
    BY <1>1, <1>6, <1>7, <1>8
  <2>3. Leads(h, a, n + FDT_TAGSIZE, N, d, d)
    BY ONLY <1>5, <2>1, <2>2, name \in Seq(Nat \ {0}), d \in Nat, NodeLeads
  <2> QED
    BY <1>1, <2>3
<1> QED
  BY <1>1, <1>8, <1>9

LEMMA AddNodeIsGood ==
    ASSUME fdt # NULL, Good(mem, fdt), NEW node \in NodeOffsets(mem), NEW name \in Names,
           fdt_add_node(node, name)
    PROVE  StepIsGood
<1>1. PICK o, s, k, h :
         /\ o = PropsEnd(mem, node)
         /\ s = Word(FDT_BEGIN_NODE)
                \o [i \in 1..TagAlign(Len(name) + 1) |-> IF i <= Len(name) THEN name[i] ELSE 0]
                \o Word(FDT_END_NODE)
         /\ k = Len(s)
         /\ h = Put(fdt_splice_struct_(mem, At(mem, o), 0, k), At(mem, o), s)
  OBVIOUS
<1>2. \/ \E error : fdt_add_subnode(node, name) = Failed(error)
      \/ /\ Editable(mem) /\ HasRoom(mem, 0, k)
         /\ fdt_add_subnode(node, name) = Done(h)
  BY <1>1, Zenon DEF fdt_add_subnode
<1>3. \/ \E error : Returns(Failed(error))
      \/ Editable(mem) /\ HasRoom(mem, 0, k) /\ Returns(Done(h))
  BY <1>2, Zenon DEF fdt_add_node
<1>4. CASE Editable(mem) /\ HasRoom(mem, 0, k) /\ Returns(Done(h))
  <2>1. PICK total, rsv, n, struct, size, strs, sizestrs, at, N, D :
            IsFound(total, rsv, n, struct, size, strs, sizestrs, at, N, D)
    BY IsFoundAlways
  <2>2. /\ Blob(mem, fdt, total, rsv, n, struct, size, strs, sizestrs)
        /\ at = fdt + struct /\ N = StringsIn(mem, fdt + strs, sizestrs)
        /\ IsStructOf(mem, at, size, D, N) /\ D[0] = 0 /\ D[size] = 0
    BY <2>1 DEF IsFound
  <2>3. node \in DOMAIN D \ {size}
    BY <2>2, NodeIsFound
  <2>4. o \in DOMAIN D
    BY <1>1, <2>2, <2>3, PropsEndIs
  <2>5. /\ At(mem, o) = at + o /\ at \in Nat /\ o \in Nat /\ D[o] \in Nat
        /\ FDT_TAGSIZE \in Nat \ {0}
    BY <2>1, <2>4, PlaceIs
  <2>6. PICK a, d, len : a = at + o /\ d = D[o] /\ len = TagAlign(Len(name) + 1)
    OBVIOUS
  <2>7. name \in Seq(Nat \ {0}) /\ len \in Nat
    <3>1. name \in Seq(Nat \ {0})
      BY ConstantsAreTyped
    <3> QED
      BY <2>6, <3>1, TagAlignIs
  <2>8. NodeRecord(s, name, len)
    <3>1. s = (Word(FDT_BEGIN_NODE)
               \o [i \in 1..len |-> IF i <= Len(name) THEN name[i] ELSE 0]) \o Word(FDT_END_NODE)
      BY <1>1, <2>6
    <3> QED
      BY ONLY <2>6, <2>7, <3>1, NodeCells
  <2>9. k = FDT_TAGSIZE + len + FDT_TAGSIZE /\ k \in Nat /\ Len(s) \in Nat /\ Len(s) <= k
    <3>1. k = FDT_TAGSIZE + len + FDT_TAGSIZE /\ k = Len(s)
      BY <1>1, <2>8 DEF NodeRecord
    <3> QED
      BY <2>5, <2>7, <3>1
  <2>10. Written(h, a, s) => Leads(h, a, k, N, d, d)
    <3>1. HAVE Written(h, a, s)
    <3>2. a \in Nat /\ d \in Nat
      BY <2>5, <2>6
    <3>3. len = TagAlign(Len(name) + 1) /\ k = FDT_TAGSIZE + len + FDT_TAGSIZE
      BY <2>6, <2>9
    <3> QED
      BY ONLY <2>7, <2>8, <3>1, <3>2, <3>3, NodeCellsLead
  <2>11. Ordered(rsv, n, struct, size, strs)
    BY <1>4, <2>2, EditableIsOrdered
  <2>12. IsSomeBlob(h)
    <3>1. /\ h = Put(fdt_splice_struct_(mem, a, 0, k), a, s) /\ a = at + o
          /\ Written(h, a, s) => Leads(h, a, k, N, D[o], D[o])
      BY <1>1, <2>5, <2>6, <2>10
    <3>2. HasRoom(mem, 0, k)
      BY <1>4
    <3> QED
      BY ONLY <2>2, <2>4, <2>9, <2>11, <3>1, <3>2, InsertIsSound
  <2> QED
    BY <1>4, <2>12, EditIsGood
<1> QED
  BY <1>3, <1>4, RefusalIsGood

----------------------------------------------------------------------------
(* The block of reservations edited *)

LEMMA RsvSplicedCells ==
    ASSUME NEW m, NEW total, NEW rsv, NEW n, NEW struct, NEW size, NEW strs, NEW sizestrs,
           Blob(m, fdt, total, rsv, n, struct, size, strs, sizestrs),
           NEW p \in Nat, NEW oldn \in Nat, NEW newn \in Nat, NEW end,
           end = fdt + strs + sizestrs, fdt + 8 <= p, p + 2 * oldn <= end,
           strs + sizestrs - 2 * oldn + 2 * newn <= total,
           NEW g, g = fdt_splice_mem_rsv_(m, p, oldn, newn)
    PROVE  /\ IsSpliced(m, g, p, 2 * oldn, 2 * newn, end)
           /\ InHeader(g, fdt, total, rsv, struct + 2 * (newn - oldn), size,
                       strs + 2 * (newn - oldn), sizestrs)
<1>1. PICK f, oldlen, newlen, s, h, v, w :
         /\ f = fdt /\ oldlen = 2 * oldn /\ newlen = 2 * newn
         /\ s = Spliced(m, p, oldlen, newlen)
         /\ v = struct + 2 * (newn - oldn) /\ w = strs + 2 * (newn - oldn)
         /\ h = With(s, "off_dt_struct", v)
  OBVIOUS
<1>2. /\ f \in Nat /\ f + total <= MemSize /\ IsMemory(m) /\ total \in Nat
      /\ strs \in Nat /\ sizestrs \in Nat /\ struct \in Nat /\ size \in Nat
      /\ MemSize \in Nat /\ 8 <= struct /\ strs + sizestrs <= total /\ 8 <= strs
      /\ InHeader(m, f, total, rsv, struct, size, strs, sizestrs)
  BY <1>1, TagSize DEF Blob, Shape, Fit
<1>3. off_dt_struct(m) = struct /\ off_dt_strings(m) = strs
  BY BlobFields
<1>4. oldlen \in Nat /\ newlen \in Nat /\ p + oldlen <= end /\ strs + sizestrs - oldlen + newlen <= total
  BY <1>1
<1>5. g = With(h, "off_dt_strings", w)
  <2>1. PICK delta : delta = (newn - oldn) * ReserveSize
    OBVIOUS
  <2>2. delta = 2 * (newn - oldn) /\ oldn * ReserveSize = oldlen /\ newn * ReserveSize = newlen
    BY <1>1, <2>1 DEF ReserveSize
  <2>3. g = With(With(Spliced(m, p, oldn * ReserveSize, newn * ReserveSize), "off_dt_struct",
                      off_dt_struct(m) + delta), "off_dt_strings", off_dt_strings(m) + delta)
    BY <2>1, Zenon DEF fdt_splice_mem_rsv_
  <2>4. off_dt_struct(m) + delta = v /\ off_dt_strings(m) + delta = w
    BY <1>1, <1>3, <2>2
  <2> QED
    BY <1>1, <2>2, <2>3, <2>4, Zenon
<1>6. IsSpliced(m, s, p, oldlen, newlen, end) /\ \A i \in 0..(MemSize - 1) : i < p => s[i] = m[i]
  <2>1. fdt + 8 <= p /\ end = fdt + strs + sizestrs
    OBVIOUS
  <2> QED
    BY <1>1, <1>4, <2>1, SplicedCells
<1>7. f + 8 <= MemSize /\ IsMemory(s) /\ fdt \in Nat /\ fdt + 8 <= MemSize
  BY <1>1, <1>2, <1>6 DEF IsSpliced
<1>8. /\ IsMemory(h) /\ h[f + 2] = v
      /\ \A i \in 0..(MemSize - 1) : i # f + 2 => h[i] = s[i]
  <2>1. 2 \in 0..7 /\ Fields["off_dt_struct"] = 2
    BY FieldNumbers
  <2>2. IsCellSet(s, With(s, "off_dt_struct", v), fdt + 2, v)
    BY ONLY <1>7, <2>1, FieldSet
  <2> QED
    BY <1>1, <2>2 DEF IsCellSet
<1>9. /\ IsMemory(g) /\ g[f + 3] = w
      /\ \A i \in 0..(MemSize - 1) : i # f + 3 => g[i] = h[i]
  <2>1. 3 \in 0..7 /\ Fields["off_dt_strings"] = 3
    BY FieldNumbers
  <2>2. IsCellSet(h, With(h, "off_dt_strings", w), fdt + 3, w)
    BY ONLY <1>7, <1>8, <2>1, FieldSet
  <2> QED
    BY <1>1, <1>5, <2>2 DEF IsCellSet
<1>10. \A i \in 0..(MemSize - 1) : f + 8 <= i => g[i] = s[i]
  BY <1>2, <1>8, <1>9
<1>11. IsSpliced(m, g, p, oldlen, newlen, end)
  <2>1. PICK to, from, cells : /\ to = p + newlen /\ from = p + oldlen
                               /\ cells = end - (p + oldlen)
    OBVIOUS
  <2>2. Moved(m, from, s, to, cells)
    BY <1>6, <2>1 DEF IsSpliced
  <2>3. \A x \in 0..(cells - 1) : to + x \in 0..(MemSize - 1) /\ f + 8 <= to + x
    BY <1>1, <1>2, <1>4, <2>1
  <2>4. Moved(m, from, g, to, cells)
    BY <1>10, <2>2, <2>3 DEF Moved
  <2>5. \A i \in 0..(MemSize - 1) : f + 8 <= i /\ i < p => g[i] = m[i]
    BY <1>6, <1>10
  <2> QED
    BY <1>1, <1>9, <2>1, <2>4, <2>5 DEF IsSpliced
<1>12. InHeader(g, f, total, rsv, v, size, w, sizestrs)
  <2>1. /\ m[f + 1] = total /\ m[f + 4] = rsv /\ m[f + 6] = sizestrs
        /\ m[f + 7] = size + FDT_TAGSIZE
    BY <1>2 DEF InHeader
  <2>2. \A k \in 0..7 : f + k \in 0..(MemSize - 1) /\ f + k < p
    BY <1>1, <1>2, <1>7
  <2>3. \A k \in {1, 4, 6, 7} : g[f + k] = m[f + k]
    <3>1. TAKE k \in {1, 4, 6, 7}
    <3>2. k \in 0..7 /\ f + k # f + 3 /\ f + k # f + 2
      BY <1>2
    <3>3. g[f + k] = h[f + k] /\ h[f + k] = s[f + k] /\ s[f + k] = m[f + k]
      BY <1>6, <1>8, <1>9, <2>2, <3>2
    <3> QED
      BY <3>3
  <2>4. g[f + 2] = v
    <3>1. f + 2 \in 0..(MemSize - 1) /\ f + 2 # f + 3
      BY <1>2, <2>2
    <3> QED
      BY <1>8, <1>9, <3>1
  <2> QED
    BY <1>9, <2>1, <2>3, <2>4 DEF InHeader
<1> QED
  BY <1>1, <1>11, <1>12

(* All behind the reservations moves, and there are n2 of them now. *)
LEMMA RsvEdited ==
    ASSUME NEW m, NEW total, NEW rsv, NEW n, NEW struct, NEW size, NEW strs, NEW sizestrs,
           Blob(m, fdt, total, rsv, n, struct, size, strs, sizestrs),
           Ordered(rsv, n, struct, size, strs),
           NEW n2 \in Nat, NEW struct2, struct2 = struct + 2 * (n2 - n),
           NEW strs2, strs2 = strs + 2 * (n2 - n), strs2 + sizestrs <= total,
           NEW h, IsMemory(h), InHeader(h, fdt, total, rsv, struct2, size, strs2, sizestrs),
           IsReserved(h, fdt + rsv, n2),
           Moved(m, fdt + struct, h, fdt + struct2, strs + sizestrs - struct)
    PROVE  IsSomeBlob(h)
<1>1. /\ fdt \in Nat /\ fdt + total <= MemSize /\ total \in Nat /\ rsv \in Nat /\ n \in Nat
      /\ struct \in Nat /\ size \in Nat /\ strs \in Nat /\ sizestrs \in Nat /\ 8 <= rsv
      /\ rsv + 2 * n + 2 <= struct /\ struct + size + FDT_TAGSIZE <= strs
      /\ FDT_TAGSIZE \in Nat \ {0} /\ InBuffer(fdt, total)
  BY TagSize DEF Blob, Shape, Fit, Ordered
<1>2. /\ struct2 \in Nat /\ strs2 \in Nat /\ rsv + 2 * n2 + 2 <= struct2
      /\ struct2 + size + FDT_TAGSIZE <= strs2
  BY <1>1
<1>3. Fit(total, rsv, n2, struct2, size, strs2, sizestrs)
  BY <1>1, <1>2 DEF Fit
<1>4. PICK a, b, c, e, tail, N, M :
         /\ a = fdt + struct /\ b = fdt + struct2 /\ c = fdt + strs /\ e = fdt + strs2
         /\ tail = strs + sizestrs - struct
         /\ N = StringsIn(m, c, sizestrs) /\ M = StringsIn(h, e, sizestrs)
  OBVIOUS
<1>5. /\ a \in Int /\ b \in Int /\ c \in Int /\ e \in Int /\ tail \in Int /\ size + 1 <= tail
      /\ c = a + (strs - struct) /\ e = b + (strs - struct) /\ strs - struct \in Nat
      /\ (strs - struct) + sizestrs <= tail
  BY <1>1, <1>2, <1>4
<1>6. Moved(m, a, h, b, tail)
  BY <1>4
<1>7. Moved(m, a, h, b, size) /\ h[b + size] = m[a + size]
  <2>1. size \in Int /\ size <= tail /\ size \in 0..(tail - 1)
    BY <1>1, <1>5
  <2>2. Moved(m, a, h, b, size)
    BY <1>5, <1>6, <2>1, MovedLess
  <2>3. h[b + size] = m[a + size]
    BY <1>6, <2>1 DEF Moved
  <2> QED
    BY <2>2, <2>3
<1>8. N \subseteq M
  <2>1. PICK k : k = strs - struct
    OBVIOUS
  <2>2. k \in Nat /\ k + sizestrs <= tail /\ c = a + k /\ e = b + k /\ sizestrs \in Int
    BY <1>1, <1>5, <2>1
  <2>3. Moved(m, c, h, e, sizestrs)
    BY ONLY <1>5, <1>6, <2>2, MovedPart
  <2>4. PICK same : same = sizestrs
    OBVIOUS
  <2>5. same \in Nat /\ sizestrs \in Nat /\ sizestrs <= same
    BY <1>1, <2>4
  <2>6. StringsIn(m, c, sizestrs) \subseteq StringsIn(h, e, same)
    BY ONLY <1>5, <2>3, <2>5, StringsMove
  <2> QED
    BY <1>4, <2>4, <2>6
<1>9. IsTree(m, a, size, N) /\ m[a + size] = FDT_END
  BY <1>4 DEF Blob, Shape, Holds
<1>10. IsTree(h, b, size, M)
  BY ONLY <1>5, <1>7, <1>8, <1>9, TreeMoves
<1>11. Holds(h, fdt, rsv, n2, struct2, size, strs2, sizestrs)
  BY <1>4, <1>7, <1>9, <1>10 DEF Holds
<1>12. Blob(h, fdt, total, rsv, n2, struct2, size, strs2, sizestrs)
  BY <1>1, <1>3, <1>11 DEF Blob, Shape
<1> QED
  BY <1>12, Zenon DEF IsSomeBlob

LEMMA AddMemRsvIsGood ==
    ASSUME fdt # NULL, Good(mem, fdt), NEW r \in Reservations, fdt_add_mem_rsv(r)
    PROVE  StepIsGood
<1>1. PICK p, g, h : /\ p = MemRsvAt(mem, num_mem_rsv(mem))
                     /\ g = fdt_splice_mem_rsv_(mem, p, 0, 1) /\ h = Put(g, p, r)
  OBVIOUS
<1>2. \/ Returns(Failed("BADLAYOUT")) \/ Returns(Failed("NOSPACE"))
      \/ Editable(mem) /\ HasRoom(mem, 0, ReserveSize) /\ Returns(Done(h))
  BY <1>1, Zenon DEF fdt_add_mem_rsv
<1>3. CASE Editable(mem) /\ HasRoom(mem, 0, ReserveSize) /\ Returns(Done(h))
  <2>1. PICK total, rsv, n, struct, size, strs, sizestrs :
            Blob(mem, fdt, total, rsv, n, struct, size, strs, sizestrs)
    BY GoodIsBlob
  <2>2. Ordered(rsv, n, struct, size, strs)
    BY <1>3, <2>1, EditableIsOrdered
  <2>3. /\ fdt \in Nat /\ fdt + total <= MemSize /\ total \in Nat /\ rsv \in Nat /\ n \in Nat
        /\ struct \in Nat /\ size \in Nat /\ strs \in Nat /\ sizestrs \in Nat /\ 8 <= rsv
        /\ rsv + 2 * n + 2 <= struct /\ struct + size + FDT_TAGSIZE <= strs
        /\ FDT_TAGSIZE \in Nat \ {0} /\ MemSize \in Nat
        /\ IsReserved(mem, fdt + rsv, n)
    BY <2>1, <2>2, TagSize DEF Blob, Shape, Fit, Ordered, Holds
  <2>4. /\ off_mem_rsvmap(mem) = rsv /\ num_mem_rsv(mem) = n /\ totalsize(mem) = total
        /\ fdt_data_size_(mem) = strs + sizestrs
    BY <2>1, BlobFields
  <2>5. p = fdt + rsv + 2 * n
    BY <1>1, <2>4 DEF MemRsvAt, ReserveSize
  <2>6. strs + sizestrs + 2 <= total
    BY <1>3, <2>3, <2>4 DEF HasRoom, ReserveSize
  <2>7. PICK at, end, to, from, cells, struct2, strs2, n2 :
           /\ at = fdt + rsv /\ end = fdt + strs + sizestrs /\ to = p + 2 /\ from = p
           /\ cells = end - p /\ struct2 = struct + 2 /\ strs2 = strs + 2 /\ n2 = n + 1
    OBVIOUS
  <2>8. IsSpliced(mem, g, p, 0, 2, end) /\ InHeader(g, fdt, total, rsv, struct2, size, strs2, sizestrs)
    <3>1. PICK oldn, newn : oldn = 0 /\ newn = 1
      OBVIOUS
    <3>2. /\ p \in Nat /\ oldn \in Nat /\ newn \in Nat /\ end = fdt + strs + sizestrs
          /\ fdt + 8 <= p /\ p + 2 * oldn <= end
          /\ strs + sizestrs - 2 * oldn + 2 * newn <= total
      BY <2>3, <2>5, <2>6, <2>7, <3>1
    <3>3. g = fdt_splice_mem_rsv_(mem, p, oldn, newn)
      BY <1>1, <3>1
    <3>4. /\ IsSpliced(mem, g, p, 2 * oldn, 2 * newn, end)
          /\ InHeader(g, fdt, total, rsv, struct + 2 * (newn - oldn), size,
                      strs + 2 * (newn - oldn), sizestrs)
      BY ONLY <2>1, <3>2, <3>3, RsvSplicedCells
    <3>5. /\ 2 * oldn = 0 /\ 2 * newn = 2 /\ struct + 2 * (newn - oldn) = struct2
          /\ strs + 2 * (newn - oldn) = strs2
      BY <2>3, <2>7, <3>1
    <3> QED
      BY <3>4, <3>5
  <2>9. IsMemory(g) /\ Moved(mem, from, g, to, cells)
    <3>1. from = p + 0 /\ cells = end - (p + 0)
      BY <2>3, <2>5, <2>7
    <3> QED
      BY <2>7, <2>8, <3>1 DEF IsSpliced
  <2>10. Len(r) = 2 /\ r[2] # 0
    BY ConstantsAreTyped
  <2>11. IsMemory(h) /\ SameOutside(g, h, p, 2) /\ Written(h, p, r)
    <3>1. p \in Nat /\ p + 2 <= MemSize /\ Len(r) \in Nat /\ p + Len(r) <= MemSize
      BY <2>3, <2>5, <2>6, <2>10
    <3> QED
      BY <1>1, <2>9, <2>10, <3>1, PutCells
  <2>12. /\ Moved(mem, from, h, to, cells)
         /\ InHeader(h, fdt, total, rsv, struct2, size, strs2, sizestrs)
    <3>1. PICK len : len = 2
      OBVIOUS
    <3>2. Between(p, len, to, cells)
      BY <2>3, <2>5, <2>6, <2>7, <3>1 DEF Between
    <3>3. SameOutside(g, h, p, len)
      BY <2>11, <3>1
    <3> QED
      BY ONLY <2>8, <2>9, <3>2, <3>3, WrittenBetween
  <2>13. IsReserved(h, at, n2)
    <3>1. mem[at + 2 * n + 1] = 0 /\ \A i \in 0..(n - 1) : mem[at + 2 * i + 1] # 0
      BY <2>3, <2>7 DEF IsReserved, ReserveSize
    <3>2. h[at + 2 * n2 + 1] = 0
      <4>1. 1 \in 0..(cells - 1) /\ to + 1 = at + 2 * n2 + 1 /\ from + 1 = at + 2 * n + 1
        BY <2>3, <2>5, <2>7
      <4> QED
        BY <2>12, <3>1, <4>1 DEF Moved
    <3>3. h[at + 2 * n + 1] # 0
      <4>1. 2 \in 1..2 /\ p + (2 - 1) = at + 2 * n + 1
        BY <2>3, <2>5, <2>7
      <4> QED
        BY <2>10, <2>11, <4>1 DEF Written
    <3>4. ASSUME NEW i \in 0..(n - 1) PROVE h[at + 2 * i + 1] # 0
      <4>1. PICK j : j = at + 2 * i + 1
        OBVIOUS
      <4>2. j \in 0..(MemSize - 1) /\ j < p /\ fdt + 8 <= j
        BY <2>3, <2>5, <2>6, <2>7, <4>1
      <4>3. h[j] = g[j] /\ g[j] = mem[j]
        BY <2>8, <2>11, <4>2 DEF SameOutside, IsSpliced
      <4> QED
        BY <3>1, <4>1, <4>3
    <3>5. \A i \in 0..(n2 - 1) : i = n \/ i \in 0..(n - 1)
      BY <2>3, <2>7
    <3> QED
      BY <3>2, <3>3, <3>4, <3>5 DEF IsReserved, ReserveSize
  <2>14. IsSomeBlob(h)
    <3>1. Moved(mem, fdt + struct, h, fdt + struct2, strs + sizestrs - struct)
      <4>1. PICK k, less, a, b : /\ k = struct - (rsv + 2 * n) /\ less = strs + sizestrs - struct
                                 /\ a = fdt + struct /\ b = fdt + struct2
        OBVIOUS
      <4>2. /\ k \in Nat /\ less \in Int /\ k + less <= cells /\ a = from + k /\ b = to + k
            /\ from \in Int /\ to \in Int /\ cells \in Int
        BY <2>3, <2>5, <2>7, <4>1
      <4>3. Moved(mem, a, h, b, less)
        BY ONLY <2>12, <4>2, MovedPart
      <4> QED
        BY <4>1, <4>3
    <3>2. /\ n2 \in Nat /\ struct2 = struct + 2 * (n2 - n) /\ strs2 = strs + 2 * (n2 - n)
          /\ strs2 + sizestrs <= total
      BY <2>3, <2>6, <2>7
    <3>3. IsReserved(h, fdt + rsv, n2) /\ IsMemory(h)
      BY <2>7, <2>11, <2>13
    <3> QED
      BY ONLY <2>1, <2>2, <2>12, <3>1, <3>2, <3>3, RsvEdited
  <2> QED
    BY <1>3, <2>14, EditIsGood
<1> QED
  BY <1>2, <1>3, RefusalIsGood

LEMMA DelMemRsvIsGood ==
    ASSUME fdt # NULL, Good(mem, fdt), NEW k \in Nat, fdt_del_mem_rsv(k)
    PROVE  StepIsGood
<1>1. PICK p, g : p = MemRsvAt(mem, k) /\ g = fdt_splice_mem_rsv_(mem, p, 1, 0)
  OBVIOUS
<1>2. \/ Returns(Failed("BADLAYOUT")) \/ Returns(Failed("NOTFOUND"))
      \/ Editable(mem) /\ ~(k >= num_mem_rsv(mem)) /\ Returns(Done(g))
  BY <1>1, Zenon DEF fdt_del_mem_rsv
<1>3. CASE Editable(mem) /\ ~(k >= num_mem_rsv(mem)) /\ Returns(Done(g))
  <2>1. PICK total, rsv, n, struct, size, strs, sizestrs :
            Blob(mem, fdt, total, rsv, n, struct, size, strs, sizestrs)
    BY GoodIsBlob
  <2>2. Ordered(rsv, n, struct, size, strs)
    BY <1>3, <2>1, EditableIsOrdered
  <2>3. /\ fdt \in Nat /\ fdt + total <= MemSize /\ total \in Nat /\ rsv \in Nat /\ n \in Nat
        /\ struct \in Nat /\ size \in Nat /\ strs \in Nat /\ sizestrs \in Nat /\ 8 <= rsv
        /\ rsv + 2 * n + 2 <= struct /\ struct + size + FDT_TAGSIZE <= strs
        /\ FDT_TAGSIZE \in Nat \ {0} /\ MemSize \in Nat /\ strs + sizestrs <= total
        /\ IsReserved(mem, fdt + rsv, n)
    BY <2>1, <2>2, TagSize DEF Blob, Shape, Fit, Ordered, Holds
  <2>4. /\ off_mem_rsvmap(mem) = rsv /\ num_mem_rsv(mem) = n
    BY <2>1, BlobFields
  <2>5. p = fdt + rsv + 2 * k /\ k < n
    BY <1>1, <1>3, <2>3, <2>4 DEF MemRsvAt, ReserveSize
  <2>6. PICK at, end, to, from, cells, struct2, strs2, n2 :
           /\ at = fdt + rsv /\ end = fdt + strs + sizestrs /\ to = p /\ from = p + 2
           /\ cells = end - (p + 2) /\ struct2 = struct - 2 /\ strs2 = strs - 2 /\ n2 = n - 1
    OBVIOUS
  <2>7. IsSpliced(mem, g, p, 2, 0, end) /\ InHeader(g, fdt, total, rsv, struct2, size, strs2, sizestrs)
    <3>1. PICK oldn, newn : oldn = 1 /\ newn = 0
      OBVIOUS
    <3>2. /\ p \in Nat /\ oldn \in Nat /\ newn \in Nat /\ end = fdt + strs + sizestrs
          /\ fdt + 8 <= p /\ p + 2 * oldn <= end
          /\ strs + sizestrs - 2 * oldn + 2 * newn <= total
      BY <2>3, <2>5, <2>6, <3>1
    <3>3. g = fdt_splice_mem_rsv_(mem, p, oldn, newn)
      BY <1>1, <3>1
    <3>4. /\ IsSpliced(mem, g, p, 2 * oldn, 2 * newn, end)
          /\ InHeader(g, fdt, total, rsv, struct + 2 * (newn - oldn), size,
                      strs + 2 * (newn - oldn), sizestrs)
      BY ONLY <2>1, <3>2, <3>3, RsvSplicedCells
    <3>5. /\ 2 * oldn = 2 /\ 2 * newn = 0 /\ struct + 2 * (newn - oldn) = struct2
          /\ strs + 2 * (newn - oldn) = strs2
      BY <2>3, <2>6, <3>1
    <3> QED
      BY <3>4, <3>5
  <2>8. IsMemory(g) /\ Moved(mem, from, g, to, cells)
    <3>1. to = p + 0
      BY <2>3, <2>5, <2>6
    <3> QED
      BY <2>6, <2>7, <3>1 DEF IsSpliced
  <2>9. IsReserved(g, at, n2)
    <3>1. mem[at + 2 * n + 1] = 0 /\ \A i \in 0..(n - 1) : mem[at + 2 * i + 1] # 0
      BY <2>3, <2>6 DEF IsReserved, ReserveSize
    <3>2. ASSUME NEW i \in 0..n2, k <= i PROVE g[at + 2 * i + 1] = mem[at + 2 * (i + 1) + 1]
      <4>1. PICK x : x = 2 * (i - k) + 1
        OBVIOUS
      <4>2. x \in 0..(cells - 1) /\ to + x = at + 2 * i + 1 /\ from + x = at + 2 * (i + 1) + 1
        BY <2>3, <2>5, <2>6, <3>2, <4>1
      <4> QED
        BY <2>8, <4>2 DEF Moved
    <3>3. g[at + 2 * n2 + 1] = 0
      <4>1. n2 \in 0..n2 /\ k <= n2 /\ n2 + 1 = n
        BY <2>3, <2>5, <2>6
      <4> QED
        BY <3>1, <3>2, <4>1
    <3>4. ASSUME NEW i \in 0..(n2 - 1) PROVE g[at + 2 * i + 1] # 0
      <4>1. CASE k <= i
        <5>1. i + 1 \in 0..(n - 1) /\ i \in 0..n2
          BY <2>3, <2>5, <2>6
        <5> QED
          BY <3>1, <3>2, <4>1, <5>1
      <4>2. CASE i < k
        <5>1. PICK j : j = at + 2 * i + 1
          OBVIOUS
        <5>2. j \in 0..(MemSize - 1) /\ j < p /\ fdt + 8 <= j /\ i \in 0..(n - 1)
          BY <2>3, <2>5, <2>6, <4>2, <5>1
        <5>3. g[j] = mem[j]
          BY <2>7, <5>2 DEF IsSpliced
        <5> QED
          BY <3>1, <5>1, <5>2, <5>3
      <4> QED
        BY <4>1, <4>2
    <3> QED
      BY <3>3, <3>4 DEF IsReserved, ReserveSize
  <2>10. IsSomeBlob(g)
    <3>1. Moved(mem, fdt + struct, g, fdt + struct2, strs + sizestrs - struct)
      <4>1. PICK q, less, a, b : /\ q = struct - (rsv + 2 * k) - 2 /\ less = strs + sizestrs - struct
                                 /\ a = fdt + struct /\ b = fdt + struct2
        OBVIOUS
      <4>2. /\ q \in Nat /\ less \in Int /\ q + less <= cells /\ a = from + q /\ b = to + q
            /\ from \in Int /\ to \in Int /\ cells \in Int
        BY <2>3, <2>5, <2>6, <4>1
      <4>3. Moved(mem, a, g, b, less)
        BY ONLY <2>8, <4>2, MovedPart
      <4> QED
        BY <4>1, <4>3
    <3>2. /\ n2 \in Nat /\ struct2 = struct + 2 * (n2 - n) /\ strs2 = strs + 2 * (n2 - n)
          /\ strs2 + sizestrs <= total
      BY <2>3, <2>5, <2>6
    <3>3. IsReserved(g, fdt + rsv, n2)
      BY <2>6, <2>9
    <3> QED
      BY ONLY <2>1, <2>2, <2>7, <2>8, <3>1, <3>2, <3>3, RsvEdited
  <2> QED
    BY <1>3, <2>10, EditIsGood
<1> QED
  BY <1>2, <1>3, RefusalIsGood

----------------------------------------------------------------------------
(* Whole blobs moved *)

(* What moves is not overwritten before or after. *)
LEMMA MovedFrom ==
    ASSUME NEW m, NEW g, NEW h, NEW lo \in Int, NEW n \in Int, SameOutside(m, g, lo, n),
           NEW from \in Nat, NEW to \in Int, NEW size \in Int, from + size <= MemSize,
           AreApart(lo, n, from, size), Moved(g, from, h, to, size)
    PROVE  Moved(m, from, h, to, size)
<1>1. ASSUME NEW x \in 0..(size - 1) PROVE h[to + x] = m[from + x]
  <2>1. from + x \in 0..(MemSize - 1) /\ (from + x < lo \/ lo + n <= from + x)
    BY TagSize DEF AreApart
  <2>2. g[from + x] = m[from + x]
    BY <2>1 DEF SameOutside
  <2>3. h[to + x] = g[from + x]
    BY DEF Moved
  <2> QED
    BY <2>2, <2>3
<1> QED
  BY <1>1 DEF Moved

LEMMA MovedStays ==
    ASSUME NEW m, NEW g, NEW h, NEW lo \in Int, NEW n \in Int, SameOutside(g, h, lo, n),
           NEW from \in Int, NEW to \in Nat, NEW size \in Int, to + size <= MemSize,
           AreApart(lo, n, to, size), Moved(m, from, g, to, size)
    PROVE  Moved(m, from, h, to, size)
<1>1. ASSUME NEW x \in 0..(size - 1) PROVE h[to + x] = m[from + x]
  <2>1. to + x \in 0..(MemSize - 1) /\ (to + x < lo \/ lo + n <= to + x)
    BY TagSize DEF AreApart
  <2>2. h[to + x] = g[to + x]
    BY <2>1 DEF SameOutside
  <2>3. g[to + x] = m[from + x]
    BY DEF Moved
  <2> QED
    BY <2>2, <2>3
<1> QED
  BY <1>1 DEF Moved

(* Three blocks move, each to behind the one before. *)
ThreeApart(to, R, S, T, fromS, fromT) ==
    /\ AreApart(to, R, fromS, S) /\ AreApart(to, R, fromT, T)
    /\ AreApart(to + R, S, fromT, T)

LEMMA ThreeMove ==
    ASSUME NEW m, IsMemory(m), NEW R \in Nat, NEW S \in Nat, NEW T \in Nat,
           NEW fromR \in Nat, NEW fromS \in Nat, NEW fromT \in Nat,
           fromS + S <= MemSize, fromT + T <= MemSize, NEW to \in Nat,
           to + R + S + T <= MemSize, ThreeApart(to, R, S, T, fromS, fromT),
           NEW g, g = memmove(memmove(memmove(m, to, fromR, R), to + R, fromS, S),
                              to + R + S, fromT, T)
    PROVE  /\ IsMemory(g) /\ Moved(m, fromR, g, to, R) /\ Moved(m, fromS, g, to + R, S)
           /\ Moved(m, fromT, g, to + R + S, T)
<1>1. PICK h, k, toS, toT : /\ toS = to + R /\ toT = to + R + S /\ h = memmove(m, to, fromR, R)
                            /\ k = memmove(h, toS, fromS, S)
  OBVIOUS
<1>2. g = memmove(k, toT, fromT, T)
  BY <1>1
<1>3. /\ toS \in Nat /\ toT \in Nat /\ to + R <= MemSize /\ toS + S <= MemSize
      /\ toT + T <= MemSize /\ toT = toS + S /\ toS = to + R /\ MemSize \in Nat
  BY <1>1, TagSize
<1>4. IsMemory(h) /\ SameOutside(m, h, to, R) /\ Moved(m, fromR, h, to, R)
  BY <1>1, <1>3, MemmoveCells
<1>5. IsMemory(k) /\ SameOutside(h, k, toS, S) /\ Moved(h, fromS, k, toS, S)
  BY <1>1, <1>3, <1>4, MemmoveCells
<1>6. IsMemory(g) /\ SameOutside(k, g, toT, T) /\ Moved(k, fromT, g, toT, T)
  BY <1>2, <1>3, <1>5, MemmoveCells
<1>7. AreApart(to, R, fromS, S) /\ AreApart(to, R, fromT, T) /\ AreApart(toS, S, fromT, T)
  BY <1>1 DEF ThreeApart
<1>8. AreApart(toS, S, to, R) /\ AreApart(toT, T, to, R) /\ AreApart(toT, T, toS, S)
  BY <1>3 DEF AreApart
<1>9. Moved(m, fromR, g, to, R)
  <2>1. R \in Int /\ S \in Int /\ T \in Int /\ toS \in Int /\ toT \in Int /\ fromR \in Int
    BY <1>3
  <2>2. Moved(m, fromR, k, to, R)
    BY ONLY <1>3, <1>4, <1>5, <1>8, <2>1, to \in Nat, MovedStays
  <2> QED
    BY ONLY <1>3, <1>6, <1>8, <2>1, <2>2, to \in Nat, MovedStays
<1>10. Moved(m, fromS, g, toS, S)
  <2>1. R \in Int /\ S \in Int /\ T \in Int /\ toS \in Int /\ toT \in Int /\ to \in Int /\ fromS \in Int
    BY <1>3
  <2>2. Moved(m, fromS, k, toS, S)
    BY ONLY <1>4, <1>5, <1>7, <2>1, fromS \in Nat, fromS + S <= MemSize, MovedFrom
  <2> QED
    BY ONLY <1>3, <1>6, <1>8, <2>1, <2>2, MovedStays
<1>11. Moved(m, fromT, g, toT, T)
  <2>1. R \in Int /\ S \in Int /\ T \in Int /\ toS \in Int /\ toT \in Int /\ to \in Int
    BY <1>3
  <2>2. Moved(h, fromT, g, toT, T)
    BY ONLY <1>5, <1>6, <1>7, <2>1, fromT \in Nat, fromT + T <= MemSize, MovedFrom
  <2> QED
    BY ONLY <1>4, <1>7, <2>1, <2>2, fromT \in Nat, fromT + T <= MemSize, MovedFrom
<1> QED
  BY <1>1, <1>6, <1>9, <1>10, <1>11

(* The five fields that fdt_packblocks_ sets *)
PackFields(m, a, rsv, struct, size, strs, sizestrs) ==
    [m EXCEPT ![a + 4] = rsv, ![a + 2] = struct, ![a + 7] = size, ![a + 3] = strs,
              ![a + 6] = sizestrs]

LEMMA FiveSet ==
    ASSUME NEW m, IsMemory(m), NEW a \in Nat, a + 8 <= MemSize,
           NEW u, NEW v, NEW w, NEW x, NEW y,
           NEW g, g = PackFields(m, a, u, v, w, x, y)
    PROVE  /\ IsMemory(g) /\ SameOutside(m, g, a, 8)
           /\ g[a + 4] = u /\ g[a + 2] = v /\ g[a + 7] = w /\ g[a + 3] = x /\ g[a + 6] = y
<1>1. DOMAIN m = 0..(MemSize - 1)
  BY DEF IsMemory
<1>2. g = [i \in 0..(MemSize - 1) |->
             IF i = a + 6 THEN y ELSE IF i = a + 3 THEN x ELSE IF i = a + 7 THEN w
             ELSE IF i = a + 2 THEN v ELSE IF i = a + 4 THEN u ELSE m[i]]
  BY <1>1 DEF PackFields
<1>3. /\ a + 2 \in 0..(MemSize - 1) /\ a + 3 \in 0..(MemSize - 1) /\ a + 4 \in 0..(MemSize - 1)
      /\ a + 6 \in 0..(MemSize - 1) /\ a + 7 \in 0..(MemSize - 1)
  BY TagSize
<1>4. IsMemory(g)
  BY <1>2 DEF IsMemory
<1>5. \A i \in 0..(MemSize - 1) : i < a \/ a + 8 <= i => i \notin {a + 2, a + 3, a + 4, a + 6, a + 7}
  BY TagSize
<1>6. SameOutside(m, g, a, 8)
  BY <1>2, <1>5 DEF SameOutside
<1> QED
  BY <1>2, <1>3, <1>4, <1>6

(* The blocks and the fields that tell of them, without the size of all *)
HasBlocks(g, to, rsv, n, struct, size, strs, sizestrs) ==
    /\ g[to + 4] = rsv /\ g[to + 2] = struct /\ g[to + 7] = size + FDT_TAGSIZE
    /\ g[to + 3] = strs /\ g[to + 6] = sizestrs
    /\ Holds(g, to, rsv, n, struct, size, strs, sizestrs)

IsLaid(g, to, rsv, n, struct, size, strs, sizestrs) ==
    IsMemory(g) /\ HasBlocks(g, to, rsv, n, struct, size, strs, sizestrs)

LEMMA PackBlocksIs ==
    ASSUME NEW m, NEW total, NEW rsv, NEW n, NEW struct, NEW size, NEW strs, NEW sizestrs,
           Blob(m, fdt, total, rsv, n, struct, size, strs, sizestrs),
           NEW new \in Nat, NEW rsv2, rsv2 = 8, NEW struct2, struct2 = 2 * n + 10,
           NEW strs2, strs2 = struct2 + size + FDT_TAGSIZE, new + strs2 + sizestrs <= MemSize,
           ThreeApart(new + 8, 2 * n + 2, size + FDT_TAGSIZE, sizestrs, fdt + struct, fdt + strs)
    PROVE  IsLaid(fdt_packblocks_(m, new), new, rsv2, n, struct2, size, strs2, sizestrs)
<1>1. PICK R, S, to, a, b, c, k, g :
         /\ R = 2 * n + 2 /\ S = size + FDT_TAGSIZE /\ to = new + 8
         /\ a = fdt + rsv /\ b = fdt + struct /\ c = fdt + strs
         /\ k = memmove(memmove(memmove(m, to, a, R), to + R, b, S), to + R + S, c, sizestrs)
         /\ g = fdt_packblocks_(m, new)
  OBVIOUS
<1>2. /\ fdt \in Nat /\ fdt + total <= MemSize /\ total \in Nat /\ rsv \in Nat /\ n \in Nat
      /\ struct \in Nat /\ size \in Nat /\ strs \in Nat /\ sizestrs \in Nat
      /\ struct + size + FDT_TAGSIZE <= total /\ strs + sizestrs <= total
      /\ FDT_TAGSIZE \in Nat \ {0} /\ MemSize \in Nat /\ IsMemory(m)
      /\ Holds(m, fdt, rsv, n, struct, size, strs, sizestrs)
  BY TagSize DEF Blob, Shape, Fit
<1>3. /\ R \in Nat /\ S \in Nat /\ to \in Nat /\ a \in Nat /\ b \in Nat /\ c \in Nat
      /\ struct2 \in Nat /\ strs2 \in Nat /\ b + S <= MemSize /\ c + sizestrs <= MemSize
      /\ to + R + S + sizestrs <= MemSize /\ to + R = new + struct2 /\ to + R + S = new + strs2
      /\ struct2 = 8 + R /\ strs2 = struct2 + S
      /\ new + 8 <= MemSize /\ to = new + 8
  BY <1>1, <1>2
<1>4. /\ off_mem_rsvmap(m) = rsv /\ off_dt_struct(m) = struct /\ off_dt_strings(m) = strs
      /\ size_dt_strings(m) = sizestrs /\ size_dt_struct(m) = S /\ SizeMemRsv(m) = R
  BY <1>1, BlobFields
<1>5. g = [k EXCEPT ![new + 4] = 8, ![new + 2] = struct2, ![new + 7] = S,
                    ![new + 3] = strs2, ![new + 6] = sizestrs]
  <2>1. k = memmove(memmove(memmove(m, new + 8, fdt + rsv, R), new + struct2, fdt + struct, S),
                    new + strs2, fdt + strs, sizestrs)
    BY <1>1, <1>3, Zenon
  <2>2. g = LET moved == memmove(memmove(memmove(m, new + HeaderSize, fdt + off_mem_rsvmap(m),
                                                 SizeMemRsv(m)),
                                         new + (HeaderSize + SizeMemRsv(m)),
                                         fdt + off_dt_struct(m), size_dt_struct(m)),
                                 new + (HeaderSize + SizeMemRsv(m) + size_dt_struct(m)),
                                 fdt + off_dt_strings(m), size_dt_strings(m))
            IN  [moved EXCEPT
                    ![new + Fields["off_mem_rsvmap"]]  = HeaderSize,
                    ![new + Fields["off_dt_struct"]]   = HeaderSize + SizeMemRsv(m),
                    ![new + Fields["size_dt_struct"]]  = size_dt_struct(m),
                    ![new + Fields["off_dt_strings"]]  = HeaderSize + SizeMemRsv(m) + size_dt_struct(m),
                    ![new + Fields["size_dt_strings"]] = size_dt_strings(m)]
    BY <1>1, Zenon DEF fdt_packblocks_
  <2>3. HeaderSize = 8 /\ HeaderSize + SizeMemRsv(m) = struct2
        /\ HeaderSize + SizeMemRsv(m) + size_dt_struct(m) = strs2
    BY <1>3, <1>4 DEF HeaderSize
  <2> QED
    BY <1>4, <2>1, <2>2, <2>3, FieldNumbers, Zenon
<1>6. /\ IsMemory(k) /\ Moved(m, a, k, to, R) /\ Moved(m, b, k, to + R, S)
      /\ Moved(m, c, k, to + R + S, sizestrs)
  <2>1. ThreeApart(to, R, S, sizestrs, b, c)
    BY <1>1
  <2>2. k = memmove(memmove(memmove(m, to, a, R), to + R, b, S), to + R + S, c, sizestrs)
    BY <1>1
  <2> QED
    BY ONLY <1>2, <1>3, <2>1, <2>2, ThreeMove
<1>7. /\ IsMemory(g) /\ SameOutside(k, g, new, 8)
      /\ g[new + 4] = 8 /\ g[new + 2] = struct2 /\ g[new + 7] = S /\ g[new + 3] = strs2
      /\ g[new + 6] = sizestrs
  <2>1. g = PackFields(k, new, 8, struct2, S, strs2, sizestrs)
    BY <1>5, Zenon DEF PackFields
  <2>2. PICK u : u = 8
    OBVIOUS
  <2>3. new + 8 <= MemSize /\ IsMemory(k) /\ g = PackFields(k, new, u, struct2, S, strs2, sizestrs)
    BY <1>3, <1>6, <2>1, <2>2
  <2>4. /\ IsMemory(g) /\ SameOutside(k, g, new, 8)
        /\ g[new + 4] = u /\ g[new + 2] = struct2 /\ g[new + 7] = S /\ g[new + 3] = strs2
        /\ g[new + 6] = sizestrs
    BY ONLY <2>3, new \in Nat, FiveSet
  <2> QED
    BY <2>2, <2>4
<1>8. Moved(m, a, g, new + 8, R) /\ Moved(m, b, g, new + struct2, S) /\ Moved(m, c, g, new + strs2, sizestrs)
  <2>1. PICK d, e, len : d = new + struct2 /\ e = new + strs2 /\ len = 8
    OBVIOUS
  <2>2. /\ new \in Int /\ len \in Int /\ a \in Int /\ b \in Int /\ c \in Int /\ R \in Int /\ S \in Int
        /\ sizestrs \in Int /\ to \in Nat /\ d \in Nat /\ e \in Nat
        /\ to + R <= MemSize /\ d + S <= MemSize /\ e + sizestrs <= MemSize
    BY <1>2, <1>3, <2>1
  <2>3. AreApart(new, len, to, R) /\ AreApart(new, len, d, S) /\ AreApart(new, len, e, sizestrs)
    BY <1>3, <2>1 DEF AreApart
  <2>4. SameOutside(k, g, new, len)
    BY <1>7, <2>1
  <2>5. Moved(m, a, k, to, R) /\ Moved(m, b, k, d, S) /\ Moved(m, c, k, e, sizestrs)
    BY <1>3, <1>6, <2>1
  <2>6. Moved(m, a, g, to, R)
    BY ONLY <2>2, <2>3, <2>4, <2>5, MovedStays
  <2>7. Moved(m, b, g, d, S)
    BY ONLY <2>2, <2>3, <2>4, <2>5, MovedStays
  <2>8. Moved(m, c, g, e, sizestrs)
    BY ONLY <2>2, <2>3, <2>4, <2>5, MovedStays
  <2> QED
    BY <1>3, <2>1, <2>6, <2>7, <2>8
<1>9. Holds(g, new, rsv2, n, struct2, size, strs2, sizestrs)
  <2>1. Moved(m, fdt + struct, g, new + struct2, size + 1)
    <3>1. size + 1 \in Int /\ size + 1 <= S /\ S \in Int
      BY <1>1, <1>2
    <3> QED
      BY <1>1, <1>8, <3>1, MovedLess
  <2>2. /\ Moved(m, fdt + rsv, g, new + rsv2, 2 * n + 2) /\ rsv2 \in Nat
        /\ Moved(m, fdt + strs, g, new + strs2, sizestrs)
    BY <1>1, <1>8
  <2> QED
    BY ONLY <1>2, <1>3, <2>1, <2>2, new \in Nat, HoldsMoves
<1>10. IsLaid(g, new, rsv2, n, struct2, size, strs2, sizestrs)
  <2>1. S = size + FDT_TAGSIZE /\ rsv2 = 8
    BY <1>1
  <2> QED
    BY <1>7, <1>9, <2>1, Zenon DEF IsLaid, HasBlocks
<1> QED
  BY <1>1, <1>10

LEMMA BlobIsLaid ==
    ASSUME NEW m, NEW f, NEW total, NEW rsv, NEW n, NEW struct, NEW size, NEW strs, NEW sizestrs,
           Blob(m, f, total, rsv, n, struct, size, strs, sizestrs)
    PROVE  /\ IsLaid(m, f, rsv, n, struct, size, strs, sizestrs)
           /\ Fit(total, rsv, n, struct, size, strs, sizestrs) /\ f \in Nat
           /\ f + total <= MemSize
  BY Zenon DEF Blob, Shape, InHeader, IsLaid, HasBlocks

LEMMA BlocksMove ==
    ASSUME NEW g, NEW from \in Nat, NEW rsv, NEW n, NEW struct, NEW size, NEW strs, NEW sizestrs,
           HasBlocks(g, from, rsv, n, struct, size, strs, sizestrs),
           NEW len, Fit(len, rsv, n, struct, size, strs, sizestrs),
           NEW to \in Nat, NEW h, Moved(g, from, h, to, len)
    PROVE  HasBlocks(h, to, rsv, n, struct, size, strs, sizestrs)
<1>1. /\ len \in Nat /\ rsv \in Nat /\ n \in Nat /\ struct \in Nat /\ size \in Nat
      /\ strs \in Nat /\ sizestrs \in Nat /\ 8 <= rsv /\ rsv + 2 * n + 2 <= len
      /\ struct + size + FDT_TAGSIZE <= len /\ strs + sizestrs <= len
      /\ FDT_TAGSIZE \in Nat \ {0} /\ len \in Int
  BY TagSize DEF Fit
<1>2. Holds(g, from, rsv, n, struct, size, strs, sizestrs) /\ Moved(g, from, h, to, len)
  BY DEF HasBlocks
<1>3. /\ h[to + 2] = g[from + 2] /\ h[to + 3] = g[from + 3] /\ h[to + 4] = g[from + 4]
      /\ h[to + 6] = g[from + 6] /\ h[to + 7] = g[from + 7]
  <2>1. {2, 3, 4, 6, 7} \subseteq 0..(len - 1)
    BY <1>1
  <2> QED
    BY <2>1 DEF Moved
<1>4. /\ Moved(g, from + rsv, h, to + rsv, 2 * n + 2)
      /\ Moved(g, from + struct, h, to + struct, size + 1)
      /\ Moved(g, from + strs, h, to + strs, sizestrs)
  <2>1. PICK R, S, a, b, c, d, e, f :
           /\ R = 2 * n + 2 /\ S = size + 1 /\ a = from + rsv /\ b = to + rsv
           /\ c = from + struct /\ d = to + struct /\ e = from + strs /\ f = to + strs
    OBVIOUS
  <2>2. /\ R \in Int /\ S \in Int /\ sizestrs \in Int /\ from \in Int /\ to \in Int
        /\ rsv + R <= len /\ struct + S <= len /\ strs + sizestrs <= len
    BY <1>1, <2>1
  <2>3. Moved(g, a, h, b, R)
    BY ONLY <1>1, <1>2, <2>1, <2>2, MovedPart
  <2>4. Moved(g, c, h, d, S)
    BY ONLY <1>1, <1>2, <2>1, <2>2, MovedPart
  <2>5. Moved(g, e, h, f, sizestrs)
    BY ONLY <1>1, <1>2, <2>1, <2>2, MovedPart
  <2> QED
    BY <2>1, <2>3, <2>4, <2>5
<1>5. Holds(h, to, rsv, n, struct, size, strs, sizestrs)
  BY <1>1, <1>2, <1>4, HoldsMoves
<1> QED
  BY <1>3, <1>5 DEF HasBlocks

LEMMA LaidMoves ==
    ASSUME NEW g, NEW from \in Nat, NEW rsv, NEW n, NEW struct, NEW size, NEW strs, NEW sizestrs,
           IsLaid(g, from, rsv, n, struct, size, strs, sizestrs),
           NEW len, Fit(len, rsv, n, struct, size, strs, sizestrs),
           NEW to \in Nat, to + len <= MemSize, NEW h, h = memmove(g, to, from, len)
    PROVE  IsLaid(h, to, rsv, n, struct, size, strs, sizestrs)
<1>1. IsMemory(g) /\ HasBlocks(g, from, rsv, n, struct, size, strs, sizestrs) /\ len \in Int
  BY DEF IsLaid, Fit
<1>2. IsMemory(h) /\ Moved(g, from, h, to, len)
  BY <1>1, MemmoveCells
<1>3. HasBlocks(h, to, rsv, n, struct, size, strs, sizestrs)
  BY <1>1, <1>2, BlocksMove
<1> QED
  BY <1>2, <1>3 DEF IsLaid

(* With a size in the header, whatever is in the two fields nobody reads *)
LEMMA LaidIsBlob ==
    ASSUME NEW g, NEW to \in Nat, NEW rsv, NEW n, NEW struct, NEW size, NEW strs, NEW sizestrs,
           IsLaid(g, to, rsv, n, struct, size, strs, sizestrs),
           NEW total, Fit(total, rsv, n, struct, size, strs, sizestrs), InBuffer(to, total),
           NEW h, IsMemory(h), h[to + 1] = total,
           \A i \in 0..(MemSize - 1) : i \notin {to, to + 1, to + 5} => h[i] = g[i]
    PROVE  Blob(h, to, total, rsv, n, struct, size, strs, sizestrs)
<1>1. /\ total \in Nat /\ rsv \in Nat /\ n \in Nat /\ struct \in Nat /\ size \in Nat
      /\ strs \in Nat /\ sizestrs \in Nat /\ rsv + 2 * n + 2 <= total
      /\ 8 <= rsv /\ 8 <= struct /\ 8 <= strs
      /\ struct + size + FDT_TAGSIZE <= total /\ strs + sizestrs <= total
      /\ FDT_TAGSIZE \in Nat \ {0} /\ MemSize \in Nat
  BY TagSize DEF Fit
<1>2. /\ g[to + 4] = rsv /\ g[to + 2] = struct /\ g[to + 7] = size + FDT_TAGSIZE
      /\ g[to + 3] = strs /\ g[to + 6] = sizestrs
      /\ Holds(g, to, rsv, n, struct, size, strs, sizestrs)
  BY DEF IsLaid, HasBlocks
<1>3. to + total <= MemSize
  BY <1>1, BufferIsInside
<1>4. /\ h[to + 4] = g[to + 4] /\ h[to + 2] = g[to + 2] /\ h[to + 7] = g[to + 7]
      /\ h[to + 3] = g[to + 3] /\ h[to + 6] = g[to + 6]
  <2>1. \A k \in {2, 3, 4, 6, 7} : to + k \in 0..(MemSize - 1) /\ to + k \notin {to, to + 1, to + 5}
    BY <1>1, <1>3
  <2> QED
    BY <2>1
<1>5. InHeader(h, to, total, rsv, struct, size, strs, sizestrs)
  BY <1>2, <1>4 DEF InHeader
<1>6. \A i \in 0..(MemSize - 1) : to + 8 <= i => h[i] = g[i]
  OBVIOUS
<1>7. Moved(g, to + rsv, h, to + rsv, 2 * n + 2)
  <2>1. \A x \in 0..((2 * n + 2) - 1) : to + rsv + x \in 0..(MemSize - 1) /\ to + 8 <= to + rsv + x
    BY <1>1, <1>3
  <2> QED
    BY <1>6, <2>1 DEF Moved
<1>8. Moved(g, to + struct, h, to + struct, size + 1)
  <2>1. \A x \in 0..((size + 1) - 1) : to + struct + x \in 0..(MemSize - 1) /\ to + 8 <= to + struct + x
    BY <1>1, <1>3
  <2> QED
    BY <1>6, <2>1 DEF Moved
<1>9. Moved(g, to + strs, h, to + strs, sizestrs)
  <2>1. \A x \in 0..(sizestrs - 1) : to + strs + x \in 0..(MemSize - 1) /\ to + 8 <= to + strs + x
    BY <1>1, <1>3
  <2> QED
    BY <1>6, <2>1 DEF Moved
<1>10. Holds(h, to, rsv, n, struct, size, strs, sizestrs)
  BY <1>1, <1>2, <1>7, <1>8, <1>9, HoldsMoves
<1> QED
  BY <1>3, <1>5, <1>10 DEF Blob, Shape

LEMMA PackIsGood ==
    ASSUME fdt # NULL, Good(mem, fdt), fdt_pack
    PROVE  StepIsGood
<1>1. PICK g, v, h : /\ g = fdt_packblocks_(mem, fdt) /\ v = fdt_data_size_(g)
                     /\ h = With(g, "totalsize", v)
  OBVIOUS
<1>2. \/ Returns(Failed("BADLAYOUT"))
      \/ Editable(mem) /\ Returns(Done(h))
  BY <1>1, Zenon DEF fdt_pack
<1>3. CASE Editable(mem) /\ Returns(Done(h))
  <2>1. PICK total, rsv, n, struct, size, strs, sizestrs :
            Blob(mem, fdt, total, rsv, n, struct, size, strs, sizestrs)
    BY GoodIsBlob
  <2>2. Ordered(rsv, n, struct, size, strs)
    BY <1>3, <2>1, EditableIsOrdered
  <2>3. /\ fdt \in Nat /\ fdt + total <= MemSize /\ total \in Nat /\ rsv \in Nat /\ n \in Nat
        /\ struct \in Nat /\ size \in Nat /\ strs \in Nat /\ sizestrs \in Nat /\ 8 <= rsv
        /\ rsv + 2 * n + 2 <= struct /\ struct + size + FDT_TAGSIZE <= strs
        /\ FDT_TAGSIZE \in Nat \ {0} /\ MemSize \in Nat /\ strs + sizestrs <= total
        /\ InBuffer(fdt, total)
    BY <2>1, <2>2, TagSize DEF Blob, Shape, Fit, Ordered
  <2>4. PICK rsv2, struct2, strs2, total2 :
           /\ rsv2 = 8 /\ struct2 = 2 * n + 10 /\ strs2 = struct2 + size + FDT_TAGSIZE
           /\ total2 = strs2 + sizestrs
    OBVIOUS
  <2>5. /\ struct2 \in Nat /\ strs2 \in Nat /\ total2 \in Nat /\ total2 <= total
        /\ fdt + strs2 + sizestrs <= MemSize
    BY <2>3, <2>4
  <2>6. IsLaid(g, fdt, rsv2, n, struct2, size, strs2, sizestrs)
    <3>1. ThreeApart(fdt + 8, 2 * n + 2, size + FDT_TAGSIZE, sizestrs, fdt + struct, fdt + strs)
      BY <2>3 DEF ThreeApart, AreApart
    <3> QED
      BY <1>1, <2>1, <2>3, <2>4, <2>5, <3>1, PackBlocksIs
  <2>7. Fit(total2, rsv2, n, struct2, size, strs2, sizestrs)
    BY <2>3, <2>4, <2>5 DEF Fit
  <2>8. InBuffer(fdt, total2)
    <3>1. PICK b \in Buffers : b.addr = fdt /\ total <= b.size
      BY <2>3 DEF InBuffer
    <3>2. b.size \in Nat
      BY ConstantsAreTyped
    <3> QED
      BY <2>3, <2>5, <3>1, <3>2 DEF InBuffer
  <2>9. v = total2
    <3>1. off_dt_strings(g) = g[fdt + 3] /\ size_dt_strings(g) = g[fdt + 6]
      BY FieldNumbers, Zenon DEF off_dt_strings, size_dt_strings, Field
    <3>2. g[fdt + 3] = strs2 /\ g[fdt + 6] = sizestrs
      BY <2>6 DEF IsLaid, HasBlocks
    <3> QED
      BY <1>1, <2>4, <3>1, <3>2, Zenon DEF fdt_data_size_
  <2>10. IsMemory(h) /\ h[fdt + 1] = total2 /\ \A i \in 0..(MemSize - 1) : i # fdt + 1 => h[i] = g[i]
    <3>1. IsMemory(g) /\ fdt + 8 <= MemSize /\ 1 \in 0..7 /\ Fields["totalsize"] = 1
      BY <2>3, <2>4, <2>5, <2>6, FieldNumbers DEF IsLaid, HasBlocks
    <3>2. IsCellSet(g, With(g, "totalsize", v), fdt + 1, v)
      BY ONLY <2>3, <3>1, FieldSet
    <3> QED
      BY <1>1, <2>9, <3>2 DEF IsCellSet
  <2>11. Blob(h, fdt, total2, rsv2, n, struct2, size, strs2, sizestrs)
    BY <2>3, <2>6, <2>7, <2>8, <2>10, LaidIsBlob
  <2>12. IsSomeBlob(h)
    BY <2>11, Zenon DEF IsSomeBlob
  <2> QED
    BY <1>3, <2>12, EditIsGood
<1> QED
  BY <1>2, <1>3, RefusalIsGood

(* Another blob, at another address *)
LEMMA ReplacedIsGood ==
    ASSUME NEW h, NEW f, NEW total, NEW rsv, NEW n, NEW struct, NEW size, NEW strs, NEW sizestrs,
           Blob(h, f, total, rsv, n, struct, size, strs, sizestrs),
           mem' = Kept(h, f), fdt' = f, ret' = "OK"
    PROVE  StepIsGood
  BY BlobKept DEF StepIsGood

LEMMA RefuseIsGood ==
    ASSUME Good(mem, fdt), NEW error, Refuse(error)
    PROVE  StepIsGood
  BY DEF Refuse, StepIsGood

LEMMA OpenIntoIsGood ==
    ASSUME fdt # NULL, Good(mem, fdt), NEW b \in Buffers, fdt_open_into(b)
    PROVE  StepIsGood
<1>1. PICK newsize, to, tmp, g, k, moved, h :
         /\ newsize = HeaderSize + SizeMemRsv(mem) + size_dt_struct(mem) + size_dt_strings(mem)
         /\ to = b.addr
         /\ tmp = IF Apart(to, newsize) THEN to ELSE fdt + totalsize(mem)
         /\ g = fdt_packblocks_(mem, tmp) /\ k = memmove(g, to, tmp, newsize)
         /\ moved = memmove(mem, to, fdt, totalsize(mem))
         /\ h = [k EXCEPT ![to + Fields["magic"]] = FDT_MAGIC, ![to + Fields["flags"]] = 0]
  OBVIOUS
<1>2. \/ Refuse("NOSPACE")
      \/ /\ totalsize(mem) <= b.size /\ fdt' = to /\ ret' = "OK"
         /\ mem' = Kept([moved EXCEPT ![to + Fields["totalsize"]] = b.size], to)
      \/ /\ b.size >= newsize /\ tmp + newsize <= to + b.size /\ fdt' = to /\ ret' = "OK"
         /\ mem' = Kept([h EXCEPT ![to + Fields["totalsize"]] = b.size], to)
  BY <1>1, Zenon DEF fdt_open_into
<1>3. PICK total, rsv, n, struct, size, strs, sizestrs :
          Blob(mem, fdt, total, rsv, n, struct, size, strs, sizestrs)
  BY GoodIsBlob
<1>4. /\ totalsize(mem) = total /\ size_dt_struct(mem) = size + FDT_TAGSIZE
      /\ size_dt_strings(mem) = sizestrs /\ SizeMemRsv(mem) = 2 * n + 2
  BY <1>3, BlobFields
<1>5. /\ IsLaid(mem, fdt, rsv, n, struct, size, strs, sizestrs)
      /\ Fit(total, rsv, n, struct, size, strs, sizestrs) /\ fdt \in Nat /\ fdt + total <= MemSize
  BY <1>3, BlobIsLaid
<1>6. /\ total \in Nat /\ rsv \in Nat /\ n \in Nat /\ struct \in Nat /\ size \in Nat
      /\ strs \in Nat /\ sizestrs \in Nat /\ 8 <= rsv /\ 8 <= struct /\ 8 <= strs
      /\ struct + size + FDT_TAGSIZE <= total /\ strs + sizestrs <= total
      /\ FDT_TAGSIZE \in Nat \ {0} /\ MemSize \in Nat
  BY <1>5, TagSize DEF Fit
<1>7. PICK room : room = b.size
  OBVIOUS
<1>8. /\ to \in Nat /\ room \in Nat /\ to + room <= MemSize /\ InBuffer(to, room)
  BY <1>1, <1>7, ConstantsAreTyped DEF InBuffer
<1>9. CASE /\ totalsize(mem) <= b.size /\ fdt' = to /\ ret' = "OK"
           /\ mem' = Kept([moved EXCEPT ![to + Fields["totalsize"]] = b.size], to)
  <2>1. PICK o : o = [moved EXCEPT ![to + 1] = room]
    OBVIOUS
  <2>2. mem' = Kept(o, to) /\ total <= room
    BY <1>4, <1>7, <1>9, <2>1, FieldNumbers
  <2>3. moved = memmove(mem, to, fdt, total) /\ to + total <= MemSize
    BY <1>1, <1>4, <1>6, <1>8, <2>2
  <2>4. IsLaid(moved, to, rsv, n, struct, size, strs, sizestrs)
    BY ONLY <1>5, <1>8, <2>3, LaidMoves
  <2>5. IsCellSet(moved, o, to + 1, room)
    <3>1. IsMemory(moved) /\ to + 1 \in 0..(MemSize - 1)
      BY <1>6, <1>8, <2>2, <2>4 DEF IsLaid, HasBlocks
    <3> QED
      BY <2>1, <3>1, CellSet
  <2>6. Fit(room, rsv, n, struct, size, strs, sizestrs)
    BY <1>5, <1>6, <1>8, <2>2 DEF Fit
  <2>7. Blob(o, to, room, rsv, n, struct, size, strs, sizestrs)
    <3>1. IsMemory(o) /\ o[to + 1] = room /\ \A i \in 0..(MemSize - 1) : i # to + 1 => o[i] = moved[i]
      BY <2>5 DEF IsCellSet
    <3>2. \A i \in 0..(MemSize - 1) : i \notin {to, to + 1, to + 5} => o[i] = moved[i]
      BY <3>1
    <3> QED
      BY ONLY <1>8, <2>4, <2>6, <3>1, <3>2, LaidIsBlob
  <2> QED
    BY <1>9, <2>2, <2>7, ReplacedIsGood
<1>10. CASE /\ b.size >= newsize /\ tmp + newsize <= to + b.size /\ fdt' = to /\ ret' = "OK"
            /\ mem' = Kept([h EXCEPT ![to + Fields["totalsize"]] = b.size], to)
  <2>1. PICK o, i, rsv2, struct2, strs2 :
           /\ o = [h EXCEPT ![to + 1] = room] /\ i = [k EXCEPT ![to] = FDT_MAGIC]
           /\ rsv2 = 8 /\ struct2 = 2 * n + 10 /\ strs2 = struct2 + size + FDT_TAGSIZE
    OBVIOUS
  <2>2. mem' = Kept(o, to) /\ newsize <= room /\ tmp + newsize <= to + room
    BY <1>7, <1>8, <1>10, <2>1, FieldNumbers
  <2>3. newsize = strs2 + sizestrs /\ newsize \in Nat /\ struct2 \in Nat /\ strs2 \in Nat
    BY <1>1, <1>4, <1>6, <2>1 DEF HeaderSize
  <2>4. tmp \in Nat /\ tmp + newsize <= MemSize /\ (tmp + newsize <= fdt \/ fdt + total <= tmp)
    <3>1. tmp = to \/ tmp = fdt + total
      BY <1>1, <1>4
    <3>2. tmp = to /\ tmp # fdt + total => tmp + newsize <= fdt \/ fdt + total <= tmp
      BY <1>1, <1>4, <1>5, <1>6, <1>8, <2>3 DEF Apart
    <3> QED
      BY <1>5, <1>6, <1>8, <2>2, <2>3, <3>1, <3>2
  <2>5. IsLaid(g, tmp, rsv2, n, struct2, size, strs2, sizestrs)
    <3>1. ThreeApart(tmp + 8, 2 * n + 2, size + FDT_TAGSIZE, sizestrs, fdt + struct, fdt + strs)
      BY <1>5, <1>6, <2>1, <2>3, <2>4 DEF ThreeApart, AreApart
    <3>2. tmp + strs2 + sizestrs <= MemSize
      BY <1>6, <2>3, <2>4
    <3> QED
      BY <1>1, <1>3, <2>1, <2>4, <3>1, <3>2, PackBlocksIs
  <2>6. Fit(newsize, rsv2, n, struct2, size, strs2, sizestrs)
    BY <1>6, <2>1, <2>3 DEF Fit
  <2>7. IsLaid(k, to, rsv2, n, struct2, size, strs2, sizestrs)
    <3>1. k = memmove(g, to, tmp, newsize)
      BY <1>1, Zenon
    <3>2. to + newsize <= MemSize
      BY <1>6, <1>8, <2>2, <2>3
    <3> QED
      BY ONLY <1>8, <2>4, <2>5, <2>6, <3>1, <3>2, LaidMoves
  <2>8. to \in 0..(MemSize - 1) /\ to + 1 \in 0..(MemSize - 1) /\ to + 5 \in 0..(MemSize - 1)
    BY <1>6, <1>8, <2>1, <2>2, <2>3
  <2>9. IsCellSet(k, i, to, FDT_MAGIC)
    <3>1. IsMemory(k)
      BY <2>7 DEF IsLaid, HasBlocks
    <3> QED
      BY <2>1, <2>8, <3>1, CellSet
  <2>10. IsCellSet(i, h, to + 5, 0)
    <3>1. h = [i EXCEPT ![to + 5] = 0]
      <4>1. to + Fields["magic"] = to /\ Fields["flags"] = 5
        BY <1>8, FieldNumbers
      <4>2. h = [k EXCEPT ![to] = FDT_MAGIC, ![to + 5] = 0]
        BY <1>1, <4>1, Zenon
      <4>3. [k EXCEPT ![to] = FDT_MAGIC, ![to + 5] = 0]
              = [[k EXCEPT ![to] = FDT_MAGIC] EXCEPT ![to + 5] = 0]
        BY ONLY TRUE
      <4> QED
        BY <2>1, <4>2, <4>3, Zenon
    <3>2. IsMemory(i)
      BY <2>9 DEF IsCellSet
    <3> QED
      BY <2>8, <3>1, <3>2, CellSet
  <2>11. IsCellSet(h, o, to + 1, room)
    <3>1. IsMemory(h)
      BY <2>10 DEF IsCellSet
    <3> QED
      BY <2>1, <2>8, <3>1, CellSet
  <2>12. IsMemory(o) /\ o[to + 1] = room
         /\ \A j \in 0..(MemSize - 1) : j \notin {to, to + 1, to + 5} => o[j] = k[j]
    BY <2>9, <2>10, <2>11 DEF IsCellSet
  <2>13. Fit(room, rsv2, n, struct2, size, strs2, sizestrs)
    BY <1>8, <2>2, <2>3, <2>6, <1>6 DEF Fit
  <2>14. Blob(o, to, room, rsv2, n, struct2, size, strs2, sizestrs)
    BY ONLY <1>8, <2>7, <2>12, <2>13, LaidIsBlob
  <2> QED
    BY <1>10, <2>2, <2>14, ReplacedIsGood
<1> QED
  BY <1>2, <1>9, <1>10, RefuseIsGood

----------------------------------------------------------------------------
(* The tree of fdt_create_empty_tree *)

LEMMA EmptyStructIs ==
    ASSUME NEW e, e = EmptyStruct, NEW t, t = FDT_TAGSIZE
    PROVE  /\ e \in Seq(Int) /\ Len(e) = 4 * t
           /\ e[1] = FDT_BEGIN_NODE /\ e[t + 1] = 0 /\ e[2 * t + 1] = FDT_END_NODE
           /\ e[3 * t + 1] = FDT_END
<1>1. PICK u, v, w, x, y, z : /\ u = Word(FDT_BEGIN_NODE) /\ v = Word(0) /\ w = Word(FDT_END_NODE)
                              /\ x = Word(FDT_END) /\ y = u \o v /\ z = y \o w
  OBVIOUS
<1>2. t \in Nat \ {0}
  BY TagSize
<1>3. /\ u \in Seq(Int) /\ Len(u) = t /\ u[1] = FDT_BEGIN_NODE
      /\ v \in Seq(Int) /\ Len(v) = t /\ v[1] = 0
      /\ w \in Seq(Int) /\ Len(w) = t /\ w[1] = FDT_END_NODE
      /\ x \in Seq(Int) /\ Len(x) = t /\ x[1] = FDT_END
  <2>1. /\ FDT_BEGIN_NODE \in Int /\ FDT_END_NODE \in Int /\ FDT_END \in Int /\ 0 \in Int
    BY DEF FDT_BEGIN_NODE, FDT_END_NODE, FDT_END
  <2>2. t = FDT_TAGSIZE
    OBVIOUS
  <2> QED
    BY ONLY <1>1, <2>1, <2>2, WordIs, Zenon
<1>4. /\ y \in Seq(Int) /\ Len(y) = Len(u) + Len(v)
      /\ \A i \in 1..Len(u) : y[i] = u[i]
      /\ \A i \in 1..Len(v) : y[Len(u) + i] = v[i]
  <2>1. u \in Seq(Int) /\ v \in Seq(Int) /\ y = u \o v
    BY <1>1, <1>3, Zenon
  <2> QED
    BY ONLY <2>1, Concatenation
<1>5. /\ z \in Seq(Int) /\ Len(z) = Len(y) + Len(w)
      /\ \A i \in 1..Len(y) : z[i] = y[i]
      /\ \A i \in 1..Len(w) : z[Len(y) + i] = w[i]
  <2>1. y \in Seq(Int) /\ w \in Seq(Int) /\ z = y \o w
    BY <1>1, <1>3, <1>4, Zenon
  <2> QED
    BY ONLY <2>1, Concatenation
<1>6. /\ e \in Seq(Int) /\ Len(e) = Len(z) + Len(x)
      /\ \A i \in 1..Len(z) : e[i] = z[i]
      /\ \A i \in 1..Len(x) : e[Len(z) + i] = x[i]
  <2>1. z \in Seq(Int) /\ x \in Seq(Int)
    BY <1>3, <1>5, Zenon
  <2>2. e = z \o x
    BY <1>1, Zenon DEF EmptyStruct
  <2> QED
    BY ONLY <2>1, <2>2, Concatenation
<1>7. Len(y) = 2 * t /\ Len(z) = 3 * t /\ Len(e) = 4 * t
  <2>1. Len(y) = t + t /\ Len(z) = Len(y) + t /\ Len(e) = Len(z) + t
    BY <1>3, <1>4, <1>5, <1>6, Zenon
  <2> QED
    BY ONLY <1>2, <2>1
<1>8. /\ 1 \in 1..t /\ 1 \in 1..(2 * t) /\ t + 1 \in 1..(2 * t)
      /\ 1 \in 1..(3 * t) /\ t + 1 \in 1..(3 * t) /\ 2 * t + 1 \in 1..(3 * t)
  BY <1>2
<1>9. e[1] = FDT_BEGIN_NODE /\ e[t + 1] = 0
  <2>1. e[1] = z[1] /\ e[t + 1] = z[t + 1]
    BY <1>6, <1>7, <1>8, Zenon
  <2>2. z[1] = y[1] /\ z[t + 1] = y[t + 1]
    BY <1>5, <1>7, <1>8, Zenon
  <2>3. y[1] = u[1] /\ y[t + 1] = v[1]
    BY <1>3, <1>4, <1>8, Zenon
  <2> QED
    BY <1>3, <2>1, <2>2, <2>3, Zenon
<1>10. e[2 * t + 1] = FDT_END_NODE
  <2>1. e[2 * t + 1] = z[2 * t + 1]
    BY <1>6, <1>7, <1>8, Zenon
  <2>2. z[2 * t + 1] = w[1]
    BY <1>3, <1>5, <1>7, <1>8, Zenon
  <2> QED
    BY <1>3, <2>1, <2>2, Zenon
<1>11. e[3 * t + 1] = FDT_END
  BY <1>3, <1>6, <1>7, <1>8, Zenon
<1> QED
  BY <1>6, <1>7, <1>9, <1>10, <1>11

(* A node without a name, and nothing in it *)
LEMMA EmptyNodeLeads ==
    ASSUME NEW h, NEW a \in Nat, NEW t, t = FDT_TAGSIZE, NEW N,
           h[a] = FDT_BEGIN_NODE, h[a + t] = 0, h[a + 2 * t] = FDT_END_NODE
    PROVE  Leads(h, a, 3 * t, N, 0, 0)
<1>1. t \in Nat \ {0}
  BY TagSize
<1>2. PICK name, n, b, d : name = << >> /\ n = t + t /\ b = a + n /\ d = 0
  OBVIOUS
<1>3. name \in Seq(Nat \ {0}) /\ Len(name) = 0
  BY <1>2
<1>4. TagAlign(Len(name) + 1) = t
  <2>1. PICK x : x = Len(name) + 1
    OBVIOUS
  <2>2. x = 1 /\ x \in Nat /\ x \in Int
    BY <1>3, <2>1
  <2>3. TagAlign(x) \in Nat /\ Aligned(TagAlign(x)) /\ x <= TagAlign(x) /\ TagAlign(x) < x + FDT_TAGSIZE
    BY <2>2, TagAlignIs
  <2>4. Aligned(FDT_TAGSIZE) /\ x <= FDT_TAGSIZE /\ FDT_TAGSIZE < x + FDT_TAGSIZE
    BY <1>1, <2>2, AlignedTags
  <2>5. TagAlign(x) = FDT_TAGSIZE
    BY <2>2, <2>3, <2>4, AlignedIsUnique
  <2> QED
    BY <2>1, <2>5
<1>5. Written(h, a + FDT_TAGSIZE, Terminated(name))
  <2>1. PICK s : s = Terminated(name)
    OBVIOUS
  <2>2. Len(s) = 1 /\ s[1] = 0
    BY <1>2, <2>1 DEF Terminated
  <2>3. a + FDT_TAGSIZE + (1 - 1) = a + t
    BY <1>1
  <2>4. \A k \in 1..Len(s) : k = 1
    BY <2>2
  <2>5. \A k \in 1..Len(s) : h[a + FDT_TAGSIZE + (k - 1)] = s[k]
    BY <2>2, <2>3, <2>4
  <2> QED
    BY <2>1, <2>5 DEF Written
<1>6. /\ n = FDT_TAGSIZE + TagAlign(Len(name) + 1) /\ b = a + n /\ d \in Nat /\ a \in Int
      /\ h[b] = FDT_END_NODE /\ n + FDT_TAGSIZE = 3 * t
  BY <1>1, <1>2, <1>4
<1>7. Leads(h, a, n + FDT_TAGSIZE, N, d, d)
  BY ONLY <1>3, <1>5, <1>6, h[a] = FDT_BEGIN_NODE, NodeLeads
<1> QED
  BY <1>2, <1>6, <1>7

LEMMA AddTreeIsGood ==
    ASSUME Good(mem, fdt), NEW b \in Buffers, fdt_add_tree(b)
    PROVE  StepIsGood
<1>1. PICK t, e, room, to, head, first, tree, h :
         /\ t = FDT_TAGSIZE /\ e = EmptyStruct /\ room = b.size /\ to = b.addr
         /\ head = <<FDT_MAGIC, room, 10, 10 + Len(e), 8, 0, 0, Len(e)>>
         /\ first = head \o <<0, 0>> /\ tree = first \o e /\ h = Put(mem, to, tree)
  OBVIOUS
<1>2. \/ Refuse("NOSPACE")
      \/ room >= Len(tree) /\ mem' = Kept(h, to) /\ fdt' = to /\ ret' = "OK"
  <2>1. HeaderSize + ReserveSize = 10 /\ HeaderSize = 8
    BY DEF HeaderSize, ReserveSize
  <2>2. tree = <<FDT_MAGIC, b.size, HeaderSize + ReserveSize, HeaderSize + ReserveSize + Len(EmptyStruct),
                 HeaderSize, 0, 0, Len(EmptyStruct)>> \o <<0, 0>> \o EmptyStruct
    BY <1>1, <2>1
  <2> QED
    BY <1>1, <2>2, Zenon DEF fdt_add_tree
<1>3. CASE room >= Len(tree) /\ mem' = Kept(h, to) /\ fdt' = to /\ ret' = "OK"
  <2>1. /\ t \in Nat \ {0} /\ to \in Nat /\ room \in Nat /\ to + room <= MemSize
        /\ InBuffer(to, room) /\ IsMemory(mem) /\ MemSize \in Nat
    BY <1>1, TagSize, ConstantsAreTyped DEF InBuffer, Good
  <2>2. /\ e \in Seq(Int) /\ Len(e) = 4 * t
        /\ e[1] = FDT_BEGIN_NODE /\ e[t + 1] = 0 /\ e[2 * t + 1] = FDT_END_NODE
        /\ e[3 * t + 1] = FDT_END
    BY <1>1, EmptyStructIs
  <2>3. /\ head \in Seq(Int) /\ Len(head) = 8
        /\ head[2] = room /\ head[3] = 10 /\ head[4] = 10 + 4 * t /\ head[5] = 8 /\ head[7] = 0
        /\ head[8] = 4 * t
    <3>1. PICK x, y, u, v : x = 4 * t /\ y = 10 + x /\ u = FDT_MAGIC /\ v = 10
      OBVIOUS
    <3>2. x \in Int /\ y \in Int /\ u \in Int /\ v \in Int /\ room \in Int /\ 8 \in Int /\ 0 \in Int
      BY <2>1, <3>1 DEF FDT_MAGIC
    <3>3. head = <<u, room, v, y, 8, 0, 0, x>>
      BY <1>1, <2>2, <3>1
    <3>4. /\ head \in Seq(Int) /\ Len(head) = 8
          /\ head[2] = room /\ head[3] = v /\ head[4] = y /\ head[5] = 8 /\ head[7] = 0
          /\ head[8] = x
      BY ONLY <3>2, <3>3
    <3> QED
      BY <3>1, <3>4
  <2>4. PICK pair : pair = <<0, 0>>
    OBVIOUS
  <2>5. pair \in Seq(Int) /\ Len(pair) = 2 /\ pair[2] = 0
    BY <2>4
  <2>6. /\ first \in Seq(Int) /\ Len(first) = Len(head) + Len(pair)
        /\ \A i \in 1..Len(head) : first[i] = head[i]
        /\ \A i \in 1..Len(pair) : first[Len(head) + i] = pair[i]
    <3>1. head \in Seq(Int) /\ pair \in Seq(Int) /\ first = head \o pair
      BY <1>1, <2>3, <2>4, <2>5, Zenon
    <3> QED
      BY ONLY <3>1, Concatenation
  <2>7. /\ tree \in Seq(Int) /\ Len(tree) = Len(first) + Len(e)
        /\ \A i \in 1..Len(first) : tree[i] = first[i]
        /\ \A i \in 1..Len(e) : tree[Len(first) + i] = e[i]
    <3>1. first \in Seq(Int) /\ e \in Seq(Int) /\ tree = first \o e
      BY <1>1, <2>2, <2>6, Zenon
    <3> QED
      BY ONLY <3>1, Concatenation
  <2>8. Len(first) = 10 /\ Len(tree) = 10 + 4 * t
    <3>1. Len(first) = 8 + 2 /\ Len(tree) = Len(first) + 4 * t
      BY <2>2, <2>3, <2>5, <2>6, <2>7, Zenon
    <3> QED
      BY <2>1, <3>1
  <2>9. /\ tree[2] = room /\ tree[3] = 10 /\ tree[4] = 10 + 4 * t /\ tree[5] = 8 /\ tree[7] = 0
        /\ tree[8] = 4 * t /\ tree[10] = 0
    <3>a. \A i \in 1..8 : i \in 1..10
      OBVIOUS
    <3>1. \A i \in 1..8 : tree[i] = head[i]
      BY <2>3, <2>6, <2>7, <2>8, <3>a, Zenon
    <3>b. 2 \in 1..2 /\ 10 \in 1..10 /\ 8 + 2 = 10
      OBVIOUS
    <3>2. tree[10] = first[10] /\ first[8 + 2] = 0
      BY <2>3, <2>5, <2>6, <2>7, <2>8, <3>b, Zenon
    <3> QED
      BY <2>3, <3>1, <3>b, <3>2
  <2>10. \A i \in 1..(4 * t) : tree[10 + i] = e[i]
    BY <2>2, <2>7, <2>8
  <2>11. IsMemory(h) /\ \A k \in 1..(10 + 4 * t) : h[to + (k - 1)] = tree[k]
    <3>1. Len(tree) \in Nat /\ to + Len(tree) <= MemSize
      BY <1>3, <2>1, <2>8
    <3>2. IsMemory(h) /\ Written(h, to, tree)
      BY <1>1, <2>1, <3>1, PutCells
    <3> QED
      BY <2>8, <3>2 DEF Written
  <2>12. PICK total, rsv, n, struct, size, strs, sizestrs :
            /\ total = room /\ rsv = 8 /\ n = 0 /\ struct = 10 /\ size = 3 * t
            /\ strs = 10 + 4 * t /\ sizestrs = 0
    OBVIOUS
  <2>13. InHeader(h, to, total, rsv, struct, size, strs, sizestrs)
    <3>1. \A k \in 1..8 : k \in 1..(10 + 4 * t)
      BY <2>1
    <3>2. /\ to + (2 - 1) = to + 1 /\ to + (3 - 1) = to + 2 /\ to + (4 - 1) = to + 3
          /\ to + (5 - 1) = to + 4 /\ to + (7 - 1) = to + 6 /\ to + (8 - 1) = to + 7
          /\ size + FDT_TAGSIZE = 4 * t
      BY <1>1, <2>1, <2>12
    <3>3. /\ h[to + 1] = tree[2] /\ h[to + 2] = tree[3] /\ h[to + 3] = tree[4]
          /\ h[to + 4] = tree[5] /\ h[to + 6] = tree[7] /\ h[to + 7] = tree[8]
      BY <2>11, <3>1, <3>2
    <3> QED
      BY <2>9, <2>12, <3>2, <3>3 DEF InHeader
  <2>14. IsReserved(h, to + rsv, n)
    <3>1. 10 \in 1..(10 + 4 * t) /\ to + (10 - 1) = to + rsv + 2 * n + 1
      BY <2>1, <2>12
    <3>2. h[to + rsv + 2 * n + 1] = 0
      BY <2>9, <2>11, <3>1
    <3>3. 0..(n - 1) = {}
      BY <2>12
    <3> QED
      BY <3>2, <3>3 DEF IsReserved, ReserveSize
  <2>15. PICK a, N : a = to + struct /\ N = StringsIn(h, to + strs, sizestrs)
    OBVIOUS
  <2>16. a \in Nat /\ \A i \in 1..(4 * t) : h[a + (i - 1)] = e[i]
    <3>1. \A i \in 1..(4 * t) : 10 + i \in 1..(10 + 4 * t) /\ to + ((10 + i) - 1) = a + (i - 1)
      BY <2>1, <2>12, <2>15
    <3> QED
      BY <2>1, <2>10, <2>11, <2>12, <2>15, <3>1
  <2>17. /\ h[a] = FDT_BEGIN_NODE /\ h[a + t] = 0 /\ h[a + 2 * t] = FDT_END_NODE
         /\ h[a + size] = FDT_END
    <3>1. /\ 1 \in 1..(4 * t) /\ t + 1 \in 1..(4 * t) /\ 2 * t + 1 \in 1..(4 * t)
          /\ 3 * t + 1 \in 1..(4 * t)
          /\ a + (1 - 1) = a /\ a + ((t + 1) - 1) = a + t
          /\ a + ((2 * t + 1) - 1) = a + 2 * t /\ a + ((3 * t + 1) - 1) = a + size
      BY <2>1, <2>12, <2>16
    <3>2. /\ h[a + (1 - 1)] = e[1] /\ h[a + ((t + 1) - 1)] = e[t + 1]
          /\ h[a + ((2 * t + 1) - 1)] = e[2 * t + 1] /\ h[a + ((3 * t + 1) - 1)] = e[3 * t + 1]
      BY <2>16, <3>1, Zenon
    <3> QED
      BY <2>2, <3>1, <3>2
  <2>18. IsTree(h, a, size, N)
    <3>1. Leads(h, a, 3 * t, N, 0, 0)
      BY <1>1, <2>16, <2>17, EmptyNodeLeads
    <3> QED
      BY <2>12, <3>1 DEF Leads, IsTree
  <2>19. Fit(total, rsv, n, struct, size, strs, sizestrs)
    BY <1>1, <1>3, <2>1, <2>8, <2>12 DEF Fit
  <2>20. Holds(h, to, rsv, n, struct, size, strs, sizestrs)
    BY <2>14, <2>15, <2>17, <2>18 DEF Holds
  <2>21. Blob(h, to, total, rsv, n, struct, size, strs, sizestrs)
    BY <2>1, <2>11, <2>12, <2>13, <2>19, <2>20 DEF Blob, Shape
  <2> QED
    BY <1>3, <2>21, ReplacedIsGood
<1> QED
  BY <1>2, <1>3, RefuseIsGood

----------------------------------------------------------------------------
(* The theorems *)

LEMMA InitIsGood ==
    ASSUME Init
    PROVE  Good(mem, fdt)
<1>1. CASE fdt = NULL /\ mem = Blank
  <2>1. IsMemory(Blank)
    BY DEF Blank, IsMemory
  <2> QED
    BY <1>1, <2>1 DEF Good
<1>2. ASSUME NEW blob \in Loaded, NEW b \in Buffers, Len(blob.cells) <= b.size,
             fdt = b.addr, mem = Kept(Put(Blank, b.addr, blob.cells), b.addr)
      PROVE  Good(mem, fdt)
  <2>1. PICK cells, len, m, to, room, h, f :
           /\ cells = blob.cells /\ len = Len(blob.cells) /\ to = b.addr /\ room = b.size
           /\ m = [i \in 0..(Len(blob.cells) - 1) |-> blob.cells[i + 1]]
           /\ h = Put(Blank, to, cells) /\ f = 0
    OBVIOUS
  <2>2. /\ cells \in Seq(Int) /\ 8 <= len /\ IsBlob(m, f, blob.depth) /\ m[1] <= len
        /\ len = Len(cells)
    BY <2>1, LoadedAreBlobs, FieldNumbers DEF HeaderSize
  <2>3. /\ to \in Nat /\ room \in Nat /\ to + room <= MemSize /\ len <= room
        /\ MemSize \in Nat /\ len \in Nat /\ f \in Nat
    BY <1>2, <2>1, <2>2, TagSize, ConstantsAreTyped
  <2>4. PICK total, rsv, n, struct, size, strs, sizestrs :
            Shape(m, f, total, rsv, n, struct, size, strs, sizestrs)
    BY <2>2, <2>3, BlobHasShape
  <2>5. /\ Fit(total, rsv, n, struct, size, strs, sizestrs)
        /\ HasBlocks(m, f, rsv, n, struct, size, strs, sizestrs) /\ m[f + 1] = total
    BY <2>4, Zenon DEF Shape, InHeader, HasBlocks
  <2>6. total \in Nat /\ total <= len /\ 8 <= total
    <3>1. total \in Nat /\ rsv \in Nat /\ n \in Nat /\ rsv + 2 * n + 2 <= total /\ 8 <= rsv
      BY <2>5 DEF Fit
    <3>2. f + 1 = 1
      BY <2>1
    <3> QED
      BY <2>2, <2>5, <3>1, <3>2
  <2>7. IsMemory(Blank)
    BY DEF Blank, IsMemory
  <2>8. IsMemory(h) /\ Written(h, to, cells)
    <3>1. Len(cells) \in Nat /\ to + Len(cells) <= MemSize
      BY <2>2, <2>3
    <3> QED
      BY <2>1, <2>3, <2>7, <3>1, PutCells
  <2>9. Moved(m, f, h, to, total)
    <3>1. ASSUME NEW x \in 0..(total - 1) PROVE h[to + x] = m[f + x]
      <4>1. x + 1 \in 1..len /\ x \in 0..(len - 1) /\ to + ((x + 1) - 1) = to + x /\ f + x = x
        BY <2>1, <2>3, <2>6
      <4>2. h[to + ((x + 1) - 1)] = cells[x + 1]
        BY <2>2, <2>8, <4>1 DEF Written
      <4>3. m[x] = cells[x + 1]
        BY <2>1, <4>1
      <4> QED
        BY <4>1, <4>2, <4>3
    <3> QED
      BY <3>1 DEF Moved
  <2>10. HasBlocks(h, to, rsv, n, struct, size, strs, sizestrs)
    BY ONLY <2>3, <2>5, <2>9, BlocksMove
  <2>11. h[to + 1] = total
    <3>1. 1 \in 0..(total - 1)
      BY <2>6
    <3> QED
      BY <2>5, <2>9, <3>1 DEF Moved
  <2>12. InBuffer(to, total)
    <3>1. total <= room
      BY <2>3, <2>6
    <3> QED
      BY <2>1, <3>1 DEF InBuffer
  <2>13. Blob(h, to, total, rsv, n, struct, size, strs, sizestrs)
    <3>1. IsLaid(h, to, rsv, n, struct, size, strs, sizestrs)
      BY <2>8, <2>10 DEF IsLaid
    <3> QED
      BY <2>3, <2>5, <2>8, <2>11, <2>12, <3>1, LaidIsBlob
  <2>14. mem = Kept(h, to) /\ fdt = to
    BY <1>2, <2>1
  <2> QED
    BY <2>13, <2>14, BlobKept
<1> QED
  BY <1>1, <1>2, Zenon DEF Init

LEMMA EditNodeIsGood ==
    ASSUME fdt # NULL, Good(mem, fdt), NEW node \in NodeOffsets(mem), EditNode(node)
    PROVE  StepIsGood
<1>1. CASE \E name \in Names : fdt_add_node(node, name)
  BY <1>1, AddNodeIsGood
<1>2. CASE \E name \in {n \in Names : SLASH \notin ToSet(n)} : fdt_set_name(node, name)
  BY <1>2, SetNameIsGood
<1>3. CASE fdt_del_node(node)
  BY <1>3, DelNodeIsGood
<1>4. CASE fdt_nop_node(node)
  BY <1>4, NopNodeIsGood
<1>5. ASSUME NEW name \in PropNames, fdt_delprop(node, name)
      PROVE  StepIsGood
  BY <1>5, DelpropIsGood
<1>6. ASSUME NEW name \in PropNames, fdt_nop_property(node, name)
      PROVE  StepIsGood
  BY <1>6, NopPropertyIsGood
<1>7. ASSUME NEW name \in PropNames, NEW value \in Values, fdt_setprop(node, name, value)
      PROVE  StepIsGood
  BY <1>7, SetpropIsGood
<1>8. ASSUME NEW name \in PropNames, NEW value \in Values, fdt_appendprop(node, name, value)
      PROVE  StepIsGood
  BY <1>8, AppendpropIsGood
<1>9. ASSUME NEW name \in PropNames, NEW value \in Values, fdt_setprop_inplace(node, name, value)
      PROVE  StepIsGood
  BY <1>9, InplaceIsGood
<1> QED
  BY <1>1, <1>2, <1>3, <1>4, <1>5, <1>6, <1>7, <1>8, <1>9, Zenon DEF EditNode

LEMMA StepsAreGood ==
    ASSUME Good(mem, fdt), [Next]_vars
    PROVE  StepIsGood
<1>1. ASSUME NEW b \in Buffers, fdt_add_tree(b)
      PROVE  StepIsGood
  BY <1>1, AddTreeIsGood
<1>2. ASSUME fdt # NULL, NEW b \in Buffers, fdt_open_into(b)
      PROVE  StepIsGood
  BY <1>2, OpenIntoIsGood
<1>3. CASE fdt # NULL /\ fdt_pack
  BY <1>3, PackIsGood
<1>4. ASSUME fdt # NULL, NEW r \in Reservations, fdt_add_mem_rsv(r)
      PROVE  StepIsGood
  BY <1>4, AddMemRsvIsGood
<1>5. ASSUME fdt # NULL, NEW n \in 0..1, fdt_del_mem_rsv(n)
      PROVE  StepIsGood
  <2>1. n \in Nat
    OBVIOUS
  <2> QED
    BY <1>5, <2>1, DelMemRsvIsGood
<1>6. ASSUME fdt # NULL, NEW node \in NodeOffsets(mem), EditNode(node)
      PROVE  StepIsGood
  BY <1>6, EditNodeIsGood
<1>7. CASE UNCHANGED vars
  BY <1>7 DEF vars, StepIsGood
<1> QED
  BY <1>1, <1>2, <1>3, <1>4, <1>5, <1>6, <1>7, Zenon DEF Next

(* The name of a property ends in the block of the strings. *)
LEMMA NamesEnd ==
    ASSUME NEW m, NEW at \in Nat, NEW size \in Nat, at + size <= MemSize,
           NEW o \in StringsIn(m, at, size)
    PROVE  NulFrom(m, at + o) < at + size
<1>1. MemSize \in Nat /\ o \in Nat
  BY TagSize DEF StringsIn
<1>2. PICK z \in o..(size - 1) : m[at + z] = 0
  BY DEF StringsIn
<1>3. PICK T : T = {i \in (at + o)..(at + size - 1) : m[i] = 0}
  OBVIOUS
<1>4. T \subseteq Nat /\ at + z \in T
  BY <1>1, <1>2, <1>3
<1>5. PICK k \in T : \A j \in T : k <= j
  BY <1>4, LeastOf
<1>6. /\ k \in Nat /\ at + o <= k /\ k < at + size /\ k < MemSize /\ m[k] = 0 /\ at + o \in Nat
  BY <1>1, <1>3, <1>5
<1>7. ASSUME NEW j \in (at + o)..(k - 1) PROVE m[j] # 0
  <2>1. j \notin T
    BY <1>5, <1>6
  <2>2. j \in (at + o)..(at + size - 1)
    BY <1>6
  <2> QED
    BY <1>3, <2>1, <2>2
<1>8. NulFrom(m, at + o) = k
  BY <1>6, <1>7, NulFromIs
<1> QED
  BY <1>6, <1>8

LEMMA GoodIsReadable ==
    ASSUME Good(mem, fdt)
    PROVE  EditedIsReadable
<1>1. SUFFICES ASSUME fdt # NULL
               PROVE  EditedIsReadable
  BY DEF EditedIsReadable
<1>2. PICK total, rsv, n, struct, size, strs, sizestrs, at, N, D :
          IsFound(total, rsv, n, struct, size, strs, sizestrs, at, N, D)
  BY <1>1, IsFoundAlways
<1>3. /\ Blob(mem, fdt, total, rsv, n, struct, size, strs, sizestrs)
      /\ at = fdt + struct /\ N = StringsIn(mem, fdt + strs, sizestrs)
      /\ IsStructOf(mem, at, size, D, N)
  BY <1>2 DEF IsFound
<1>4. /\ totalsize(mem) = total /\ off_mem_rsvmap(mem) = rsv /\ off_dt_struct(mem) = struct
      /\ off_dt_strings(mem) = strs /\ size_dt_strings(mem) = sizestrs
      /\ size_dt_struct(mem) = size + FDT_TAGSIZE /\ fdt_data_size_(mem) = strs + sizestrs
      /\ SizeMemRsv(mem) = 2 * n + 2
  BY <1>3, BlobFields
<1>5. /\ Fit(total, rsv, n, struct, size, strs, sizestrs) /\ InBuffer(fdt, total)
      /\ fdt \in Nat /\ fdt + total <= MemSize
  BY <1>3 DEF Blob, Shape
<1>6. /\ total \in Nat /\ rsv \in Nat /\ n \in Nat /\ struct \in Nat /\ size \in Nat
      /\ strs \in Nat /\ sizestrs \in Nat /\ 8 <= rsv /\ 8 <= struct /\ 8 <= strs
      /\ rsv + 2 * n + 2 <= total /\ struct + size + FDT_TAGSIZE <= total
      /\ strs + sizestrs <= total /\ FDT_TAGSIZE \in Nat \ {0} /\ MemSize \in Nat
  BY <1>5, TagSize DEF Fit
<1>7. PICK blocks, p, q, r, s : /\ blocks = {p, q, r, s}
                                /\ p = <<0, HeaderSize>> /\ q = <<off_mem_rsvmap(mem), SizeMemRsv(mem)>>
                                /\ r = <<off_dt_struct(mem), size_dt_struct(mem)>>
                                /\ s = <<off_dt_strings(mem), size_dt_strings(mem)>>
  OBVIOUS
<1>8. /\ p[1] = 0 /\ p[2] = 8 /\ q[1] = rsv /\ q[2] = 2 * n + 2
      /\ r[1] = struct /\ r[2] = size + FDT_TAGSIZE /\ s[1] = strs /\ s[2] = sizestrs
  BY <1>4, <1>7 DEF HeaderSize
<1>9. ASSUME NEW x \in blocks, NEW y \in blocks, x # y
      PROVE  x[1] + x[2] <= y[1] \/ y[1] + y[2] <= x[1]
  <2>1. x \in {p, q, r, s} /\ y \in {p, q, r, s}
    BY <1>7
  <2>2. /\ rsv + (2 * n + 2) <= struct \/ struct + (size + FDT_TAGSIZE) <= rsv
        /\ rsv + (2 * n + 2) <= strs \/ strs + sizestrs <= rsv
        /\ struct + (size + FDT_TAGSIZE) <= strs \/ strs + sizestrs <= struct
    BY <1>5, <1>6 DEF Fit
  <2> QED
    BY <1>6, <1>8, <1>9, <2>1, <2>2
<1>10. \A x \in blocks : x[1] + x[2] <= totalsize(mem)
  BY <1>4, <1>6, <1>7, <1>8
<1>11. \E b \in Buffers : b.addr = fdt /\ totalsize(mem) <= b.size
  BY <1>4, <1>5 DEF InBuffer
<1>12. WalkEnds(mem)
  <2>1. /\ at \in Nat /\ at = fdt + off_dt_struct(mem) /\ size_dt_struct(mem) \in Nat
        /\ at + size_dt_struct(mem) <= MemSize /\ size \in Nat
        /\ size + FDT_TAGSIZE = size_dt_struct(mem)
        /\ IsChain(mem, at, size, DOMAIN D) /\ mem[at + size] = FDT_END
    BY <1>3, <1>4, <1>6 DEF IsStructOf, IsStruct
  <2> QED
    BY <2>1, ChainEnds
<1>13. ASSUME NEW o \in ToSet(TagOffsets(mem)), mem[At(mem, o)] = FDT_PROP
       PROVE  NulFrom(mem, fdt + off_dt_strings(mem) + mem[At(mem, o) + 2 * FDT_TAGSIZE])
                 < fdt + fdt_data_size_(mem)
  <2>1. PICK a, v : a = fdt + strs /\ v = mem[At(mem, o) + 2 * FDT_TAGSIZE]
    OBVIOUS
  <2>2. At(mem, o) = at + o
    BY <1>3, <1>4, Zenon DEF At
  <2>3. o \in DOMAIN D \ {size}
    BY <1>3, OffsetsAre
  <2>4. v \in StringsIn(mem, a, sizestrs)
    BY <1>3, <1>13, <2>1, <2>2, <2>3, PropIs
  <2>5. a \in Nat /\ a + sizestrs <= MemSize /\ a + sizestrs = fdt + (strs + sizestrs)
    BY <1>5, <1>6, <2>1
  <2>6. NulFrom(mem, a + v) < a + sizestrs
    BY <1>6, <2>4, <2>5, NamesEnd
  <2> QED
    BY <1>4, <2>1, <2>5, <2>6
<1> QED
  BY <1>7, <1>9, <1>10, <1>11, <1>12, <1>13, Zenon DEF EditedIsReadable

(* What all states have in common: the memory is the blob in its buffer    *)
(* and left over cells around it, and the blob's blocks hold reservations, *)
(* a tree of whole tags and the strings that name its properties.          *)
EditedIsGood == Good(mem, fdt)

(* The invariant is inductive: every call of fdt_rw.c and fdt_wip.c finds  *)
(* the numbers in the header as the call before left them.                 *)
THEOREM EditedStaysGood == Spec => []EditedIsGood
<1>1. Init => EditedIsGood
  BY InitIsGood DEF EditedIsGood
<1>2. EditedIsGood /\ [Next]_vars => EditedIsGood'
  <2>1. SUFFICES ASSUME Good(mem, fdt), [Next]_vars
                 PROVE  Good(mem', fdt')
    BY DEF EditedIsGood
  <2> QED
    BY <2>1, StepsAreGood DEF StepIsGood
<1> QED
  BY <1>1, <1>2, PTL DEF Spec

(* Whatever calls of fdt_rw.c, fdt_wip.c and DTBExtnLib_create-dtb.c are   *)
(* made on a blob, and in whatever order, its blocks are apart and in its  *)
(* buffer, its tags can be walked over up to FDT_END, and each property's  *)
(* name is a whole string of the block of strings.                         *)
THEOREM EditedStaysReadable == Spec => []EditedIsReadable
<1>1. EditedIsGood => EditedIsReadable
  BY GoodIsReadable DEF EditedIsGood
<1> QED
  BY <1>1, EditedStaysGood, PTL

(* A call that fails leaves every cell of the blob as it was: where there  *)
(* is no room for a property, the string that fdt_add_property_ had put    *)
(* behind the others for its name is not part of the blob afterwards.      *)
THEOREM FailedEditTakesNothing == Spec => FailureTakesNothing
<1>1. EditedIsGood /\ [Next]_vars => [ret' # "OK" => mem' = mem /\ fdt' = fdt]_vars
  <2>1. SUFFICES ASSUME Good(mem, fdt), [Next]_vars
                 PROVE  ret' # "OK" => mem' = mem /\ fdt' = fdt
    BY DEF EditedIsGood
  <2> QED
    BY <2>1, StepsAreGood DEF StepIsGood
<1> QED
  BY <1>1, EditedStaysGood, PTL DEF Spec, FailureTakesNothing
=============================================================================
