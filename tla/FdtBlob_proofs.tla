---------------------------- MODULE FdtBlob_proofs ----------------------------
(***************************************************************************)
(* Lemmas about a blob in memory that the proofs about libfdt's writers    *)
(* share: alignment, the cells calls leave alone, and the tags of the      *)
(* structure block as a chain that fdt_next_tag follows.                   *)
(***************************************************************************)
EXTENDS FdtBlob, TLAPS, SequenceTheorems, WellFoundedInduction

----------------------------------------------------------------------------
(* Numbers *)

(* A nonempty set of naturals has a least element. *)
LEMMA LeastOf ==
    ASSUME NEW T, T \subseteq Nat, T # {}
    PROVE  \E k \in T : \A j \in T : k <= j
<1>1. PICK k \in T : \A j \in T : ~ (<<j, k>> \in OpToRel(<, Nat))
  BY NatLessThanWellFounded, WFMin, Zenon
<1>2. \A j \in T : k <= j
  <2>1. TAKE j \in T
  <2>2. j \in Nat /\ k \in Nat
    OBVIOUS
  <2>3. ~ (j < k)
    BY <1>1, <2>2 DEF OpToRel
  <2> QED
    BY <2>2, <2>3
<1> QED
  BY <1>2

(* One that has a bound has a greatest element. *)
LEMMA GreatestOf ==
    ASSUME NEW n \in Nat, NEW T, T \subseteq 0..n, T # {}
    PROVE  \E k \in T : \A j \in T : j <= k
<1> DEFINE below == {n - j : j \in T}
<1>1. \A j \in T : j \in Nat /\ n - j \in Nat /\ n - j \in below
  OBVIOUS
<1>2. PICK b \in below : \A c \in below : b <= c
  <2>1. below \subseteq Nat
    BY <1>1
  <2>2. below # {}
    BY <1>1
  <2> HIDE DEF below
  <2> QED
    BY <2>1, <2>2, LeastOf
<1>3. PICK k \in T : b = n - k
  OBVIOUS
<1>4. ASSUME NEW j \in T PROVE j <= k
  <2>1. n - k <= n - j /\ j \in Nat /\ k \in Nat
    BY <1>1, <1>2, <1>3
  <2> QED
    BY <2>1
<1> QED
  BY <1>4

LEMMA TagSize == FDT_TAGSIZE \in Nat \ {0} /\ MemSize \in Nat
  BY ConstantsAreTyped

(* A multiple of the size of a tag *)
LEMMA AlignedIs ==
    ASSUME NEW x
    PROVE  Aligned(x) <=> \E k \in Nat : x = k * FDT_TAGSIZE
<1>1. ASSUME NEW y \in Nat
      PROVE  \E q \in Nat : /\ TagAlign(y) = q * FDT_TAGSIZE /\ q * FDT_TAGSIZE \in Nat
                           /\ y <= q * FDT_TAGSIZE /\ q * FDT_TAGSIZE < y + FDT_TAGSIZE
  <2> DEFINE z == y + FDT_TAGSIZE - 1
             q == z \div FDT_TAGSIZE
  <2>1. z \in Nat
    BY TagSize
  <2>2. q \in Nat /\ q * FDT_TAGSIZE <= z /\ z < q * FDT_TAGSIZE + FDT_TAGSIZE
    <3> HIDE DEF z
    <3> QED
      BY <2>1, TagSize
  <2>3. TagAlign(y) = q * FDT_TAGSIZE
    BY DEF TagAlign
  <2> HIDE DEF q
  <2>4. q * FDT_TAGSIZE \in Nat
    BY <2>2, TagSize
  <2> QED
    BY <2>2, <2>3, <2>4, TagSize
<1>2. ASSUME Aligned(x) PROVE \E k \in Nat : x = k * FDT_TAGSIZE
  BY <1>1, <1>2 DEF Aligned
<1>3. ASSUME NEW k \in Nat, x = k * FDT_TAGSIZE PROVE Aligned(x)
  <2>1. x \in Nat
    BY <1>3, TagSize
  <2>2. PICK q \in Nat : /\ TagAlign(x) = q * FDT_TAGSIZE
                         /\ x <= q * FDT_TAGSIZE /\ q * FDT_TAGSIZE < x + FDT_TAGSIZE
    BY <1>1, <2>1
  <2>3. CASE q < k
    <3>1. q * FDT_TAGSIZE + FDT_TAGSIZE <= k * FDT_TAGSIZE
      BY <2>3, TagSize
    <3> QED
      BY <1>3, <2>1, <2>2, <3>1, TagSize
  <2>4. CASE q > k
    <3>1. k * FDT_TAGSIZE + FDT_TAGSIZE <= q * FDT_TAGSIZE
      BY <2>4, TagSize
    <3> QED
      BY <1>3, <2>1, <2>2, <3>1, TagSize
  <2>5. CASE q = k
    BY <1>3, <2>1, <2>2, <2>5 DEF Aligned
  <2> QED
    BY <2>2, <2>3, <2>4, <2>5
<1> QED
  BY <1>2, <1>3

LEMMA AlignedIsNat ==
    ASSUME NEW x, Aligned(x)
    PROVE  x \in Nat
  BY TagSize, AlignedIs

LEMMA AlignedSum ==
    ASSUME NEW x, Aligned(x), NEW y, Aligned(y)
    PROVE  Aligned(x + y)
<1>1. PICK j \in Nat : x = j * FDT_TAGSIZE
  BY AlignedIs
<1>2. PICK k \in Nat : y = k * FDT_TAGSIZE
  BY AlignedIs
<1>3. x + y = (j + k) * FDT_TAGSIZE
  BY <1>1, <1>2, TagSize
<1> QED
  BY <1>3, AlignedIs

LEMMA AlignedTags ==
    Aligned(0) /\ Aligned(FDT_TAGSIZE) /\ Aligned(3 * FDT_TAGSIZE)
<1>1. 0 = 0 * FDT_TAGSIZE /\ FDT_TAGSIZE = 1 * FDT_TAGSIZE
  BY TagSize
<1> QED
  BY <1>1, AlignedIs

(* TagAlign is the least multiple of a tag's size that is not below x. *)
LEMMA TagAlignIs ==
    ASSUME NEW x \in Nat
    PROVE  /\ TagAlign(x) \in Nat /\ Aligned(TagAlign(x))
           /\ x <= TagAlign(x) /\ TagAlign(x) < x + FDT_TAGSIZE
<1> DEFINE y == x + FDT_TAGSIZE - 1
           q == y \div FDT_TAGSIZE
<1>1. y \in Nat
  BY TagSize
<1>2. q \in Nat /\ q * FDT_TAGSIZE <= y /\ y < q * FDT_TAGSIZE + FDT_TAGSIZE
  <2> HIDE DEF y
  <2> QED
    BY <1>1, TagSize
<1>3. TagAlign(x) = q * FDT_TAGSIZE
  BY DEF TagAlign
<1> HIDE DEF q
<1>4. q * FDT_TAGSIZE \in Nat
  BY <1>2, TagSize
<1> QED
  BY <1>2, <1>3, <1>4, TagSize, AlignedIs

LEMMA AlignedIsUnique ==
    ASSUME NEW x \in Int, NEW a, Aligned(a), NEW b, Aligned(b),
           x <= a, a < x + FDT_TAGSIZE, x <= b, b < x + FDT_TAGSIZE
    PROVE  a = b
<1>1. PICK j \in Nat : a = j * FDT_TAGSIZE
  BY AlignedIs
<1>2. PICK k \in Nat : b = k * FDT_TAGSIZE
  BY AlignedIs
<1>3. ASSUME NEW p \in Nat, NEW q \in Nat, p > q
      PROVE  p * FDT_TAGSIZE >= q * FDT_TAGSIZE + FDT_TAGSIZE
  <2>1. p * FDT_TAGSIZE >= (q + 1) * FDT_TAGSIZE
    BY <1>3, TagSize
  <2>2. (q + 1) * FDT_TAGSIZE = q * FDT_TAGSIZE + FDT_TAGSIZE
    BY TagSize
  <2> QED
    BY <2>1, <2>2
<1>4. a \in Nat /\ b \in Nat
  BY AlignedIsNat
<1>5. ~(j > k) /\ ~(k > j)
  BY <1>1, <1>2, <1>3, <1>4, TagSize
<1> QED
  BY <1>1, <1>2, <1>5

LEMMA Concatenation ==
    ASSUME NEW w \in Seq(Int), NEW z \in Seq(Int), NEW s, s = w \o z
    PROVE  /\ s \in Seq(Int) /\ Len(s) = Len(w) + Len(z)
           /\ \A i \in 1..Len(w) : s[i] = w[i]
           /\ \A i \in 1..Len(z) : s[Len(w) + i] = z[i]
<1>1. s \in Seq(Int) /\ Len(s) = Len(w) + Len(z)
  BY ConcatProperties
<1>2. \A i \in 1..Len(s) : s[i] = IF i <= Len(w) THEN w[i] ELSE z[i - Len(w)]
  BY ConcatProperties
<1>3. Len(w) \in Nat /\ Len(z) \in Nat
  OBVIOUS
<1>4. \A i \in 1..Len(w) : i \in 1..Len(s) /\ i <= Len(w)
  BY <1>1, <1>3
<1>5. \A i \in 1..Len(z) : /\ Len(w) + i \in 1..Len(s) /\ ~(Len(w) + i <= Len(w))
                           /\ Len(w) + i - Len(w) = i
  BY <1>1, <1>3
<1> QED
  BY <1>1, <1>2, <1>4, <1>5

(* The cells of a word *)
LEMMA WordIs ==
    ASSUME NEW x \in Int
    PROVE  Word(x) \in Seq(Int) /\ Len(Word(x)) = FDT_TAGSIZE /\ Word(x)[1] = x
<1>1. FDT_TAGSIZE \in Nat \ {0}
  BY TagSize
<1>2. Word(x) \in [1..FDT_TAGSIZE -> Int]
  BY DEF Word
<1>3. Word(x)[1] = x
  BY <1>1 DEF Word
<1>4. Len(Word(x)) = FDT_TAGSIZE
  BY <1>1, <1>2 DEF Word
<1>5. Word(x) \in Seq(Int)
  BY <1>1, <1>2
<1> QED
  BY <1>3, <1>4, <1>5

(* What the first words of a property's record say *)
PropRecord(s, len, nameoff) ==
    /\ s \in Seq(Int) /\ Len(s) = 3 * FDT_TAGSIZE + len
    /\ s[1] = FDT_PROP /\ s[FDT_TAGSIZE + 1] = len
    /\ s[2 * FDT_TAGSIZE + 1] = nameoff

(* The words of a property, and its value *)
LEMMA PropCells ==
    ASSUME NEW value \in Seq(Nat), NEW nameoff \in Int,
           NEW s, s = ((Word(FDT_PROP) \o Word(Len(value))) \o Word(nameoff)) \o value
    PROVE  PropRecord(s, Len(value), nameoff)
<1>a. PICK u, v, w, len : /\ len = Len(value)
                         /\ u = Word(FDT_PROP) /\ v = Word(len) /\ w = Word(nameoff)
  OBVIOUS
<1>b. PICK t : t = u \o v
  OBVIOUS
<1>c. PICK prop : prop = t \o w
  OBVIOUS
<1>0. FDT_TAGSIZE \in Nat \ {0} /\ len \in Nat
  BY <1>a, TagSize
<1>1. /\ u \in Seq(Int) /\ v \in Seq(Int) /\ w \in Seq(Int)
      /\ Len(u) = FDT_TAGSIZE /\ Len(v) = FDT_TAGSIZE /\ Len(w) = FDT_TAGSIZE
      /\ u[1] = FDT_PROP /\ v[1] = len /\ w[1] = nameoff
  <2>1. FDT_PROP \in Int /\ len \in Int /\ nameoff \in Int
    BY <1>0 DEF FDT_PROP
  <2> QED
    BY ONLY <1>a, <2>1, WordIs, Zenon
<1>2. /\ t \in Seq(Int) /\ Len(t) = Len(u) + Len(v)
      /\ \A i \in 1..Len(u) : t[i] = u[i]
      /\ \A i \in 1..Len(v) : t[Len(u) + i] = v[i]
  <2>1. u \in Seq(Int) /\ v \in Seq(Int)
    BY <1>1, Zenon
  <2> QED
    BY ONLY <2>1, <1>b, Concatenation
<1>3. /\ prop \in Seq(Int) /\ Len(prop) = Len(t) + Len(w)
      /\ \A i \in 1..Len(t) : prop[i] = t[i]
      /\ \A i \in 1..Len(w) : prop[Len(t) + i] = w[i]
  <2>1. t \in Seq(Int) /\ w \in Seq(Int)
    BY <1>1, <1>2, Zenon
  <2> QED
    BY ONLY <2>1, <1>c, Concatenation
<1>4. /\ s \in Seq(Int) /\ Len(s) = Len(prop) + Len(value)
      /\ \A i \in 1..Len(prop) : s[i] = prop[i]
  <2>1. prop \in Seq(Int) /\ value \in Seq(Int)
    BY <1>3
  <2>2. s = prop \o value
    <3>1. prop = (Word(FDT_PROP) \o Word(Len(value))) \o Word(nameoff)
      BY ONLY <1>a, <1>b, <1>c, Zenon
    <3> QED
      BY <3>1, Zenon
  <2> QED
    BY ONLY <2>1, <2>2, Concatenation
<1>5. Len(t) = 2 * FDT_TAGSIZE /\ Len(prop) = 3 * FDT_TAGSIZE
  <2>1. Len(t) = FDT_TAGSIZE + FDT_TAGSIZE
    BY <1>1, <1>2, Zenon
  <2>2. Len(prop) = Len(t) + FDT_TAGSIZE
    BY <1>1, <1>3, Zenon
  <2> QED
    BY ONLY <1>0, <2>1, <2>2
<1>6. /\ 1 \in 1..FDT_TAGSIZE /\ 1 \in 1..(2 * FDT_TAGSIZE) /\ 1 \in 1..(3 * FDT_TAGSIZE)
      /\ FDT_TAGSIZE + 1 \in 1..(2 * FDT_TAGSIZE) /\ FDT_TAGSIZE + 1 \in 1..(3 * FDT_TAGSIZE)
      /\ 2 * FDT_TAGSIZE + 1 \in 1..(3 * FDT_TAGSIZE)
  BY <1>0
<1>7. s[1] = FDT_PROP
  <2>1. s[1] = prop[1] /\ prop[1] = t[1] /\ t[1] = u[1]
    BY <1>1, <1>2, <1>3, <1>4, <1>5, <1>6, Zenon
  <2> QED
    BY <1>1, <2>1, Zenon
<1>8. s[FDT_TAGSIZE + 1] = len
  <2>1. s[FDT_TAGSIZE + 1] = prop[FDT_TAGSIZE + 1] /\ prop[FDT_TAGSIZE + 1] = t[FDT_TAGSIZE + 1]
    BY <1>3, <1>4, <1>5, <1>6, Zenon
  <2>2. t[FDT_TAGSIZE + 1] = v[1]
    BY <1>1, <1>2, <1>6, Zenon
  <2> QED
    BY <1>1, <2>1, <2>2, Zenon
<1>9. s[2 * FDT_TAGSIZE + 1] = nameoff
  <2>1. s[2 * FDT_TAGSIZE + 1] = prop[2 * FDT_TAGSIZE + 1]
    BY <1>4, <1>5, <1>6, Zenon
  <2>2. prop[2 * FDT_TAGSIZE + 1] = w[1]
    BY <1>1, <1>3, <1>5, <1>6, Zenon
  <2> QED
    BY <1>1, <2>1, <2>2, Zenon
<1>10. Len(s) = 3 * FDT_TAGSIZE + len
  BY <1>4, <1>5, <1>a, Zenon
<1> QED
  BY <1>4, <1>7, <1>8, <1>9, <1>10, <1>a, Zenon DEF PropRecord

----------------------------------------------------------------------------
(* Tags *)

(* A tag is read from its own cells only, and the offset of a property's    *)
(* name is not needed for it.                                              *)
LEMMA TagSurvives ==
    ASSUME NEW m, NEW at \in Int, NEW n, NEW to \in Int,
           NEW o \in Nat, NEW next \in Nat, o < next,
           IsTag(m, at, o, next),
           \A x \in o..(next - 1) :
              m[at + o] # FDT_PROP \/ x # o + 2 * FDT_TAGSIZE => n[to + x] = m[at + x]
    PROVE  IsTag(n, to, o, next)
<1>0. FDT_TAGSIZE \in Nat \ {0} /\ Aligned(next)
  BY TagSize DEF IsTag
<1>1. n[to + o] = m[at + o]
  <2>1. o \in o..(next - 1) /\ o # o + 2 * FDT_TAGSIZE
    BY <1>0
  <2> QED
    BY <2>1
<1>2. CASE m[at + o] \in {FDT_END_NODE, FDT_NOP} /\ next = o + FDT_TAGSIZE
  BY <1>0, <1>1, <1>2 DEF IsTag
<1>3. CASE m[at + o] = FDT_BEGIN_NODE
  <2>0. PICK z \in (o + FDT_TAGSIZE)..(next - 1) :
            /\ next < z + 1 + FDT_TAGSIZE
            /\ m[at + z] = 0
            /\ \A y \in (o + FDT_TAGSIZE)..(z - 1) : m[at + y] # 0
    BY <1>3 DEF IsTag, FDT_BEGIN_NODE, FDT_END_NODE, FDT_NOP, FDT_PROP
  <2>1. /\ z \in Nat /\ o + FDT_TAGSIZE <= z
         /\ z + 1 <= next /\ next < z + 1 + FDT_TAGSIZE
         /\ m[at + z] = 0
         /\ \A y \in (o + FDT_TAGSIZE)..(z - 1) : m[at + y] # 0
    BY <2>0, TagSize
  <2>2. z \in o..(next - 1) /\ \A y \in (o + FDT_TAGSIZE)..(z - 1) : y \in o..(next - 1)
    BY <1>0, <2>1
  <2>4. m[at + o] # FDT_PROP
    BY <1>3 DEF FDT_BEGIN_NODE, FDT_PROP
  <2>3. n[to + z] = 0 /\ \A y \in (o + FDT_TAGSIZE)..(z - 1) : n[to + y] # 0
    BY <2>1, <2>2, <2>4
  <2> QED
    BY <1>0, <1>1, <1>3, <2>1, <2>3 DEF IsTag
<1>4. CASE m[at + o] = FDT_PROP
  <2>1. /\ m[at + o + FDT_TAGSIZE] \in Nat
        /\ o + 3 * FDT_TAGSIZE + m[at + o + FDT_TAGSIZE] <= next
        /\ next < o + 3 * FDT_TAGSIZE + m[at + o + FDT_TAGSIZE] + FDT_TAGSIZE
    BY <1>4 DEF IsTag, FDT_BEGIN_NODE, FDT_END_NODE, FDT_NOP, FDT_PROP
  <2>2. o + FDT_TAGSIZE \in o..(next - 1) /\ o + FDT_TAGSIZE # o + 2 * FDT_TAGSIZE
    BY <1>0, <2>1
  <2>3. n[to + (o + FDT_TAGSIZE)] = m[at + (o + FDT_TAGSIZE)]
    BY <2>2
  <2>4. /\ to + (o + FDT_TAGSIZE) = to + o + FDT_TAGSIZE
        /\ at + (o + FDT_TAGSIZE) = at + o + FDT_TAGSIZE
    BY <1>0
  <2>5. n[to + o + FDT_TAGSIZE] = m[at + o + FDT_TAGSIZE]
    BY <2>3, <2>4
  <2> QED
    BY <1>0, <1>1, <1>4, <2>1, <2>5 DEF IsTag
<1> QED
  BY <1>2, <1>3, <1>4 DEF IsTag

(* fdt_next_tag finds a tag that ends inside the block. *)
LEMMA NextTagIs ==
    ASSUME NEW m, NEW at \in Nat, at = fdt + off_dt_struct(m),
           size_dt_struct(m) \in Nat, at + size_dt_struct(m) <= MemSize,
           NEW o \in Nat, NEW next \in Nat, o < next, next <= size_dt_struct(m),
           IsTag(m, at, o, next)
    PROVE  NextTag(m, o) = [tag |-> m[at + o], next |-> next]
<1> DEFINE tag == m[at + o]
           size == size_dt_struct(m)
           end == CASE tag = FDT_BEGIN_NODE -> NulFrom(m, at + o + FDT_TAGSIZE) + 1 - at
                    [] tag = FDT_PROP ->
                            IF o + 2 * FDT_TAGSIZE > size THEN size + 1
                            ELSE o + 3 * FDT_TAGSIZE + m[at + o + FDT_TAGSIZE]
                    [] tag \in {FDT_END_NODE, FDT_NOP, FDT_END} -> o + FDT_TAGSIZE
                    [] OTHER -> size + 1
<1>0. FDT_TAGSIZE \in Nat \ {0} /\ Aligned(next) /\ size \in Nat /\ MemSize \in Nat
  BY TagSize DEF IsTag
<1> PICK nul, prop : /\ nul = NulFrom(m, at + o + FDT_TAGSIZE) + 1 - at
                     /\ prop = o + 3 * FDT_TAGSIZE + m[at + o + FDT_TAGSIZE]
  OBVIOUS
<1>5. end = CASE tag = FDT_BEGIN_NODE -> nul
              [] tag = FDT_PROP -> IF o + 2 * FDT_TAGSIZE > size THEN size + 1 ELSE prop
              [] tag \in {FDT_END_NODE, FDT_NOP, FDT_END} -> o + FDT_TAGSIZE
              [] OTHER -> size + 1
  OBVIOUS
<1>1. NextTag(m, o) = IF o + FDT_TAGSIZE > size \/ end \notin (o + 1)..size
                      THEN [tag |-> FDT_END, next |-> NULL]
                      ELSE [tag |-> tag, next |-> TagAlign(end)]
  BY Zenon DEF NextTag
<1> HIDE DEF end
<1>2. /\ end \in Nat /\ o + FDT_TAGSIZE <= end /\ end <= next /\ next < end + FDT_TAGSIZE
  <2>1. CASE m[at + o] \in {FDT_END_NODE, FDT_NOP} /\ next = o + FDT_TAGSIZE
    <3>1. end = o + FDT_TAGSIZE
      BY <1>5, <2>1 DEF FDT_BEGIN_NODE, FDT_END_NODE, FDT_NOP, FDT_PROP, FDT_END
    <3> QED
      BY <1>0, <2>1, <3>1
  <2>2. CASE m[at + o] = FDT_BEGIN_NODE
    <3>0. PICK z \in (o + FDT_TAGSIZE)..(next - 1) :
            /\ next < z + 1 + FDT_TAGSIZE
            /\ m[at + z] = 0
            /\ \A y \in (o + FDT_TAGSIZE)..(z - 1) : m[at + y] # 0
      BY <2>2 DEF IsTag, FDT_BEGIN_NODE, FDT_END_NODE, FDT_NOP, FDT_PROP
    <3>1. /\ z \in Nat /\ o + FDT_TAGSIZE <= z
           /\ z + 1 <= next /\ next < z + 1 + FDT_TAGSIZE
           /\ m[at + z] = 0
           /\ \A y \in (o + FDT_TAGSIZE)..(z - 1) : m[at + y] # 0
      BY <3>0, TagSize
    <3>2. end = NulFrom(m, at + o + FDT_TAGSIZE) + 1 - at
      BY <1>5, <2>2 DEF FDT_BEGIN_NODE, FDT_END_NODE, FDT_NOP, FDT_PROP, FDT_END
    <3>3. NulFrom(m, at + o + FDT_TAGSIZE) = at + z
      <4> DEFINE a == at + o + FDT_TAGSIZE
                 Is(i) == (i = MemSize \/ m[i] = 0) /\ \A j \in a..(i - 1) : m[j] # 0
      <4>1. at + z \in a..MemSize /\ m[at + z] = 0
        BY <1>0, <3>1
      <4>2. \A j \in a..(at + z - 1) : m[j] # 0
        <5>1. TAKE j \in a..(at + z - 1)
        <5>2. j - at \in (o + FDT_TAGSIZE)..(z - 1) /\ at + (j - at) = j
          BY <1>0
        <5> QED
          BY <3>1, <5>2
      <4>3. Is(at + z)
        BY <4>1, <4>2
      <4>4. ASSUME NEW i \in a..MemSize, Is(i) PROVE i = at + z
        <5>1. a \in Int /\ i \in Int /\ at + z \in Int
          BY <1>0
        <5>2. ~(at + z < i)
          <6>1. at + z < i => at + z \in a..(i - 1)
            BY <4>1, <5>1
          <6> QED
            BY <4>1, <4>4, <6>1
        <5>3. ~(i < at + z)
          <6>1. ASSUME i < at + z PROVE FALSE
            <7>1. i \in a..(at + z - 1) /\ i # MemSize
              BY <1>0, <3>1, <5>1, <6>1
            <7> QED
              BY <4>2, <4>4, <7>1
          <6> QED
            BY <6>1
        <5> HIDE DEF a
        <5> QED
          BY <5>1, <5>2, <5>3
      <4>5. NulFrom(m, a) = CHOOSE i \in a..MemSize : Is(i)
        BY Zenon DEF NulFrom
      <4> HIDE DEF Is, a
      <4>6. NulFrom(m, a) = at + z
        BY <4>1, <4>3, <4>4, <4>5, Zenon
      <4> QED
        BY <4>6 DEF a
    <3> QED
      BY <1>0, <3>1, <3>2, <3>3
  <2>3. CASE m[at + o] = FDT_PROP
    <3>1. /\ m[at + o + FDT_TAGSIZE] \in Nat
          /\ o + 3 * FDT_TAGSIZE + m[at + o + FDT_TAGSIZE] <= next
          /\ next < o + 3 * FDT_TAGSIZE + m[at + o + FDT_TAGSIZE] + FDT_TAGSIZE
      BY <2>3 DEF IsTag, FDT_BEGIN_NODE, FDT_END_NODE, FDT_NOP, FDT_PROP
    <3>2. ~(o + 2 * FDT_TAGSIZE > size)
      BY <1>0, <3>1
    <3>3. tag # FDT_BEGIN_NODE
      BY <2>3 DEF FDT_BEGIN_NODE, FDT_PROP
    <3>4. end = o + 3 * FDT_TAGSIZE + m[at + o + FDT_TAGSIZE]
      BY <1>5, <2>3, <3>2 DEF FDT_BEGIN_NODE, FDT_END_NODE, FDT_NOP, FDT_PROP, FDT_END
    <3> QED
      BY <1>0, <3>1, <3>4
  <2> QED
    BY <2>1, <2>2, <2>3, Zenon DEF IsTag
<1>3. TagAlign(end) = next
  <2>1. /\ Aligned(TagAlign(end))
        /\ end <= TagAlign(end) /\ TagAlign(end) < end + FDT_TAGSIZE
    BY <1>2, TagAlignIs
  <2>2. end \in Int
    BY <1>2
  <2> QED
    BY <1>0, <1>2, <2>1, <2>2, AlignedIsUnique
<1>4. ~(o + FDT_TAGSIZE > size \/ end \notin (o + 1)..size)
  BY <1>0, <1>2
<1> QED
  BY <1>1, <1>3, <1>4, Zenon

----------------------------------------------------------------------------
(* The walks over the tags *)

(* fdt_next_tag goes upwards, and not far behind the block. *)
LEMMA NextTagIsAbove ==
    ASSUME NEW m, size_dt_struct(m) \in Nat, NEW o \in Nat
    PROVE  \/ NextTag(m, o) = [tag |-> FDT_END, next |-> NULL]
           \/ NextTag(m, o).next \in (o + 1)..(size_dt_struct(m) + FDT_TAGSIZE)
<1> DEFINE at == fdt + off_dt_struct(m)
           tag == m[at + o]
           size == size_dt_struct(m)
           end == CASE tag = FDT_BEGIN_NODE -> NulFrom(m, at + o + FDT_TAGSIZE) + 1 - at
                    [] tag = FDT_PROP ->
                            IF o + 2 * FDT_TAGSIZE > size THEN size + 1
                            ELSE o + 3 * FDT_TAGSIZE + m[at + o + FDT_TAGSIZE]
                    [] tag \in {FDT_END_NODE, FDT_NOP, FDT_END} -> o + FDT_TAGSIZE
                    [] OTHER -> size + 1
<1>1. NextTag(m, o) = IF o + FDT_TAGSIZE > size \/ end \notin (o + 1)..size
                      THEN [tag |-> FDT_END, next |-> NULL]
                      ELSE [tag |-> tag, next |-> TagAlign(end)]
  BY Zenon DEF NextTag
<1> HIDE DEF end, tag
<1>2. ASSUME end \in (o + 1)..size
      PROVE  TagAlign(end) \in (o + 1)..(size + FDT_TAGSIZE)
  <2>1. end \in Nat
    BY <1>2
  <2>2. /\ TagAlign(end) \in Nat
        /\ end <= TagAlign(end) /\ TagAlign(end) < end + FDT_TAGSIZE
    BY <2>1, TagAlignIs
  <2> QED
    BY <1>2, <2>1, <2>2, TagSize
<1>3. CASE o + FDT_TAGSIZE > size \/ end \notin (o + 1)..size
  BY <1>1, <1>3, Zenon
<1>4. CASE ~(o + FDT_TAGSIZE > size \/ end \notin (o + 1)..size)
  <2>1. NextTag(m, o) = [tag |-> tag, next |-> TagAlign(end)]
    BY <1>1, <1>4, Zenon
  <2> QED
    BY <1>2, <1>4, <2>1
<1> QED
  BY <1>3, <1>4

(* What the walks compute at an offset from what they compute behind it *)
Ends(m, f, o) ==
    LET t == NextTag(m, o)
    IN  t.next # NULL /\ (t.tag = FDT_END \/ f[t.next])

Walked(m, g, f, o) ==
    LET t == NextTag(m, o)
    IN  IF t.tag = FDT_END THEN << >>
        ELSE IF t.tag = FDT_NOP THEN f[t.next]
        ELSE <<g[o]>> \o f[t.next]

PropsOver(m, f, o) ==
    LET t == NextTag(m, o)
    IN  IF t.tag \in {FDT_PROP, FDT_NOP} THEN f[t.next] ELSE o

NodeOver(m, f, o) ==
    LET t == NextTag(m, o)
    IN  IF t.tag = FDT_END THEN [depth \in Int |-> NULL]
        ELSE [depth \in Int |->
                CASE t.tag = FDT_BEGIN_NODE -> f[t.next][depth + 1]
                  [] t.tag = FDT_END_NODE   -> IF depth = 1 THEN t.next ELSE f[t.next][depth - 1]
                  [] OTHER -> f[t.next][depth]]

(* One or the other of the walks *)
Computed(walk, m, g, f, o) ==
    IF walk = "ends" THEN Ends(m, f, o)
    ELSE IF walk = "props" THEN PropsOver(m, f, o)
    ELSE IF walk = "node" THEN NodeOver(m, f, o)
    ELSE Walked(m, g, f, o)

(* The recursive functions of the walks exist: they only look upwards. *)
LEMMA WalkExists ==
    ASSUME NEW walk, NEW m, NEW what, size_dt_struct(m) \in Nat
    PROVE  \E f : f = [o \in 0..(size_dt_struct(m) + FDT_TAGSIZE) |-> Computed(walk, m, what, f, o)]
<1> DEFINE N == size_dt_struct(m) + FDT_TAGSIZE
           Good(n) == \E f : f = [o \in (N - n)..N |-> Computed(walk, m, what, f, o)]
           Bad == {n \in 0..N : ~Good(n)}
<1>0. N \in Nat
  BY TagSize
<1>1. \A o \in 0..N : \/ NextTag(m, o) = [tag |-> FDT_END, next |-> NULL]
                      \/ NextTag(m, o).next \in (o + 1)..N
  <2>1. TAKE o \in 0..N
  <2>2. o \in Nat
    BY <1>0
  <2> QED
    BY <2>2, NextTagIsAbove
<1> HIDE DEF N
<1>2. ASSUME NEW f, NEW g, NEW o \in 0..N, \A p \in (o + 1)..N : f[p] = g[p]
      PROVE  Computed(walk, m, what, f, o) = Computed(walk, m, what, g, o)
  <2>1. CASE NextTag(m, o) = [tag |-> FDT_END, next |-> NULL]
    <3>1. NextTag(m, o).tag = FDT_END /\ NextTag(m, o).next = NULL
      BY <2>1
    <3>2. Ends(m, f, o) = Ends(m, g, o)
      BY <3>1, Zenon DEF Ends
    <3>3. Walked(m, what, f, o) = Walked(m, what, g, o)
      BY <3>1, Zenon DEF Walked
    <3>4. PropsOver(m, f, o) = PropsOver(m, g, o)
      <4>1. NextTag(m, o).tag \notin {FDT_PROP, FDT_NOP}
        BY <3>1 DEF FDT_END, FDT_PROP, FDT_NOP
      <4> QED
        BY <4>1, Zenon DEF PropsOver
    <3>5. NodeOver(m, f, o) = NodeOver(m, g, o)
      BY <3>1, Zenon DEF NodeOver
    <3> QED
      BY <3>2, <3>3, <3>4, <3>5, Zenon DEF Computed
  <2>2. CASE NextTag(m, o).next \in (o + 1)..N
    <3>1. f[NextTag(m, o).next] = g[NextTag(m, o).next]
      BY <1>2, <2>2
    <3> QED
      <4>1. Ends(m, f, o) = Ends(m, g, o)
        BY <3>1, Zenon DEF Ends
      <4>2. Walked(m, what, f, o) = Walked(m, what, g, o)
        BY <3>1, Zenon DEF Walked
      <4>3. PropsOver(m, f, o) = PropsOver(m, g, o)
        BY <3>1, Zenon DEF PropsOver
      <4>4. NodeOver(m, f, o) = NodeOver(m, g, o)
        <5> DEFINE t == NextTag(m, o)
                   Over(v) ==
                     IF t.tag = FDT_END THEN [depth \in Int |-> NULL]
                     ELSE [depth \in Int |->
                             CASE t.tag = FDT_BEGIN_NODE -> v[depth + 1]
                               [] t.tag = FDT_END_NODE   -> IF depth = 1 THEN t.next
                                                            ELSE v[depth - 1]
                               [] OTHER -> v[depth]]
        <5>1. NodeOver(m, f, o) = Over(f[t.next]) /\ NodeOver(m, g, o) = Over(g[t.next])
          BY Zenon DEF NodeOver
        <5> HIDE DEF Over
        <5> QED
          BY <3>1, <5>1, Zenon
      <4> QED
        BY <4>1, <4>2, <4>3, <4>4, Zenon DEF Computed
  <2> QED
    BY <1>1, <2>1, <2>2
<1>3. Good(0)
  <2> DEFINE g == [o \in {} |-> TRUE]
             f == [o \in (N - 0)..N |-> Computed(walk, m, what, g, o)]
  <2>1. \A o \in (N - 0)..N : o \in 0..N /\ \A p \in (o + 1)..N : f[p] = g[p]
    BY <1>0
  <2>2. \A o \in (N - 0)..N : Computed(walk, m, what, f, o) = Computed(walk, m, what, g, o)
    <3> HIDE DEF f, g
    <3> QED
      BY <1>2, <2>1
  <2>3. f = [o \in (N - 0)..N |-> Computed(walk, m, what, f, o)]
    <3>1. PICK h : h = f
      OBVIOUS
    <3>2. h = [o \in (N - 0)..N |-> Computed(walk, m, what, g, o)]
      BY <3>1
    <3>3. \A o \in (N - 0)..N : Computed(walk, m, what, h, o) = Computed(walk, m, what, g, o)
      BY <2>2, <3>1
    <3> HIDE DEF f, g
    <3> QED
      BY <3>1, <3>2, <3>3, Zenon
  <2> HIDE DEF f, g
  <2> QED
    BY <2>3
<1>4. ASSUME NEW n \in 1..N, Good(n - 1)
      PROVE  Good(n)
  <2>1. PICK g : g = [o \in (N - (n - 1))..N |-> Computed(walk, m, what, g, o)]
    BY <1>4
  <2>2. PICK f : f = [o \in (N - n)..N |-> Computed(walk, m, what, g, o)]
    OBVIOUS
  <2>3. \A p \in (N - (n - 1))..N : f[p] = g[p]
    <3>1. \A p \in (N - (n - 1))..N : p \in (N - n)..N
      BY <1>0
    <3>2. \A p \in (N - (n - 1))..N : f[p] = Computed(walk, m, what, g, p)
      BY <2>2, <3>1
    <3>3. \A p \in (N - (n - 1))..N : g[p] = Computed(walk, m, what, g, p)
      BY <2>1, Zenon
    <3> QED
      BY <3>2, <3>3, Zenon
  <2>4. \A o \in (N - n)..N : o \in 0..N /\ \A p \in (o + 1)..N : f[p] = g[p]
    <3>1. TAKE o \in (N - n)..N
    <3>2. \A p \in (o + 1)..N : p \in (N - (n - 1))..N
      BY <1>0
    <3>3. o \in 0..N
      BY <1>0
    <3> QED
      BY <2>3, <3>2, <3>3
  <2>5. \A o \in (N - n)..N : Computed(walk, m, what, f, o) = Computed(walk, m, what, g, o)
    BY <1>2, <2>4
  <2>6. f = [o \in (N - n)..N |-> Computed(walk, m, what, f, o)]
    BY <2>2, <2>5, Zenon
  <2> QED
    BY <2>6
<1> HIDE DEF Good
<1>5. Bad = {}
  <2>1. SUFFICES ASSUME Bad # {} PROVE FALSE
    OBVIOUS
  <2>2. Bad \subseteq Nat
    OBVIOUS
  <2>3. PICK k \in Bad : \A j \in Bad : k <= j
    BY <2>1, <2>2, LeastOf
  <2>4. k \in 1..N
    BY <1>0, <1>3, <2>3
  <2>5. k - 1 \in 0..N /\ k - 1 \notin Bad
    BY <1>0, <2>3, <2>4
  <2> QED
    BY <1>4, <2>3, <2>4, <2>5
<1>6. Good(N)
  BY <1>0, <1>5
<1>7. N - N = 0
  BY <1>0
<1> QED
  BY <1>6, <1>7 DEF Good, N

LEMMA PropsWalkExists ==
    ASSUME NEW m, size_dt_struct(m) \in Nat
    PROVE  \E f : f = [o \in 0..(size_dt_struct(m) + FDT_TAGSIZE) |-> PropsOver(m, f, o)]
<1> DEFINE N == size_dt_struct(m) + FDT_TAGSIZE
<1>1. PICK f : f = [o \in 0..N |-> Computed("props", m, <<>>, f, o)]
  BY WalkExists
<1>2. \A o \in 0..N : Computed("props", m, <<>>, f, o) = PropsOver(m, f, o)
  <2>1. "props" # "ends"
    OBVIOUS
  <2> QED
    BY <2>1, Zenon DEF Computed
<1> HIDE DEF N
<1>3. f = [o \in 0..N |-> PropsOver(m, f, o)]
  BY <1>1, <1>2, Zenon
<1> QED
  BY <1>3 DEF N

LEMMA NodeWalkExists ==
    ASSUME NEW m, size_dt_struct(m) \in Nat
    PROVE  \E f : f = [o \in 0..(size_dt_struct(m) + FDT_TAGSIZE) |-> NodeOver(m, f, o)]
<1> DEFINE N == size_dt_struct(m) + FDT_TAGSIZE
<1>1. PICK f : f = [o \in 0..N |-> Computed("node", m, <<>>, f, o)]
  BY WalkExists
<1>2. \A o \in 0..N : Computed("node", m, <<>>, f, o) = NodeOver(m, f, o)
  <2>1. "node" # "ends" /\ "node" # "props"
    OBVIOUS
  <2> QED
    BY <2>1, Zenon DEF Computed
<1> HIDE DEF N
<1>3. f = [o \in 0..N |-> NodeOver(m, f, o)]
  BY <1>1, <1>2, Zenon
<1> QED
  BY <1>3 DEF N

(* What fdt_next_tag finds along a chain of tags *)
LEMMA ChainTags ==
    ASSUME NEW m, NEW at \in Nat, at = fdt + off_dt_struct(m),
           size_dt_struct(m) \in Nat, at + size_dt_struct(m) <= MemSize,
           NEW size \in Nat, size <= size_dt_struct(m),
           NEW T, IsChain(m, at, size, T), NEW o \in T \ {size}
    PROVE  \E next \in T : /\ IsLink(m, at, T, o, next)
                          /\ NextTag(m, o) = [tag |-> m[at + o], next |-> next]
                          /\ m[at + o] # FDT_END /\ next # NULL /\ o \in Nat /\ next \in Nat
<1>1. PICK next \in T : IsLink(m, at, T, o, next)
  BY DEF IsChain
<1>2. o \in Nat /\ next \in Nat /\ next <= size /\ o < next /\ next # NULL
  BY <1>1 DEF IsChain, IsLink, NULL
<1>3. IsTag(m, at, o, next) /\ next <= size_dt_struct(m)
  BY <1>1, <1>2 DEF IsLink
<1>4. NextTag(m, o) = [tag |-> m[at + o], next |-> next]
  BY <1>2, <1>3, NextTagIs
<1>5. m[at + o] # FDT_END
  BY <1>3 DEF IsTag, FDT_BEGIN_NODE, FDT_END_NODE, FDT_NOP, FDT_PROP, FDT_END
<1> QED
  BY <1>1, <1>2, <1>4, <1>5

(* fdt_next_tag finds the FDT_END behind a chain. *)
LEMMA EndTag ==
    ASSUME NEW m, NEW at, at = fdt + off_dt_struct(m),
           size_dt_struct(m) \in Nat,
           NEW size \in Nat, size + FDT_TAGSIZE = size_dt_struct(m), m[at + size] = FDT_END
    PROVE  NextTag(m, size).tag = FDT_END /\ NextTag(m, size).next # NULL
<1> DEFINE end == CASE m[at + size] = FDT_BEGIN_NODE -> NulFrom(m, at + size + FDT_TAGSIZE) + 1 - at
                    [] m[at + size] = FDT_PROP ->
                         IF size + 2 * FDT_TAGSIZE > size_dt_struct(m) THEN size_dt_struct(m) + 1
                         ELSE size + 3 * FDT_TAGSIZE + m[at + size + FDT_TAGSIZE]
                    [] m[at + size] \in {FDT_END_NODE, FDT_NOP, FDT_END} -> size + FDT_TAGSIZE
                    [] OTHER -> size_dt_struct(m) + 1
<1>1. NextTag(m, size) =
          IF size + FDT_TAGSIZE > size_dt_struct(m) \/ end \notin (size + 1)..size_dt_struct(m)
          THEN [tag |-> FDT_END, next |-> NULL]
          ELSE [tag |-> m[at + size], next |-> TagAlign(end)]
  BY Zenon DEF NextTag
<1>2. end = size + FDT_TAGSIZE
  <2> PICK nul, prop : /\ nul = NulFrom(m, at + size + FDT_TAGSIZE) + 1 - at
                       /\ prop = size + 3 * FDT_TAGSIZE + m[at + size + FDT_TAGSIZE]
    OBVIOUS
  <2>1. end = CASE m[at + size] = FDT_BEGIN_NODE -> nul
                [] m[at + size] = FDT_PROP ->
                     IF size + 2 * FDT_TAGSIZE > size_dt_struct(m) THEN size_dt_struct(m) + 1
                     ELSE prop
                [] m[at + size] \in {FDT_END_NODE, FDT_NOP, FDT_END} -> size + FDT_TAGSIZE
                [] OTHER -> size_dt_struct(m) + 1
    OBVIOUS
  <2> HIDE DEF end
  <2> QED
    BY <2>1 DEF FDT_BEGIN_NODE, FDT_END_NODE, FDT_NOP, FDT_PROP, FDT_END
<1> HIDE DEF end
<1>3. ~(size + FDT_TAGSIZE > size_dt_struct(m) \/ end \notin (size + 1)..size_dt_struct(m))
  BY <1>2, TagSize
<1>4. NextTag(m, size) = [tag |-> m[at + size], next |-> TagAlign(end)]
  BY <1>1, <1>3, Zenon
<1>5. TagAlign(end) \in Nat
  <2>1. end \in Nat
    BY <1>2, TagSize
  <2> QED
    BY <2>1, TagAlignIs
<1> QED
  BY <1>4, <1>5 DEF NULL

LEMMA OneBefore ==
    ASSUME NEW T, NEW s \in Seq(T), NEW x \in T
    PROVE  ToSet(<<x>> \o s) = {x} \cup ToSet(s)
<1> DEFINE t == <<x>> \o s
<1>1. Len(t) = Len(s) + 1 /\ Len(s) \in Nat /\ DOMAIN t = 1..Len(t) /\ DOMAIN s = 1..Len(s)
  OBVIOUS
<1>2. t[1] = x /\ \A i \in 1..Len(s) : t[i + 1] = s[i]
  OBVIOUS
<1>3. \A i \in 1..Len(t) : i = 1 \/ (i - 1 \in 1..Len(s) /\ t[i] = s[i - 1])
  BY <1>1
<1>4. \A i \in 1..Len(s) : i + 1 \in 1..Len(t)
  BY <1>1
<1>5. 1 \in 1..Len(t)
  BY <1>1
<1> HIDE DEF t
<1>6. {t[i] : i \in 1..Len(t)} = {x} \cup {s[i] : i \in 1..Len(s)}
  BY <1>2, <1>3, <1>4, <1>5
<1> QED
  BY <1>1, <1>6, Zenon DEF t, ToSet

(* A chain with FDT_END behind it is walked to its end. *)
LEMMA ChainEnds ==
    ASSUME NEW m, NEW at \in Nat, at = fdt + off_dt_struct(m),
           size_dt_struct(m) \in Nat, at + size_dt_struct(m) <= MemSize,
           NEW size \in Nat, size + FDT_TAGSIZE = size_dt_struct(m),
           NEW T, IsChain(m, at, size, T), m[at + size] = FDT_END
    PROVE  WalkEnds(m)
<1> DEFINE N == size_dt_struct(m) + FDT_TAGSIZE
<1>0. size <= size_dt_struct(m) /\ N \in Nat /\ T \subseteq 0..size /\ T \subseteq 0..N
  BY TagSize DEF IsChain
<1>1. \E f : f = [o \in 0..N |-> Ends(m, f, o)]
  <2>1. PICK f : f = [o \in 0..N |-> Computed("ends", m, <<>>, f, o)]
    BY WalkExists
  <2>2. \A o \in 0..N : Computed("ends", m, <<>>, f, o) = Ends(m, f, o)
    BY Zenon DEF Computed
  <2> HIDE DEF N
  <2>3. f = [o \in 0..N |-> Ends(m, f, o)]
    BY <2>1, <2>2, Zenon
  <2> QED
    BY <2>3
<1>2. PICK ends : /\ ends = [o \in 0..N |-> Ends(m, ends, o)]
                  /\ WalkEnds(m) = ends[0]
  <2> DEFINE body(f) == [o \in 0..N |-> Ends(m, f, o)]
             ends == CHOOSE f : f = body(f)
  <2>1. ends = body(ends)
    BY <1>1, Zenon
  <2>2. WalkEnds(m) = ends[0]
    BY Zenon DEF WalkEnds, Ends
  <2> HIDE DEF ends
  <2> QED
    BY <2>1, <2>2
<1>3. \A o \in T : ends[o] = Ends(m, ends, o)
  <2> HIDE DEF N
  <2>1. \A o \in 0..N : ends[o] = Ends(m, ends, o)
    BY <1>2, Zenon
  <2> QED
    BY <1>0, <2>1
<1>4. ends[size]
  <2>1. size \in T
    BY DEF IsChain
  <2>2. NextTag(m, size).tag = FDT_END /\ NextTag(m, size).next # NULL
    BY EndTag
  <2>3. Ends(m, ends, size)
    BY <2>2, Zenon DEF Ends
  <2> QED
    BY <1>3, <2>1, <2>3, Zenon
<1>5. ASSUME NEW o \in T, ~ends[o]
      PROVE  \E p \in T : o < p /\ ~ends[p]
  <2>1. o # size
    BY <1>4, <1>5, Zenon
  <2>2. PICK next \in T : /\ IsLink(m, at, T, o, next) /\ next # NULL
                          /\ NextTag(m, o) = [tag |-> m[at + o], next |-> next]
    BY <1>0, <2>1, ChainTags
  <2>3. NextTag(m, o).next = next
    BY <2>2
  <2>4. o < next
    BY <2>2 DEF IsLink
  <2>5. ends[next] => Ends(m, ends, o)
    BY <2>2, <2>3, Zenon DEF Ends
  <2>6. ~ends[next]
    BY <1>3, <1>5, <2>5, Zenon
  <2> QED
    BY <2>4, <2>6
<1> DEFINE Bad == {o \in T : ~ends[o]}
<1>6. Bad = {}
  <2>1. SUFFICES ASSUME Bad # {} PROVE FALSE
    OBVIOUS
  <2>2. Bad \subseteq 0..size
    BY <1>0
  <2>3. PICK k \in Bad : \A j \in Bad : j <= k
    BY <2>1, <2>2, GreatestOf
  <2>4. PICK p \in T : k < p /\ ~ends[p]
    BY <1>5, <2>3
  <2>5. p \in Bad /\ p \in Nat /\ k \in Nat
    BY <2>2, <2>4
  <2> QED
    BY <2>3, <2>4, <2>5
<1>7. 0 \in T
  BY DEF IsChain
<1> QED
  BY <1>2, <1>6, <1>7

(* The walk visits the tags of a chain, those that are FDT_NOP excepted.   *)
LEMMA ChainOffsets ==
    ASSUME NEW m, NEW at \in Nat, at = fdt + off_dt_struct(m),
           size_dt_struct(m) \in Nat, at + size_dt_struct(m) <= MemSize,
           NEW size \in Nat, size + FDT_TAGSIZE = size_dt_struct(m),
           NEW T, IsChain(m, at, size, T), m[at + size] = FDT_END
    PROVE  ToSet(TagOffsets(m)) = {o \in T \ {size} : m[at + o] # FDT_NOP}
<1> DEFINE N == size_dt_struct(m) + FDT_TAGSIZE
           same == [o \in 0..N |-> o]
<1>0. size <= size_dt_struct(m) /\ N \in Nat /\ T \subseteq 0..size /\ T \subseteq 0..N
      /\ size \in T
  BY TagSize DEF IsChain
<1>1. \E f : f = [o \in 0..N |-> Walked(m, same, f, o)]
  <2>1. PICK f : f = [o \in 0..N |-> Computed("walk", m, same, f, o)]
    <3> HIDE DEF same
    <3> QED
      BY WalkExists
  <2>2. \A o \in 0..N : Computed("walk", m, same, f, o) = Walked(m, same, f, o)
    <3>1. "walk" # "ends" /\ "walk" # "props" /\ "walk" # "node"
      OBVIOUS
    <3> HIDE DEF N, same
    <3> QED
      BY <3>1, Zenon DEF Computed
  <2> HIDE DEF N, same
  <2>3. f = [o \in 0..N |-> Walked(m, same, f, o)]
    BY <2>1, <2>2, Zenon
  <2> QED
    BY <2>3
<1>2. PICK from : /\ from = [o \in 0..N |-> Walked(m, same, from, o)]
                  /\ TagOffsets(m) = from[0]
  <2> DEFINE body(f) == [o \in 0..N |-> Walked(m, same, f, o)]
             plain(f) == [o \in 0..N |->
                            LET t == NextTag(m, o)
                            IN  IF t.tag = FDT_END THEN << >>
                                ELSE IF t.tag = FDT_NOP THEN f[t.next]
                                ELSE <<o>> \o f[t.next]]
             from == CHOOSE f : f = plain(f)
  <2>1. TagOffsets(m) = from[0]
    BY Zenon DEF TagOffsets, Walk
  <2>2. ASSUME NEW f PROVE body(f) = plain(f)
    <3>1. \A o \in 0..N : same[o] = o
      OBVIOUS
    <3>2. \A o \in 0..N : Walked(m, same, f, o) =
              LET t == NextTag(m, o)
              IN  IF t.tag = FDT_END THEN << >>
                  ELSE IF t.tag = FDT_NOP THEN f[t.next]
                  ELSE <<o>> \o f[t.next]
      <4> HIDE DEF N, same
      <4> QED
        BY <3>1, Zenon DEF Walked
    <3> HIDE DEF N, same
    <3> QED
      BY <3>2, Zenon
  <2>3. \E f : f = plain(f)
    <3> HIDE DEF plain
    <3> QED
      BY <1>1, <2>2, Zenon
  <2> HIDE DEF plain
  <2>4. from = plain(from)
    BY <2>3, Zenon
  <2> HIDE DEF from
  <2>5. from = body(from)
    BY <2>2, <2>4, Zenon
  <2> QED
    BY <2>1, <2>5, Zenon
<1> HIDE DEF same
<1>3. \A o \in T : from[o] = Walked(m, same, from, o)
  <2> HIDE DEF N
  <2>1. \A o \in 0..N : from[o] = Walked(m, same, from, o)
    BY <1>2, Zenon
  <2> QED
    BY <1>0, <2>1
<1> DEFINE Behind(o) == {p \in T \ {size} : o <= p /\ m[at + p] # FDT_NOP}
           Right(o) == from[o] \in Seq(T) /\ ToSet(from[o]) = Behind(o)
<1>4. Right(size)
  <2>1. NextTag(m, size).tag = FDT_END
    BY <1>0, EndTag
  <2>2. from[size] = << >>
    <3>1. from[size] = Walked(m, same, from, size)
      BY <1>0, <1>3
    <3>2. Walked(m, same, from, size) = << >>
      BY <2>1, Zenon DEF Walked
    <3> QED
      BY <3>1, <3>2
  <2>3. Behind(size) = {}
    <3>1. \A p \in T \ {size} : ~(size <= p)
      <4>1. T \subseteq 0..size
        BY <1>0
      <4> QED
        BY <4>1
    <3> QED
      BY <3>1, Zenon
  <2>4. ToSet(<< >>) = {} /\ << >> \in Seq(T)
    BY DEF ToSet
  <2> HIDE DEF Behind
  <2> QED
    BY <2>2, <2>3, <2>4
<1>5. ASSUME NEW o \in T, ~Right(o)
      PROVE  \E p \in T : o < p /\ ~Right(p)
  <2>1. o # size
    BY <1>4, <1>5, Zenon
  <2>2. PICK next \in T : /\ IsLink(m, at, T, o, next)
                          /\ NextTag(m, o) = [tag |-> m[at + o], next |-> next]
                          /\ m[at + o] # FDT_END
    BY <1>0, <2>1, ChainTags
  <2>3. NextTag(m, o).next = next /\ NextTag(m, o).tag = m[at + o]
    BY <2>2
  <2>4. o < next /\ \A p \in T : p <= o \/ next <= p
    BY <2>2 DEF IsLink
  <2>5. same[o] = o
    BY <1>0 DEF same
  <2>6. from[o] = IF m[at + o] = FDT_NOP THEN from[next] ELSE <<o>> \o from[next]
    BY <1>3, <2>2, <2>3, <2>5, Zenon DEF Walked
  <2>7. Behind(o) = IF m[at + o] = FDT_NOP THEN Behind(next) ELSE {o} \cup Behind(next)
    <3>1. \A p \in T : o <= p <=> p = o \/ next <= p
      BY <1>0, <2>4
    <3> QED
      BY <2>1, <3>1
  <2>8. ASSUME Right(next) PROVE Right(o)
    <3>1. PICK s \in Seq(T) : s = from[next] /\ ToSet(s) = Behind(next)
      BY <2>8
    <3>2. <<o>> \o s \in Seq(T)
      OBVIOUS
    <3>3. ToSet(<<o>> \o s) = {o} \cup ToSet(s)
      BY OneBefore
    <3> HIDE DEF Behind
    <3> QED
      BY <2>6, <2>7, <3>1, <3>2, <3>3
  <2> HIDE DEF Right
  <2> QED
    BY <1>5, <2>4, <2>8
<1> DEFINE Bad == {o \in T : ~Right(o)}
<1>6. Bad = {}
  <2> HIDE DEF Right
  <2>1. SUFFICES ASSUME Bad # {} PROVE FALSE
    OBVIOUS
  <2>2. Bad \subseteq 0..size
    BY <1>0
  <2>3. PICK k \in Bad : \A j \in Bad : j <= k
    BY <2>1, <2>2, GreatestOf
  <2>4. PICK p \in T : k < p /\ ~Right(p)
    BY <1>5, <2>3
  <2>5. p \in Bad /\ p \in Nat /\ k \in Nat
    BY <2>2, <2>4
  <2> QED
    BY <2>3, <2>4, <2>5
<1>7. 0 \in T
  BY DEF IsChain
<1>8. ToSet(TagOffsets(m)) = Behind(0)
  <2> HIDE DEF Behind
  <2>1. Right(0)
    BY <1>6, <1>7
  <2> QED
    BY <1>2, <2>1, Zenon
<1>9. \A p \in T : 0 <= p
  BY <1>0
<1> QED
  BY <1>8, <1>9

----------------------------------------------------------------------------
(* Tags that are written, and chains that move *)

(* A chain is read from its own cells only; the memory around it may       *)
(* change, and the block may move.                                         *)
LEMMA ChainSurvives ==
    ASSUME NEW m, NEW at \in Int, NEW n, NEW to \in Int, NEW size \in Nat,
           NEW T, IsChain(m, at, size, T),
           \A x \in 0..(size - 1) : n[to + x] = m[at + x]
    PROVE  IsChain(n, to, size, T)
<1>1. ASSUME NEW o \in T \ {size}
      PROVE  \E next \in T : IsLink(n, to, T, o, next)
  <2>1. PICK next \in T : IsLink(m, at, T, o, next)
    BY DEF IsChain
  <2>2. o \in Nat /\ next \in Nat /\ o < next /\ next <= size
    BY <2>1 DEF IsChain, IsLink
  <2>3. \A x \in o..(next - 1) : n[to + x] = m[at + x]
    BY <2>2
  <2>4. IsTag(n, to, o, next)
    BY <2>1, <2>2, <2>3, TagSurvives DEF IsLink
  <2> QED
    BY <2>1, <2>4 DEF IsLink
<1> QED
  BY <1>1 DEF IsChain

(* Tags as they are written: the name and its terminator, a length *)
LEMMA BeginIsTag ==
    ASSUME NEW g, NEW at \in Int, NEW size, Aligned(size), NEW name \in Seq(Nat \ {0}),
           g[at + size] = FDT_BEGIN_NODE,
           \A k \in 1..Len(name) : g[at + (size + FDT_TAGSIZE + k - 1)] = name[k],
           g[at + (size + FDT_TAGSIZE + Len(name))] = 0
    PROVE  IsTag(g, at, size, size + (FDT_TAGSIZE + TagAlign(Len(name) + 1)))
<1> PICK n : n = Len(name)
  OBVIOUS
<1>0. n \in Nat /\ size \in Nat /\ FDT_TAGSIZE \in Nat \ {0} /\ n + 1 \in Nat
  BY AlignedIsNat, TagSize
<1> PICK room : room = TagAlign(n + 1)
  OBVIOUS
<1>1. room \in Nat /\ Aligned(room) /\ n + 1 <= room /\ room < n + 1 + FDT_TAGSIZE
  BY <1>0, TagAlignIs
<1>2. PICK whole : whole = FDT_TAGSIZE + room
  OBVIOUS
<1>3. Aligned(size + whole)
  BY <1>1, <1>2, AlignedSum, AlignedTags
<1> PICK z : z = size + FDT_TAGSIZE + n
  OBVIOUS
<1>4. /\ z \in Nat /\ size + FDT_TAGSIZE <= z
      /\ z + 1 <= size + (FDT_TAGSIZE + room)
      /\ size + (FDT_TAGSIZE + room) < z + 1 + FDT_TAGSIZE
  BY <1>0, <1>1
<1>5. g[at + z] = 0
  OBVIOUS
<1>6. \A y \in (size + FDT_TAGSIZE)..(z - 1) : g[at + y] # 0
  <2>1. TAKE y \in (size + FDT_TAGSIZE)..(z - 1)
  <2> PICK k : k = y - size - FDT_TAGSIZE + 1
    OBVIOUS
  <2>2. k \in 1..n /\ size + FDT_TAGSIZE + k - 1 = y
    BY <1>0
  <2>3. g[at + y] = name[k]
    BY <2>2
  <2> QED
    BY <2>2, <2>3
<1>7. PICK next : next = size + whole
  OBVIOUS
<1>8. /\ z \in (size + FDT_TAGSIZE)..(next - 1) /\ next < z + 1 + FDT_TAGSIZE
      /\ Aligned(next)
  BY <1>0, <1>1, <1>2, <1>3, <1>4, <1>7
<1>9. IsTag(g, at, size, next)
  BY <1>5, <1>6, <1>8 DEF IsTag
<1> QED
  BY <1>2, <1>7, <1>9

LEMMA EndNodeIsTag ==
    ASSUME NEW g, NEW at, NEW size, Aligned(size), g[at + size] = FDT_END_NODE
    PROVE  IsTag(g, at, size, size + FDT_TAGSIZE)
  BY AlignedSum, AlignedTags DEF IsTag

LEMMA PropIsTag ==
    ASSUME NEW g, NEW at, NEW size, Aligned(size), NEW len \in Nat,
           g[at + size] = FDT_PROP, g[at + size + FDT_TAGSIZE] = len
    PROVE  IsTag(g, at, size, size + (3 * FDT_TAGSIZE + TagAlign(len)))
<1>0. size \in Nat /\ FDT_TAGSIZE \in Nat \ {0}
  BY AlignedIsNat, TagSize
<1> PICK room : room = TagAlign(len)
  OBVIOUS
<1>1. room \in Nat /\ Aligned(room) /\ len <= room /\ room < len + FDT_TAGSIZE
  BY TagAlignIs
<1>2. Aligned(size + (3 * FDT_TAGSIZE + room))
  BY <1>1, AlignedSum, AlignedTags
<1>3. /\ size + 3 * FDT_TAGSIZE + len <= size + (3 * FDT_TAGSIZE + room)
      /\ size + (3 * FDT_TAGSIZE + room) < size + 3 * FDT_TAGSIZE + len + FDT_TAGSIZE
  BY <1>0, <1>1
<1> QED
  BY <1>2, <1>3 DEF IsTag

(* The first cell that is 0 ends a string. *)
LEMMA NulFromIs ==
    ASSUME NEW m, NEW a \in Nat, NEW z \in Nat, a <= z, z < MemSize, m[z] = 0,
           \A j \in a..(z - 1) : m[j] # 0
    PROVE  NulFrom(m, a) = z
<1> DEFINE Nul(i) == (i = MemSize \/ m[i] = 0) /\ \A j \in a..(i - 1) : m[j] # 0
<1>0. MemSize \in Nat
  BY TagSize
<1>1. NulFrom(m, a) = CHOOSE i \in a..MemSize : Nul(i)
  BY Zenon DEF NulFrom
<1>2. z \in a..MemSize /\ Nul(z)
  BY <1>0
<1>3. ASSUME NEW i \in a..MemSize, Nul(i) PROVE i = z
  <2>1. ~(z < i)
    <3>1. z < i => z \in a..(i - 1)
      BY <1>0
    <3> QED
      BY <1>3, <3>1
  <2>2. ~(i < z)
    <3>1. i < z => i \in a..(z - 1) /\ i # MemSize
      BY <1>0
    <3> QED
      BY <1>3, <3>1
  <2> QED
    BY <1>0, <2>1, <2>2
<1> HIDE DEF Nul
<1> QED
  BY <1>1, <1>2, <1>3, Zenon
=============================================================================
