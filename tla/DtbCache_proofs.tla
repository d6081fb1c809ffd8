--------------------------- MODULE DtbCache_proofs ---------------------------
(***************************************************************************)
(* Proofs about the node tables and the phandle cache, for any number of   *)
(* blobs, any trees and any hash: what a table or a cache answers for a    *)
(* blob that did not change under it is what is in the blob.               *)
(***************************************************************************)
EXTENDS DtbCache, TLAPS, SequenceTheorems, WellFoundedInduction

(* Blob b has a list on every level, or no entries. *)
EntriesHaveLists ==
    \A b \in Blobs : lists[b] # HashLevels => hash_node[b] = << >>

(* The entry Recursive_find_subnode adds for the node at index i of a tree *)
EntryOf(t, i) ==
    [hash   |-> Hash[Spelled(t[i].path)],
     level  |-> path_depth(Spelled(t[i].path)),
     offset |-> i - 1]

(* The table of a blob that did not change holds its first nodes. *)
TablesHoldNodes ==
    \A b \in Blobs \ stale : \A i \in 1..Len(hash_node[b]) :
        /\ i <= Len(memory[b])
        /\ hash_node[b][i] = EntryOf(memory[b], i)

(* What the cache of a tree may hold at index k *)
Answers(t, k, offset) ==
    offset # 0 => /\ k # 1 /\ offset + 1 \in 1..Len(t)
                  /\ t[offset + 1].phandle = k - 1

(* While no table was left half built: a cache is of a blob that has       *)
(* lists, and what it records is so in the blob unless that changed.       *)
CacheIsRight(c) ==
    /\ lists[c.blob] # 0
    /\ c.blob \notin stale =>
           \A k \in 1..Len(c.array) : Answers(memory[c.blob], k, c.array[k])

CachesAreRight ==
    ~short => \A i \in 1..Len(phandle_cache) : CacheIsRight(phandle_cache[i])

CacheInv ==
    /\ TypeOK /\ EntriesHaveLists /\ TablesHoldNodes /\ CachesAreRight
    /\ SuccessMeansWholeTable

----------------------------------------------------------------------------
(* Least and largest elements *)

LEMMA LeastOf ==
    ASSUME NEW T, T \subseteq Nat, T # {}
    PROVE  \E k \in T : \A j \in T : k <= j
<1>1. PICK k \in T : \A j \in T : ~ (<<j, k>> \in OpToRel(<, Nat))
  BY NatLessThanWellFounded, WFMin, Zenon
<1>2. \A j \in T : k <= j
  <2>1. TAKE j \in T
  <2>2. j \in Nat /\ k \in Nat
    OBVIOUS
  <2>3. ~ (j < k)
    BY <1>1, <2>2 DEF OpToRel
  <2> QED
    BY <2>2, <2>3
<1> QED
  BY <1>2

(* Min of a set that has a least element, Max of one that has a largest *)
LEMMA MinIs ==
    ASSUME NEW S, S \subseteq Int, NEW x \in S, \A y \in S : x <= y
    PROVE  Min(S) = x
<1>1. \A z \in S : (\A y \in S : z <= y) => z = x
  OBVIOUS
<1>2. Min(S) \in S /\ \A y \in S : Min(S) <= y
  BY Zenon DEF Min
<1> QED
  BY <1>1, <1>2

LEMMA MaxIs ==
    ASSUME NEW S, S \subseteq Int, NEW x \in S, \A y \in S : x >= y
    PROVE  Max(S) = x
<1>1. \A z \in S : (\A y \in S : z >= y) => z = x
  OBVIOUS
<1>2. Max(S) \in S /\ \A y \in S : Max(S) >= y
  BY Zenon DEF Max
<1> QED
  BY <1>1, <1>2

LEMMA MinOfPair ==
    ASSUME NEW a \in Int, NEW b \in Int
    PROVE  /\ a <= b => Min({a, b}) = a
           /\ b <= a => Min({a, b}) = b
<1>1. ASSUME a <= b PROVE Min({a, b}) = a
  <2>1. PICK S : S = {a, b}
    OBVIOUS
  <2>2. S \subseteq Int /\ a \in S /\ \A y \in S : a <= y
    BY <1>1, <2>1
  <2>3. Min(S) = a
    BY <2>2, MinIs
  <2> QED
    BY <2>1, <2>3
<1>2. ASSUME b <= a PROVE Min({a, b}) = b
  <2>1. PICK S : S = {a, b}
    OBVIOUS
  <2>2. S \subseteq Int /\ b \in S /\ \A y \in S : b <= y
    BY <1>2, <2>1
  <2>3. Min(S) = b
    BY <2>2, MinIs
  <2> QED
    BY <2>1, <2>3
<1> QED
  BY <1>1, <1>2

LEMMA MaxOfPair ==
    ASSUME NEW a \in Int, NEW b \in Int
    PROVE  /\ b <= a => Max({a, b}) = a
           /\ a <= b => Max({a, b}) = b
<1>1. ASSUME b <= a PROVE Max({a, b}) = a
  <2>1. PICK S : S = {a, b}
    OBVIOUS
  <2>2. S \subseteq Int /\ a \in S /\ \A y \in S : a >= y
    BY <1>1, <2>1
  <2>3. Max(S) = a
    BY <2>2, MaxIs
  <2> QED
    BY <2>1, <2>3
<1>2. ASSUME a <= b PROVE Max({a, b}) = b
  <2>1. PICK S : S = {a, b}
    OBVIOUS
  <2>2. S \subseteq Int /\ b \in S /\ \A y \in S : b >= y
    BY <1>2, <2>1
  <2>3. Max(S) = b
    BY <2>2, MaxIs
  <2> QED
    BY <2>1, <2>3
<1> QED
  BY <1>1, <1>2

(* A nonempty set of naturals with a bound has a largest element. *)
LEMMA LargestOf ==
    ASSUME NEW S, S \subseteq Nat, S # {}, NEW n \in Nat, \A y \in S : y <= n
    PROVE  Max(S) \in S /\ \A y \in S : y <= Max(S)
<1> DEFINE Bounds == {u \in Nat : \A y \in S : y <= u}
<1>1. n \in Bounds
  OBVIOUS
<1>2. PICK m \in Bounds : \A u \in Bounds : m <= u
  <2>1. Bounds \subseteq Nat /\ Bounds # {}
    BY <1>1
  <2> HIDE DEF Bounds
  <2> QED
    BY <2>1, LeastOf
<1>3. m \in S
  <2>1. SUFFICES ASSUME m \notin S PROVE FALSE
    OBVIOUS
  <2>2. PICK y \in S : TRUE
    OBVIOUS
  <2>3. \A z \in S : z <= m - 1
    BY <1>2, <2>1
  <2>4. m - 1 \in Bounds
    BY <1>2, <2>2, <2>3
  <2> QED
    BY <1>2, <2>4
<1>4. Max(S) = m
  <2>1. S \subseteq Int /\ \A y \in S : m >= y
    BY <1>2
  <2> QED
    BY <1>3, <2>1, MaxIs
<1> QED
  BY <1>2, <1>3, <1>4

(* So has what a finite sequence of naturals holds. *)
LEMMA SequenceIsBounded ==
    ASSUME NEW n \in Nat, NEW f \in [1..n -> Nat]
    PROVE  \E u \in Nat : \A i \in 1..n : f[i] <= u
<1> DEFINE Bounded(k) == \E u \in Nat : \A i \in 1..n : i <= k => f[i] <= u
<1>1. Bounded(0)
  OBVIOUS
<1>2. ASSUME NEW k \in 1..n, Bounded(k - 1)
      PROVE  Bounded(k)
  <2>1. PICK u \in Nat : \A i \in 1..n : i <= k - 1 => f[i] <= u
    BY <1>2
  <2>2. f[k] \in Nat
    OBVIOUS
  <2>3. u + f[k] \in Nat /\ u <= u + f[k] /\ f[k] <= u + f[k]
    BY <2>2
  <2>4. ASSUME NEW i \in 1..n, i <= k PROVE f[i] <= u + f[k]
    <3>1. CASE i = k
      BY <2>3, <3>1
    <3>2. CASE i # k
      <4>1. f[i] <= u /\ f[i] \in Nat
        BY <2>1, <2>4, <3>2
      <4> QED
        BY <2>2, <2>3, <4>1
    <3> QED
      BY <3>1, <3>2
  <2> QED
    BY <2>3, <2>4
<1> DEFINE Bad == {k \in 0..n : ~Bounded(k)}
<1>3. Bad = {}
  <2>1. Bad \subseteq Nat
    OBVIOUS
  <2>2. SUFFICES ASSUME Bad # {} PROVE FALSE
    OBVIOUS
  <2>3. PICK k \in Bad : \A j \in Bad : k <= j
    <3> HIDE DEF Bad
    <3> QED
      BY <2>1, <2>2, LeastOf
  <2> HIDE DEF Bounded
  <2>4. k \in 1..n
    BY <1>1, <2>3
  <2>5. k - 1 \in 0..n /\ k - 1 \notin Bad
    BY <2>3, <2>4
  <2>6. Bounded(k)
    BY <1>2, <2>4, <2>5
  <2> QED
    BY <2>3, <2>6
<1>4. Bounded(n)
  <2> HIDE DEF Bounded
  <2> QED
    BY <1>3
<1> QED
  BY <1>4

----------------------------------------------------------------------------
(* The operators of the model *)

LEMMA TreesAreTyped ==
    ASSUME NEW t \in Trees
    PROVE  /\ t \in Seq(Node) /\ Len(t) \in Nat /\ DOMAIN t = 1..Len(t)
           /\ t = Invalid <=> Len(t) = 0
           /\ \A i \in 1..Len(t) :
                  /\ t[i] \in Node /\ t[i].phandle \in Nat /\ t[i].config \in Nat
                  /\ path_depth(Spelled(t[i].path)) \in 1..(HashLevels - 1)
                  /\ Spelled(t[i].path) \in DOMAIN Hash
           /\ \A i, j \in 1..Len(t) :
                  i # j /\ t[i].phandle = t[j].phandle => t[i].phandle = 0
<1>1. WellFormed(t)
  BY ConstantsAreTyped
<1>2. t \in Seq(Node)
  BY <1>1 DEF WellFormed
<1>3. Len(t) \in Nat /\ DOMAIN t = 1..Len(t) /\ (t = Invalid <=> Len(t) = 0)
  BY <1>2, EmptySeq DEF Invalid
<1>4. \A i \in 1..Len(t) : t[i] \in Node
  BY <1>2
<1>5. \A i \in 1..Len(t) : t[i].phandle \in Nat /\ t[i].config \in Nat
  BY <1>4 DEF Node
<1>6. \A i \in 1..Len(t) :
          /\ path_depth(Spelled(t[i].path)) \in 1..(HashLevels - 1)
          /\ Spelled(t[i].path) \in DOMAIN Hash
  BY <1>1, Zenon DEF WellFormed
<1>7. \A i, j \in 1..Len(t) : i # j => (t[i].phandle = t[j].phandle => t[i].phandle = 0)
  BY <1>1, Zenon DEF WellFormed
<1> QED
  BY <1>2, <1>3, <1>4, <1>5, <1>6, <1>7

(* fdt_get_max_phandle finds the largest phandle of a tree. *)
LEMMA LargestPhandle ==
    ASSUME NEW t \in Trees, t # Invalid
    PROVE  /\ fdt_get_max_phandle(t) \in Nat
           /\ \A i \in 1..Len(t) : t[i].phandle <= fdt_get_max_phandle(t)
<1> DEFINE S == {t[i].phandle : i \in 1..Len(t)}
           f == [i \in 1..Len(t) |-> t[i].phandle]
<1>1. /\ Len(t) \in Nat \ {0}
      /\ \A i \in 1..Len(t) : t[i].phandle \in Nat
  BY TreesAreTyped
<1>2. S \subseteq Nat /\ S # {} /\ \A i \in 1..Len(t) : t[i].phandle \in S
  <2>1. t[1].phandle \in S
    BY <1>1
  <2> QED
    BY <1>1, <2>1
<1>3. PICK u \in Nat : \A i \in 1..Len(t) : t[i].phandle <= u
  <2>1. f \in [1..Len(t) -> Nat]
    BY <1>1
  <2>2. PICK u \in Nat : \A i \in 1..Len(t) : f[i] <= u
    <3> HIDE DEF f
    <3> QED
      BY <1>1, <2>1, SequenceIsBounded
  <2>3. \A i \in 1..Len(t) : f[i] = t[i].phandle
    OBVIOUS
  <2> QED
    BY <2>2, <2>3
<1>4. \A y \in S : y <= u
  BY <1>3
<1>5. fdt_get_max_phandle(t) = Max(S)
  BY Zenon DEF fdt_get_max_phandle
<1> HIDE DEF S
<1>6. Max(S) \in S /\ \A y \in S : y <= Max(S)
  BY <1>2, <1>3, <1>4, LargestOf
<1> QED
  BY <1>2, <1>5, <1>6

(* A blob without an array of its own gets none only if it has no phandles. *)
LEMMA SizesAreRight ==
    ASSUME TypeOK, NEW b \in Blobs, NEW size \in CacheSizes(b)
    PROVE  /\ size \in Nat
           /\ \/ size # 0
              \/ \E i \in 1..Len(phandle_cache) : phandle_cache[i].blob = b
              \/ \A i \in 1..Len(memory[b]) : memory[b][i].phandle = 0
<1>1. memory[b] \in Trees /\ MaxPhandle \in Nat \ {0}
  BY ConstantsAreTyped DEF TypeOK
<1>2. CASE \E i \in 1..Len(phandle_cache) : phandle_cache[i].blob = b
  <2>1. size \in {0}
    BY <1>2, Zenon DEF CacheSizes
  <2> QED
    BY <1>2, <2>1
<1>3. CASE memory[b] = Invalid /\ ~(\E i \in 1..Len(phandle_cache) : phandle_cache[i].blob = b)
  <2>1. size \in 0..(MaxPhandle + 1)
    BY <1>3, Zenon DEF CacheSizes
  <2>2. Len(memory[b]) = 0
    BY <1>1, <1>3, TreesAreTyped
  <2> QED
    BY <1>1, <2>1, <2>2
<1>4. CASE memory[b] # Invalid /\ ~(\E i \in 1..Len(phandle_cache) : phandle_cache[i].blob = b)
  <2>1. PICK max : max = fdt_get_max_phandle(memory[b])
    OBVIOUS
  <2>2. size = IF max = 0 THEN 0 ELSE Min({max, MaxPhandle}) + 1
    BY <1>4, <2>1, Zenon DEF CacheSizes
  <2>3. max \in Nat /\ \A i \in 1..Len(memory[b]) : memory[b][i].phandle <= max
    BY <1>1, <1>4, <2>1, LargestPhandle
  <2>4. \A i \in 1..Len(memory[b]) : memory[b][i].phandle \in Nat
    BY <1>1, TreesAreTyped
  <2>5. Min({max, MaxPhandle}) \in Nat
    BY <1>1, <2>3, MinOfPair
  <2>6. CASE max = 0
    <3>1. \A i \in 1..Len(memory[b]) : memory[b][i].phandle = 0
      BY <2>3, <2>4, <2>6
    <3> QED
      BY <2>2, <2>6, <3>1
  <2>7. CASE max # 0
    BY <2>2, <2>5, <2>7
  <2> QED
    BY <2>6, <2>7
<1> QED
  BY <1>2, <1>3, <1>4

(* What recording may change: only the head of the list, and there only    *)
(* what a node of the tree has as its phandle.                             *)
IsRecorded(t, caches, new) ==
    /\ new \in Seq(Cache) /\ Len(new) = Len(caches)
    /\ \A i \in 1..Len(caches) :
          /\ new[i].blob = caches[i].blob
          /\ new[i].array \in Seq(Nat)
          /\ Len(new[i].array) = Len(caches[i].array)
          /\ i # 1 => new[i] = caches[i]
          /\ \A k \in 1..Len(caches[i].array) :
                \/ new[i].array[k] = caches[i].array[k]
                \/ /\ Answers(t, k, new[i].array[k])
                   /\ \E j \in 1..Len(t) : t[j].phandle # 0

LEMMA RecordedAreRight ==
    ASSUME NEW b \in Blobs, memory[b] \in Trees, NEW n \in 0..Len(memory[b]),
           NEW caches \in Seq(Cache),
           NEW new, new = RecordedPhandles(b, n, caches)
    PROVE  IsRecorded(memory[b], caches, new)
<1> DEFINE t == memory[b]
           visited == IF n = 0 THEN {} ELSE 2..Min({n + 1, Len(t)})
           At(p) == {i \in visited : t[i].phandle = p}
           Value(a, k) == IF k > 1 /\ At(k - 1) # {} THEN Max(At(k - 1)) - 1 ELSE a[k]
           Array(a) == [k \in 1..Len(a) |-> Value(a, k)]
<1> SUFFICES /\ new \in Seq(Cache) /\ Len(new) = Len(caches)
             /\ \A i \in 1..Len(caches) :
                   /\ new[i].blob = caches[i].blob
                   /\ new[i].array \in Seq(Nat)
                   /\ Len(new[i].array) = Len(caches[i].array)
                   /\ i # 1 => new[i] = caches[i]
                   /\ \A k \in 1..Len(caches[i].array) :
                         \/ new[i].array[k] = caches[i].array[k]
                         \/ /\ Answers(t, k, new[i].array[k])
                            /\ \E j \in 1..Len(t) : t[j].phandle # 0
  BY Zenon DEF IsRecorded
<1>1. /\ Len(t) \in Nat
      /\ \A i \in 1..Len(t) : t[i].phandle \in Nat
      /\ \A i, j \in 1..Len(t) :
            i # j /\ t[i].phandle = t[j].phandle => t[i].phandle = 0
  BY TreesAreTyped
<1>2. visited \subseteq 2..Len(t)
  <2>1. Min({n + 1, Len(t)}) \in Int /\ Min({n + 1, Len(t)}) <= Len(t)
    BY <1>1, MinOfPair, SMTT(60)
  <2> HIDE DEF t
  <2> QED
    BY <1>1, <2>1
<1>3. CASE caches = << >>
  <2>1. new = caches
    BY <1>3, Zenon DEF RecordedPhandles
  <2>2. \A i \in 1..Len(caches) : FALSE
    BY <1>3
  <2> QED
    BY <2>1, <2>2
<1>4. CASE caches # << >>
  <2>1. new = [caches EXCEPT ![1].array = Array(@)]
    BY <1>4, Zenon DEF RecordedPhandles
  <2>2. /\ Len(caches) \in Nat \ {0} /\ DOMAIN caches = 1..Len(caches)
        /\ \A i \in 1..Len(caches) : caches[i] \in Cache
    BY <1>4, EmptySeq
  <2>3. \A i \in 1..Len(caches) :
            caches[i].blob \in Blobs /\ caches[i].array \in Seq(Nat)
    BY <2>2 DEF Cache
  <2>4. ASSUME NEW a \in Seq(Nat), NEW k \in 1..Len(a)
        PROVE  \/ Value(a, k) = a[k]
               \/ /\ Value(a, k) \in Nat
                  /\ Answers(t, k, Value(a, k))
                  /\ \E j \in 1..Len(t) : t[j].phandle # 0
    <3>0. k \in Nat \ {0}
      OBVIOUS
    <3>1. CASE k > 1 /\ At(k - 1) # {}
      <4>1. PICK i \in visited : t[i].phandle = k - 1
        BY <3>1
      <4>2. i \in 2..Len(t)
        BY <1>2, <4>1
      <4>3. At(k - 1) = {i}
        <5>1. ASSUME NEW j \in At(k - 1) PROVE j = i
          <6>0. j \in visited /\ t[j].phandle = k - 1
            BY <5>1
          <6> HIDE DEF t, visited
          <6>1. j \in 1..Len(t) /\ i \in 1..Len(t) /\ t[j].phandle = k - 1
            BY <1>1, <1>2, <4>2, <6>0
          <6>2. t[i].phandle # 0
            BY <3>0, <3>1, <4>1
          <6> QED
            BY <1>1, <4>1, <6>1, <6>2
        <5>2. i \in At(k - 1)
          BY <4>1
        <5> QED
          BY <5>1, <5>2
      <4>4. Max(At(k - 1)) = i
        <5>1. At(k - 1) \subseteq Int /\ i \in At(k - 1) /\ \A y \in At(k - 1) : i >= y
          <6>1. i \in Int /\ i >= i
            BY <1>1, <4>2
          <6> HIDE DEF At
          <6> QED
            BY <4>3, <6>1
        <5> HIDE DEF At
        <5> QED
          BY <5>1, MaxIs
      <4>5. Value(a, k) = i - 1
        BY <3>1, <4>4, Zenon
      <4> HIDE DEF Value, t
      <4>6. i - 1 \in Nat /\ i - 1 # 0 /\ (i - 1) + 1 = i /\ i \in 1..Len(t) /\ k # 1 /\ k - 1 # 0
        BY <1>1, <3>0, <3>1, <4>2
      <4>7. Answers(t, k, i - 1)
        BY <4>1, <4>6 DEF Answers
      <4>8. \E j \in 1..Len(t) : t[j].phandle # 0
        BY <4>1, <4>6
      <4> QED
        BY <4>5, <4>6, <4>7, <4>8
    <3>2. CASE ~(k > 1 /\ At(k - 1) # {})
      <4>1. Value(a, k) = a[k]
        BY <3>2, Zenon
      <4> QED
        BY <4>1
    <3> QED
      BY <3>1, <3>2
  <2> HIDE DEF Value, t
  <2>5. ASSUME NEW a \in Seq(Nat)
        PROVE  Array(a) \in Seq(Nat) /\ Len(Array(a)) = Len(a)
    <3>1. \A k \in 1..Len(a) : Value(a, k) \in Nat
      BY <2>4
    <3>2. Len(a) \in Nat
      BY LenProperties
    <3> QED
      BY <3>1, <3>2
  <2>6. \A a : \A k \in 1..Len(a) : Array(a)[k] = Value(a, k)
    OBVIOUS
  <2> HIDE DEF Array
  <2>7. /\ DOMAIN new = 1..Len(caches)
        /\ \A i \in 1..Len(caches) : i # 1 => new[i] = caches[i]
    BY <2>1, <2>2
  <2>8. /\ new[1] \in Cache /\ new[1].blob = caches[1].blob
        /\ new[1].array = Array(caches[1].array)
    <3>1. PICK c : c = caches[1]
      OBVIOUS
    <3>2. c \in Cache /\ c.array \in Seq(Nat)
      BY <2>2, <2>3, <3>1
    <3>3. new[1] = [c EXCEPT !.array = Array(@)]
      BY <2>1, <2>2, <3>1
    <3>4. Array(c.array) \in Seq(Nat)
      BY <2>5, <3>2
    <3>5. new[1] \in Cache /\ new[1].blob = c.blob /\ new[1].array = Array(c.array)
      BY <3>2, <3>3, <3>4 DEF Cache
    <3> QED
      BY <3>1, <3>5
  <2>9. new \in Seq(Cache) /\ Len(new) = Len(caches)
    <3>1. \A i \in 1..Len(caches) : new[i] \in Cache
      BY <2>2, <2>7, <2>8
    <3>2. new = [i \in 1..Len(caches) |-> new[i]]
      BY <2>1, <2>2
    <3>3. new \in [1..Len(caches) -> Cache]
      BY <3>1, <3>2
    <3> QED
      BY <2>2, <2>7, <3>3
  <2>10. ASSUME NEW i \in 1..Len(caches)
         PROVE  /\ new[i].blob = caches[i].blob
                /\ new[i].array \in Seq(Nat)
                /\ Len(new[i].array) = Len(caches[i].array)
                /\ \A k \in 1..Len(caches[i].array) :
                       \/ new[i].array[k] = caches[i].array[k]
                       \/ /\ Answers(t, k, new[i].array[k])
                          /\ \E j \in 1..Len(t) : t[j].phandle # 0
    <3>1. CASE i = 1
      <4>1. PICK a : a = caches[1].array
        OBVIOUS
      <4>2. a \in Seq(Nat)
        BY <2>3, <3>1, <4>1
      <4>3. Array(a) \in Seq(Nat) /\ Len(Array(a)) = Len(a)
        BY <2>5, <4>2
      <4>4. \A k \in 1..Len(a) :
               \/ Array(a)[k] = a[k]
               \/ /\ Answers(t, k, Array(a)[k])
                  /\ \E j \in 1..Len(t) : t[j].phandle # 0
        BY <2>4, <2>6, <4>2
      <4>5. new[i].blob = caches[i].blob /\ new[i].array = Array(a) /\ caches[i].array = a
        BY <2>8, <3>1, <4>1
      <4> QED
        BY <4>3, <4>4, <4>5
    <3>2. CASE i # 1
      BY <2>3, <2>7, <3>2
    <3> QED
      BY <3>1, <3>2
  <2> USE DEF t
  <2> QED
    BY <2>7, <2>9, <2>10
<1> QED
  BY <1>3, <1>4

(* What a build leaves, by the number of lists and of nodes it had room    *)
(* for: no nodes without all the lists, and all of them unless short.      *)
LEMMA BuiltParts ==
    ASSUME TypeOK, NEW b \in Blobs, NEW size \in CacheSizes(b), NEW room \in Rooms(b),
           BuildTables(b, size, room)
    PROVE  /\ short' \in BOOLEAN
           /\ \/ short' /\ UNCHANGED tables /\ returned' = [blob |-> b, status |-> "ERROR"]
              \/ \E newLists \in 0..HashLevels, nodes \in 0..Len(memory[b]) :
                    /\ nodes # 0 => newLists = HashLevels
                    /\ ~short' => ~short /\ newLists = HashLevels
                    /\ lists' = [lists EXCEPT ![b] = newLists]
                    /\ hash_node' = [hash_node EXCEPT ![b] = AddedHashNodes(b, nodes)]
                    /\ phandle_cache' = RecordedPhandles(b, nodes,
                                            alloc_phandle_to_node_cache_space(b, size))
                    /\ returned' = [blob |-> b, status |-> Status(b, nodes)]
<1>0. PICK forCache, len : forCache = (IF size = 0 THEN 0 ELSE 2) /\ len = Len(memory[b])
  OBVIOUS
<1>1. /\ len \in Nat /\ HashLevels \in Nat \ {0} /\ room \in Nat
      /\ forCache \in Nat
  <2>1. memory[b] \in Trees
    BY DEF TypeOK
  <2>2. len \in Nat /\ HashLevels \in Nat \ {0}
    BY <1>0, <2>1, TreesAreTyped, ConstantsAreTyped
  <2>3. PICK enough : enough = 2 + HashLevels + len
    OBVIOUS
  <2>4. room \in 0..enough \/ room \in {enough}
    <3>1. Rooms(b) = IF MallocFails THEN 0..enough ELSE {enough}
      BY <1>0, <2>3, Zenon DEF Rooms
    <3> QED
      BY <3>1, Zenon
  <2>5. room \in Nat
    BY <2>2, <2>3, <2>4
  <2>6. forCache \in Nat
    <3>1. forCache = IF size = 0 THEN 0 ELSE 2
      BY <1>0
    <3> QED
      BY <3>1
  <2> QED
    BY <2>2, <2>5, <2>6
<1> DEFINE newLists == Min({room - forCache, HashLevels})
           above == Max({room - forCache - HashLevels, 0})
           nodes == Min({above, len})
           tight == room < forCache + HashLevels + len
<1>2. /\ short' = (short \/ room < forCache + HashLevels + len)
      /\ IF room < forCache
         THEN /\ returned' = [blob |-> b, status |-> "ERROR"]
              /\ UNCHANGED tables
         ELSE /\ lists' = [lists EXCEPT ![b] = newLists]
              /\ hash_node' = [hash_node EXCEPT ![b] = AddedHashNodes(b, nodes)]
              /\ phandle_cache' = RecordedPhandles(b, nodes,
                                      alloc_phandle_to_node_cache_space(b, size))
              /\ returned' = [blob |-> b, status |-> Status(b, nodes)]
  BY <1>0, Zenon DEF BuildTables
<1>3. short' \in BOOLEAN /\ (~short' => ~short /\ ~tight)
  <2>1. short' = (short \/ tight)
    BY <1>2, Zenon
  <2>2. short \in BOOLEAN
    BY DEF TypeOK
  <2>3. tight \in BOOLEAN
    OBVIOUS
  <2> HIDE DEF tight
  <2> QED
    BY <2>1, <2>2, <2>3, Zenon
<1>4. CASE room < forCache
  <2>1. tight
    BY <1>1, <1>4
  <2>2. UNCHANGED tables /\ returned' = [blob |-> b, status |-> "ERROR"]
    BY <1>2, <1>4, Zenon
  <2> HIDE DEF tight
  <2> QED
    BY <1>3, <2>1, <2>2, Zenon
<1>5. CASE ~(room < forCache)
  <2>1. /\ newLists \in Int /\ newLists <= HashLevels /\ newLists >= 0
        /\ room - forCache >= HashLevels => newLists = HashLevels
        /\ ~tight => newLists = HashLevels
    BY <1>1, <1>5, MinOfPair
  <2>2. above \in Nat /\ (above # 0 => room - forCache >= HashLevels)
    BY <1>1, <1>5, MaxOfPair
  <2> HIDE DEF newLists, above, tight
  <2>3. nodes \in Nat /\ nodes <= len /\ (nodes # 0 => above # 0)
    BY <1>1, <2>2, MinOfPair
  <2> HIDE DEF nodes
  <2>4. /\ newLists \in 0..HashLevels /\ nodes \in 0..len
        /\ nodes # 0 => newLists = HashLevels
    BY <1>1, <2>1, <2>2, <2>3
  <2>5. ~short' => ~short /\ newLists = HashLevels
    BY <1>3, <2>1, Zenon
  <2>6. /\ lists' = [lists EXCEPT ![b] = newLists]
        /\ hash_node' = [hash_node EXCEPT ![b] = AddedHashNodes(b, nodes)]
        /\ phandle_cache' = RecordedPhandles(b, nodes, alloc_phandle_to_node_cache_space(b, size))
        /\ returned' = [blob |-> b, status |-> Status(b, nodes)]
    BY <1>2, <1>5, Zenon
  <2> QED
    BY <1>0, <1>3, <2>4, <2>5, <2>6, Zenon
<1> QED
  BY <1>4, <1>5

LEMMA AddedAreEntries ==
    ASSUME TypeOK, NEW b \in Blobs, NEW n \in 0..Len(memory[b])
    PROVE  /\ AddedHashNodes(b, n) \in Seq(Entry) /\ Len(AddedHashNodes(b, n)) = n
           /\ n = 0 => AddedHashNodes(b, n) = << >>
           /\ \A i \in 1..n : AddedHashNodes(b, n)[i] = EntryOf(memory[b], i)
<1> DEFINE t == memory[b]
<1>1. /\ t \in Trees /\ Len(t) \in Nat /\ n \in Nat /\ HashLevels \in Nat
      /\ \A i \in 1..Len(t) :
             /\ path_depth(Spelled(t[i].path)) \in 1..(HashLevels - 1)
             /\ Spelled(t[i].path) \in DOMAIN Hash
  BY ConstantsAreTyped, TreesAreTyped DEF TypeOK
<1>2. ASSUME NEW i \in 1..n PROVE EntryOf(t, i) \in Entry
  <2>1. PICK h, d : h = Hash[Spelled(t[i].path)] /\ d = path_depth(Spelled(t[i].path))
    OBVIOUS
  <2>2. i \in 1..Len(t)
    BY <1>1
  <2>3. h \in {Hash[p] : p \in DOMAIN Hash}
    BY <1>1, <2>1, <2>2
  <2>4. d \in 1..HashLevels /\ i - 1 \in Nat
    BY <1>1, <2>1, <2>2
  <2>5. EntryOf(t, i) = [hash |-> h, level |-> d, offset |-> i - 1]
    BY <2>1, Zenon DEF EntryOf
  <2> QED
    BY <2>3, <2>4, <2>5 DEF Entry
<1>3. AddedHashNodes(b, n) = [i \in 1..n |-> EntryOf(t, i)]
  BY Zenon DEF AddedHashNodes, EntryOf
<1> HIDE DEF t
<1>4. /\ AddedHashNodes(b, n) \in Seq(Entry) /\ Len(AddedHashNodes(b, n)) = n
      /\ \A i \in 1..n : AddedHashNodes(b, n)[i] = EntryOf(t, i)
  BY <1>1, <1>2, <1>3
<1>5. n = 0 => AddedHashNodes(b, n) = << >>
  BY <1>4, EmptySeq
<1> USE DEF t
<1> QED
  BY <1>4, <1>5

(* The list of caches before anything is recorded: the old ones behind an  *)
(* array of zeros for the blob, if it gets one.                            *)
LEMMA AllocatedAreZeros ==
    ASSUME TypeOK, NEW b \in Blobs, NEW size \in Nat,
           NEW caches, caches = alloc_phandle_to_node_cache_space(b, size)
    PROVE  /\ caches \in Seq(Cache)
           /\ \A i \in 1..Len(caches) :
                 \/ \E j \in 1..Len(phandle_cache) : caches[i] = phandle_cache[j]
                 \/ /\ caches[i].blob = b
                    /\ \A k \in 1..Len(caches[i].array) : caches[i].array[k] = 0
           /\ size # 0 => caches[1].blob = b
<1>1. phandle_cache \in Seq(Cache)
  BY DEF TypeOK
<1>2. CASE size = 0
  BY <1>1, <1>2 DEF alloc_phandle_to_node_cache_space
<1>3. CASE size # 0
  <2>1. PICK c : c = [blob |-> b, array |-> Zeros(size)]
    OBVIOUS
  <2>2. /\ Zeros(size) \in Seq(Nat)
        /\ \A k \in 1..Len(Zeros(size)) : Zeros(size)[k] = 0
    BY DEF Zeros
  <2>3. /\ c \in Cache /\ c.blob = b
        /\ \A k \in 1..Len(c.array) : c.array[k] = 0
    BY <2>1, <2>2 DEF Cache
  <2>4. caches = <<c>> \o phandle_cache
    BY <1>3, <2>1, Zenon DEF alloc_phandle_to_node_cache_space
  <2>5. /\ caches \in Seq(Cache) /\ Len(caches) = Len(phandle_cache) + 1
        /\ caches[1] = c
        /\ \A i \in 1..Len(caches) : i # 1 =>
               i - 1 \in 1..Len(phandle_cache) /\ caches[i] = phandle_cache[i - 1]
    BY <1>1, <2>3, <2>4
  <2> QED
    BY <2>3, <2>5
<1> QED
  BY <1>2, <1>3

----------------------------------------------------------------------------
(* The invariant *)

LEMMA InitIsSound == Init => CacheInv
<1>1. SUFFICES ASSUME Init PROVE CacheInv
  OBVIOUS
<1>2. HashLevels \in Nat \ {0} /\ NULL \notin Blobs
  BY ConstantsAreTyped
<1>3. TypeOK
  <2>1. /\ memory \in [Blobs -> Trees]
        /\ dtb_blob \in [BlobIds -> Blobs \cup {NULL}]
        /\ dtb_config \in Nat
        /\ lists \in [Blobs -> 0..HashLevels]
        /\ hash_node \in [Blobs -> Seq(Entry)]
    BY <1>1, <1>2 DEF Init
  <2>2. /\ phandle_cache \in Seq(Cache) /\ stale \subseteq Blobs
        /\ returned \in [blob : Blobs \cup {NULL}, status : {"NOERROR", "ERROR"}]
    BY <1>1 DEF Init
  <2>3. short \in BOOLEAN
    BY <1>1 DEF Init
  <2> QED
    BY <2>1, <2>2, <2>3, Zenon DEF TypeOK
<1>4. EntriesHaveLists
  BY <1>1 DEF Init, EntriesHaveLists
<1>5. TablesHoldNodes
  BY <1>1 DEF Init, TablesHoldNodes
<1>6. CachesAreRight
  BY <1>1 DEF Init, CachesAreRight
<1>7. SuccessMeansWholeTable
  BY <1>1, <1>2 DEF Init, SuccessMeansWholeTable
<1> QED
  BY <1>3, <1>4, <1>5, <1>6, <1>7 DEF CacheInv

(* All tables freed: nothing is left that could be wrong. *)
LEMMA FreeKeepsInv ==
    ASSUME TypeOK, NEW b \in Blobs, free_tables, stale' = {}, short' = FALSE,
           returned' = [blob |-> b, status |-> "NOERROR"]
    PROVE  /\ EntriesHaveLists' /\ TablesHoldNodes' /\ CachesAreRight'
           /\ SuccessMeansWholeTable'
           /\ lists' \in [Blobs -> 0..HashLevels] /\ hash_node' \in [Blobs -> Seq(Entry)]
           /\ phandle_cache' \in Seq(Cache) /\ short' \in BOOLEAN
           /\ returned' \in [blob : Blobs \cup {NULL}, status : {"NOERROR", "ERROR"}]
<1>1. HashLevels \in Nat \ {0}
  BY ConstantsAreTyped
<1>2. /\ \A a \in Blobs : lists'[a] = 0 /\ hash_node'[a] = << >>
      /\ phandle_cache' = << >>
      /\ lists' \in [Blobs -> 0..HashLevels] /\ hash_node' \in [Blobs -> Seq(Entry)]
  BY <1>1 DEF free_tables
<1>3. EntriesHaveLists' /\ TablesHoldNodes' /\ CachesAreRight'
  BY <1>2 DEF EntriesHaveLists, TablesHoldNodes, CachesAreRight
<1>4. SuccessMeansWholeTable'
  BY <1>2 DEF SuccessMeansWholeTable
<1>5. returned' \in [blob : Blobs \cup {NULL}, status : {"NOERROR", "ERROR"}]
  OBVIOUS
<1>6. phandle_cache' \in Seq(Cache)
  BY <1>2
<1>7. short' \in BOOLEAN
  OBVIOUS
<1> QED
  BY <1>2, <1>3, <1>4, <1>5, <1>6, <1>7, Zenon

(* Another blob's cache has no room for what is recorded, and its own      *)
(* array gets what the nodes of the blob have as their phandles.           *)
LEMMA RecordingKeepsCaches ==
    ASSUME CacheInv, NEW b \in Blobs, lists[b] = 0, ~short,
           NEW size \in CacheSizes(b), NEW nodes \in 0..Len(memory[b]),
           phandle_cache' = RecordedPhandles(b, nodes, alloc_phandle_to_node_cache_space(b, size)),
           lists' = [lists EXCEPT ![b] = HashLevels],
           memory' = memory, stale' = stale \ {b}
    PROVE  \A i \in 1..Len(phandle_cache') : CacheIsRight(phandle_cache[i])'
<1> PICK caches : caches = alloc_phandle_to_node_cache_space(b, size)
  OBVIOUS
<1> PICK new : new = phandle_cache'
  OBVIOUS
<1>0. TypeOK /\ memory[b] \in Trees /\ lists \in [Blobs -> 0..HashLevels] /\ HashLevels # 0
      /\ \A i \in 1..Len(phandle_cache) : phandle_cache[i].blob \in Blobs
  <2>1. TypeOK
    BY DEF CacheInv
  <2>2. phandle_cache \in Seq(Cache)
    BY <2>1 DEF TypeOK
  <2>3. \A i \in 1..Len(phandle_cache) : phandle_cache[i] \in Cache
    BY <2>2
  <2>4. \A i \in 1..Len(phandle_cache) : phandle_cache[i].blob \in Blobs
    BY <2>3 DEF Cache
  <2> QED
    BY <2>1, <2>4, ConstantsAreTyped DEF TypeOK
<1>1. \A j \in 1..Len(phandle_cache) :
         /\ lists[phandle_cache[j].blob] # 0
         /\ phandle_cache[j].blob \notin stale =>
                \A k \in 1..Len(phandle_cache[j].array) :
                    Answers(memory[phandle_cache[j].blob], k, phandle_cache[j].array[k])
  BY DEF CacheInv, CachesAreRight, CacheIsRight
<1>2. /\ size \in Nat
      /\ size = 0 => \A i \in 1..Len(memory[b]) : memory[b][i].phandle = 0
  BY <1>0, <1>1, SizesAreRight
<1>3. /\ caches \in Seq(Cache)
      /\ \A i \in 1..Len(caches) :
             \/ \E j \in 1..Len(phandle_cache) : caches[i] = phandle_cache[j]
             \/ /\ caches[i].blob = b
                /\ \A k \in 1..Len(caches[i].array) : caches[i].array[k] = 0
      /\ size # 0 => caches[1].blob = b
  BY <1>0, <1>2, AllocatedAreZeros
<1>4. /\ new \in Seq(Cache) /\ Len(new) = Len(caches)
      /\ \A i \in 1..Len(caches) :
            /\ new[i].blob = caches[i].blob
            /\ Len(new[i].array) = Len(caches[i].array)
            /\ i # 1 => new[i] = caches[i]
            /\ \A k \in 1..Len(caches[i].array) :
                  \/ new[i].array[k] = caches[i].array[k]
                  \/ /\ Answers(memory[b], k, new[i].array[k])
                     /\ \E j \in 1..Len(memory[b]) : memory[b][j].phandle # 0
  <2>1. /\ new = RecordedPhandles(b, nodes, caches) /\ nodes \in 0..Len(memory[b])
        /\ memory[b] \in Trees /\ caches \in Seq(Cache) /\ b \in Blobs
    BY <1>0, <1>3
  <2>2. IsRecorded(memory[b], caches, new)
    BY ONLY <2>1, RecordedAreRight
  <2> QED
    BY <2>2 DEF IsRecorded
<1>5. ASSUME NEW i \in 1..Len(new)
      PROVE  /\ lists'[new[i].blob] # 0
             /\ new[i].blob \notin stale' =>
                    \A k \in 1..Len(new[i].array) :
                        Answers(memory[new[i].blob], k, new[i].array[k])
  <2>0. i \in 1..Len(caches)
    BY <1>4
  <2>1. CASE \E j \in 1..Len(phandle_cache) : caches[i] = phandle_cache[j]
    <3>1. PICK j \in 1..Len(phandle_cache) : caches[i] = phandle_cache[j]
      BY <2>1
    <3>2. caches[i].blob # b /\ caches[i].blob \in Blobs
      BY <1>0, <1>1, <3>1
    <3>3. new[i].blob = caches[i].blob
      BY <1>4, <2>0
    <3>4. lists'[new[i].blob] # 0
      BY <1>0, <1>1, <3>1, <3>2, <3>3
    <3>5. \A k \in 1..Len(caches[i].array) : new[i].array[k] = caches[i].array[k]
      <4>1. CASE i = 1
        <5>1. size = 0
          BY <1>3, <3>2, <4>1
        <5> QED
          BY <1>2, <1>4, <2>0, <5>1
      <4>2. CASE i # 1
        BY <1>4, <2>0, <4>2
      <4> QED
        BY <4>1, <4>2
    <3>6. ASSUME new[i].blob \notin stale', NEW k \in 1..Len(new[i].array)
          PROVE  Answers(memory[new[i].blob], k, new[i].array[k])
      <4>1. phandle_cache[j].blob \notin stale
        BY <3>1, <3>2, <3>3, <3>6
      <4>2. k \in 1..Len(caches[i].array)
        BY <1>4, <2>0
      <4>3. Answers(memory[caches[i].blob], k, caches[i].array[k])
        BY <1>1, <3>1, <4>1, <4>2
      <4> QED
        BY <3>3, <3>5, <4>2, <4>3
    <3> QED
      BY <3>4, <3>6
  <2>2. CASE /\ caches[i].blob = b
             /\ \A k \in 1..Len(caches[i].array) : caches[i].array[k] = 0
    <3>1. new[i].blob = b
      BY <1>4, <2>0, <2>2
    <3>2. lists'[b] # 0
      BY <1>0
    <3>3. ASSUME NEW k \in 1..Len(new[i].array)
          PROVE  Answers(memory[b], k, new[i].array[k])
      <4>1. k \in 1..Len(caches[i].array)
        BY <1>4, <2>0
      <4>2. new[i].array[k] = 0 \/ Answers(memory[b], k, new[i].array[k])
        BY <1>4, <2>0, <2>2, <4>1
      <4> QED
        BY <4>2 DEF Answers
    <3> QED
      BY <3>1, <3>2, <3>3
  <2> QED
    BY <1>3, <2>0, <2>1, <2>2
<1> QED
  BY <1>5 DEF CacheIsRight

(* One blob's table built, as far as there is memory *)
LEMMA BuildKeepsInv ==
    ASSUME CacheInv, NEW b \in Blobs, ~is_merge_dtb(b),
           NEW size \in CacheSizes(b), NEW room \in Rooms(b), BuildTables(b, size, room),
           memory' = memory, stale' = stale \ {b}
    PROVE  /\ EntriesHaveLists' /\ TablesHoldNodes' /\ CachesAreRight'
           /\ SuccessMeansWholeTable'
           /\ lists' \in [Blobs -> 0..HashLevels] /\ hash_node' \in [Blobs -> Seq(Entry)]
           /\ phandle_cache' \in Seq(Cache) /\ short' \in BOOLEAN
           /\ returned' \in [blob : Blobs \cup {NULL}, status : {"NOERROR", "ERROR"}]
<1>0. TypeOK /\ EntriesHaveLists /\ TablesHoldNodes
  BY DEF CacheInv
<1>1. /\ HashLevels \in Nat \ {0} /\ memory[b] \in Trees /\ Len(memory[b]) \in Nat
      /\ lists \in [Blobs -> 0..HashLevels] /\ hash_node \in [Blobs -> Seq(Entry)]
      /\ phandle_cache \in Seq(Cache) /\ stale \subseteq Blobs
  BY <1>0, ConstantsAreTyped, TreesAreTyped DEF TypeOK
<1>2. lists[b] = 0 /\ hash_node[b] = << >>
  <2>1. lists[b] = 0
    BY <1>1 DEF is_merge_dtb
  <2> QED
    BY <1>0, <1>1, <2>1 DEF EntriesHaveLists
<1>3. /\ short' \in BOOLEAN
      /\ \/ short' /\ UNCHANGED tables /\ returned' = [blob |-> b, status |-> "ERROR"]
         \/ \E newLists \in 0..HashLevels, nodes \in 0..Len(memory[b]) :
               /\ nodes # 0 => newLists = HashLevels
               /\ ~short' => ~short /\ newLists = HashLevels
               /\ lists' = [lists EXCEPT ![b] = newLists]
               /\ hash_node' = [hash_node EXCEPT ![b] = AddedHashNodes(b, nodes)]
               /\ phandle_cache' = RecordedPhandles(b, nodes,
                                       alloc_phandle_to_node_cache_space(b, size))
               /\ returned' = [blob |-> b, status |-> Status(b, nodes)]
  BY <1>0, BuiltParts
<1>4. CASE short' /\ UNCHANGED tables /\ returned' = [blob |-> b, status |-> "ERROR"]
  <2>1. lists' = lists /\ hash_node' = hash_node /\ phandle_cache' = phandle_cache
    BY <1>4 DEF tables
  <2>2. EntriesHaveLists'
    BY <1>0, <2>1 DEF EntriesHaveLists
  <2>3. TablesHoldNodes'
    <3>1. \A a \in Blobs \ stale' : a = b \/ a \in Blobs \ stale
      OBVIOUS
    <3> QED
      BY <1>0, <1>2, <2>1, <3>1 DEF TablesHoldNodes
  <2>4. CachesAreRight'
    BY <1>4, Zenon DEF CachesAreRight
  <2>5. SuccessMeansWholeTable'
    BY <1>4 DEF SuccessMeansWholeTable
  <2>6. returned' \in [blob : Blobs \cup {NULL}, status : {"NOERROR", "ERROR"}]
    BY <1>4
  <2> QED
    BY <1>1, <1>3, <2>1, <2>2, <2>3, <2>4, <2>5, <2>6, Zenon
<1>5. ASSUME NEW newLists \in 0..HashLevels, NEW nodes \in 0..Len(memory[b]),
             nodes # 0 => newLists = HashLevels,
             ~short' => ~short /\ newLists = HashLevels,
             lists' = [lists EXCEPT ![b] = newLists],
             hash_node' = [hash_node EXCEPT ![b] = AddedHashNodes(b, nodes)],
             phandle_cache' = RecordedPhandles(b, nodes,
                                  alloc_phandle_to_node_cache_space(b, size)),
             returned' = [blob |-> b, status |-> Status(b, nodes)]
      PROVE  /\ EntriesHaveLists' /\ TablesHoldNodes' /\ CachesAreRight'
             /\ SuccessMeansWholeTable'
             /\ lists' \in [Blobs -> 0..HashLevels] /\ hash_node' \in [Blobs -> Seq(Entry)]
             /\ phandle_cache' \in Seq(Cache)
             /\ returned' \in [blob : Blobs \cup {NULL}, status : {"NOERROR", "ERROR"}]
  <2> PICK added : added = AddedHashNodes(b, nodes)
    OBVIOUS
  <2>1. /\ added \in Seq(Entry) /\ Len(added) = nodes
        /\ nodes = 0 => added = << >>
        /\ \A i \in 1..nodes : added[i] = EntryOf(memory[b], i)
    BY <1>0, AddedAreEntries
  <2>2. /\ lists' \in [Blobs -> 0..HashLevels] /\ hash_node' \in [Blobs -> Seq(Entry)]
        /\ lists'[b] = newLists /\ hash_node'[b] = added
        /\ \A a \in Blobs : a # b => lists'[a] = lists[a] /\ hash_node'[a] = hash_node[a]
    BY <1>1, <1>5, <2>1
  <2>3. EntriesHaveLists'
    <3>1. ASSUME NEW a \in Blobs, lists'[a] # HashLevels PROVE hash_node'[a] = << >>
      <4>1. CASE a = b
        BY <1>5, <2>1, <2>2, <3>1, <4>1
      <4>2. CASE a # b
        BY <1>0, <2>2, <3>1, <4>2 DEF EntriesHaveLists
      <4> QED
        BY <4>1, <4>2
    <3> QED
      BY <3>1 DEF EntriesHaveLists
  <2>4. TablesHoldNodes'
    <3>1. ASSUME NEW a \in Blobs \ stale', NEW i \in 1..Len(hash_node'[a])
          PROVE  i <= Len(memory[a]) /\ hash_node'[a][i] = EntryOf(memory[a], i)
      <4>1. CASE a = b
        <5>1. i \in 1..nodes
          BY <2>1, <2>2, <4>1
        <5> QED
          BY <1>1, <2>1, <2>2, <4>1, <5>1
      <4>2. CASE a # b
        BY <1>0, <2>2, <3>1, <4>2 DEF TablesHoldNodes
      <4> QED
        BY <4>1, <4>2
    <3> QED
      BY <3>1 DEF TablesHoldNodes, EntryOf
  <2>5. CachesAreRight'
    <3>1. ASSUME ~short' PROVE \A i \in 1..Len(phandle_cache') : CacheIsRight(phandle_cache[i])'
      <4>1. ~short /\ newLists = HashLevels
        BY <1>5, <3>1, Zenon
      <4>2. lists' = [lists EXCEPT ![b] = HashLevels]
        BY <1>5, <4>1
      <4> QED
        BY <1>2, <1>5, <4>1, <4>2, RecordingKeepsCaches
    <3> QED
      BY <3>1, Zenon DEF CachesAreRight
  <2>6. /\ phandle_cache' \in Seq(Cache)
        /\ returned' \in [blob : Blobs \cup {NULL}, status : {"NOERROR", "ERROR"}]
    <3>1. size \in Nat
      BY <1>0, SizesAreRight
    <3>2. PICK caches : caches = alloc_phandle_to_node_cache_space(b, size)
      OBVIOUS
    <3>3. caches \in Seq(Cache)
      BY <1>0, <3>1, <3>2, AllocatedAreZeros
    <3>4. PICK new : new = RecordedPhandles(b, nodes, caches)
      OBVIOUS
    <3>5. new \in Seq(Cache)
      <4>1. IsRecorded(memory[b], caches, new)
        BY <1>1, <3>3, <3>4, RecordedAreRight
      <4> QED
        BY <4>1, Zenon DEF IsRecorded
    <3>6. phandle_cache' = new
      BY <1>5, <3>2, <3>4
    <3>7. Status(b, nodes) \in {"NOERROR", "ERROR"}
      BY DEF Status
    <3> QED
      BY <1>5, <3>5, <3>6, <3>7
  <2>7. SuccessMeansWholeTable'
    <3>1. ASSUME Status(b, nodes) = "NOERROR"
          PROVE  nodes = Len(memory[b]) /\ nodes # 0
      <4>1. nodes = Len(memory[b]) /\ memory[b] # Invalid
        BY <3>1 DEF Status
      <4> QED
        BY <1>1, <4>1, TreesAreTyped
    <3>2. returned'.blob = b /\ returned'.status = Status(b, nodes)
      BY <1>5
    <3>3. returned'.status = "NOERROR" => lists'[b] = HashLevels /\ Len(hash_node'[b]) = Len(memory[b])
      BY <1>5, <2>1, <2>2, <3>1, <3>2
    <3> QED
      BY <3>2, <3>3 DEF SuccessMeansWholeTable
  <2> QED
    BY <2>2, <2>3, <2>4, <2>5, <2>6, <2>7
<1> QED
  BY <1>3, <1>4, <1>5, Zenon

LEMMA ConfigIsTyped ==
    ASSUME TypeOK, NEW b \in Blobs
    PROVE  ReadConfig(b) \in Nat
<1>1. PICK i : i = fdt_get_node_handle(b, BootPath) + 1
  OBVIOUS
<1>2. memory[b] \in Trees /\ dtb_config \in Nat
  BY DEF TypeOK
<1>3. i \in 1..Len(memory[b]) => memory[b][i].config \in Nat
  BY <1>2, TreesAreTyped
<1>4. ReadConfig(b) = IF i \in 1..Len(memory[b]) /\ memory[b][i].config # 0
                      THEN memory[b][i].config ELSE dtb_config
  BY <1>1, Zenon DEF ReadConfig
<1> QED
  BY <1>2, <1>3, <1>4

(* fdt_set_blob_handle: the check and the table are apart; one may fail    *)
(* and the other not.                                                      *)
LEMMA SetKeepsInv ==
    ASSUME CacheInv, NEW b \in Blobs, NEW fits \in BOOLEAN, NEW id \in BlobIds,
           fdt_set_blob_handle(b, fits, id)
    PROVE  CacheInv'
<1>0. TypeOK
  BY DEF CacheInv
<1>1. memory' = memory /\ CreatDtbHashTable(b)
  BY Zenon DEF fdt_set_blob_handle
<1>2. dtb_config' \in Nat /\ dtb_blob' \in [BlobIds -> Blobs \cup {NULL}]
  <2>1. CASE dtb_config' = ReadConfig(b) /\ dtb_blob' = [dtb_blob EXCEPT ![id] = b]
    BY <1>0, <2>1, ConfigIsTyped DEF TypeOK
  <2>2. CASE UNCHANGED <<dtb_config, dtb_blob>>
    BY <1>0, <2>2 DEF TypeOK
  <2> QED
    BY <2>1, <2>2, Zenon DEF fdt_set_blob_handle
<1>3. /\ EntriesHaveLists' /\ TablesHoldNodes' /\ CachesAreRight'
      /\ SuccessMeansWholeTable'
      /\ lists' \in [Blobs -> 0..HashLevels] /\ hash_node' \in [Blobs -> Seq(Entry)]
      /\ phandle_cache' \in Seq(Cache) /\ short' \in BOOLEAN
      /\ returned' \in [blob : Blobs \cup {NULL}, status : {"NOERROR", "ERROR"}]
      /\ stale' \subseteq stale
  <2>1. CASE /\ is_merge_dtb(b) /\ free_tables
             /\ stale' = {} /\ short' = FALSE
             /\ returned' = [blob |-> b, status |-> "NOERROR"]
    BY <1>0, <2>1, FreeKeepsInv
  <2>2. CASE /\ ~is_merge_dtb(b)
             /\ \E size \in CacheSizes(b), room \in Rooms(b) : BuildTables(b, size, room)
             /\ stale' = stale \ {b}
    BY <1>1, <2>2, BuildKeepsInv
  <2> QED
    BY <1>1, <2>1, <2>2, Zenon DEF CreatDtbHashTable
<1>4. memory' \in [Blobs -> Trees] /\ stale' \subseteq Blobs
  BY <1>0, <1>1, <1>3 DEF TypeOK
<1>5. TypeOK'
  BY <1>2, <1>3, <1>4, Zenon DEF TypeOK
<1> QED
  BY <1>3, <1>5, Zenon DEF CacheInv

(* Other code writes over a blob, which is then of no more concern. *)
LEMMA ChangeKeepsInv ==
    ASSUME CacheInv, NEW b \in Blobs, Change(b)
    PROVE  CacheInv'
<1>0. TypeOK /\ EntriesHaveLists /\ TablesHoldNodes /\ CachesAreRight
      /\ SuccessMeansWholeTable
  BY DEF CacheInv
<1>1. /\ lists' = lists /\ hash_node' = hash_node /\ phandle_cache' = phandle_cache
      /\ dtb_blob' = dtb_blob /\ dtb_config' = dtb_config
      /\ short' = short /\ returned' = returned /\ stale' = stale \cup {b}
  BY Zenon DEF Change, tables
<1>2. /\ memory' \in [Blobs -> Trees]
      /\ \A a \in Blobs : a # b => memory'[a] = memory[a]
  BY <1>0 DEF Change, TypeOK
<1>3. TypeOK'
  <2>1. stale' \subseteq Blobs
    BY <1>0, <1>1 DEF TypeOK
  <2> QED
    BY <1>0, <1>1, <1>2, <2>1, Zenon DEF TypeOK, Entry, Cache
<1>4. EntriesHaveLists'
  BY <1>0, <1>1 DEF EntriesHaveLists
<1>5. \A a \in Blobs \ stale' : a \in Blobs \ stale /\ memory'[a] = memory[a]
  BY <1>1, <1>2
<1>6. TablesHoldNodes'
  BY <1>0, <1>1, <1>5 DEF TablesHoldNodes, EntryOf
<1>7. CachesAreRight'
  <2>1. ASSUME ~short, NEW i \in 1..Len(phandle_cache)
        PROVE  CacheIsRight(phandle_cache[i])'
    <3>1. CacheIsRight(phandle_cache[i])
      BY <1>0, <2>1 DEF CachesAreRight
    <3>2. phandle_cache \in Seq(Cache) /\ phandle_cache[i] \in Cache
      BY <1>0, <2>1 DEF TypeOK
    <3>3. phandle_cache[i].blob \in Blobs
      BY <3>2 DEF Cache
    <3> QED
      BY <1>1, <1>5, <3>1, <3>3 DEF CacheIsRight
  <2> QED
    BY <1>1, <2>1 DEF CachesAreRight
<1>8. SuccessMeansWholeTable'
  BY <1>0, <1>1, <1>5 DEF SuccessMeansWholeTable
<1> QED
  BY <1>3, <1>4, <1>6, <1>7, <1>8, Zenon DEF CacheInv

LEMMA NextKeepsInv == CacheInv /\ [Next]_vars => CacheInv'
<1>1. SUFFICES ASSUME CacheInv, [Next]_vars PROVE CacheInv'
  OBVIOUS
<1>2. ASSUME NEW b \in Blobs, NEW fits \in BOOLEAN, NEW id \in BlobIds,
             fdt_set_blob_handle(b, fits, id)
      PROVE  CacheInv'
  BY <1>1, <1>2, SetKeepsInv
<1>3. ASSUME NEW b \in Blobs, Change(b) PROVE CacheInv'
  BY <1>1, <1>3, ChangeKeepsInv
<1>4. CASE UNCHANGED vars
  BY <1>1, <1>4 DEF vars, tables, CacheInv, TypeOK, EntriesHaveLists, TablesHoldNodes,
                    CachesAreRight, CacheIsRight, SuccessMeansWholeTable, EntryOf
<1> QED
  BY <1>1, <1>2, <1>3, <1>4, Zenon DEF Next

LEMMA CacheInvHolds == Spec => []CacheInv
  BY InitIsSound, NextKeepsInv, PTL DEF Spec

----------------------------------------------------------------------------
(* Theorems *)

(* TypeOK of DtbCache: what fdt_set_blob_handle and the code that builds   *)
(* and frees the tables leave is typed; in particular every entry is on    *)
(* one of the levels the table has lists for.                              *)
THEOREM TypeCorrect == Spec => []TypeOK
<1>1. CacheInv => TypeOK
  BY DEF CacheInv
<1> QED
  BY <1>1, CacheInvHolds, PTL

(* The youngest entry that passes a test, or none *)
LEMMA LastFound ==
    ASSUME NEW s, Len(s) \in Nat, NEW S, S \subseteq 1..Len(s), S # {}
    PROVE  Max(S) \in S
<1>1. S \subseteq Nat /\ \A y \in S : y <= Len(s)
  OBVIOUS
<1> QED
  BY <1>1, LargestOf

(* fdt_set_blob_handle: with NOERROR the blob has a whole table or none,   *)
(* wherever the allocations of CreatDtbHashTable stopped succeeding.       *)
(* find_node: whatever was built, freed, left half built or written over   *)
(* before, an entry that answers for a path in a blob that did not change  *)
(* is of a node of the blob whose path has the hash asked for.  This is    *)
(* for any Hash, also one with collisions.                                 *)
THEOREM TablesStaySound == Spec => []TablesAreSound
<1>1. CacheInv => AnswersHaveTheHash
  <2>1. SUFFICES ASSUME CacheInv, NEW b \in Blobs \ stale, NEW path \in Queries,
                        find_node(b, path) + 1 # 0
                 PROVE  LET i == find_node(b, path) + 1
                        IN  /\ i \in 1..Len(memory[b])
                            /\ Hash[Spelled(memory[b][i].path)] = Hash[path]
    BY DEF AnswersHaveTheHash
  <2> DEFINE S == {i \in 1..Len(hash_node[b]) :
                      /\ hash_node[b][i].level = path_depth(path)
                      /\ hash_node[b][i].hash = Hash[path]}
             last == IF S # {} THEN Max(S) ELSE 0
  <2>2. find_node(b, path) = IF path_depth(path) >= lists[b] THEN NotFound
                             ELSE IF last = 0 THEN NotFound ELSE hash_node[b][last].offset
    BY Zenon DEF find_node, SelectLastInSeq
  <2>3. last # 0 /\ find_node(b, path) = hash_node[b][last].offset
    BY <2>1, <2>2, SMTT(60) DEF NotFound
  <2>4. last \in S
    <3>1. S # {} /\ last = Max(S)
      BY <2>3
    <3>2. Len(hash_node[b]) \in Nat /\ S \subseteq 1..Len(hash_node[b])
      BY <2>1 DEF CacheInv, TypeOK
    <3> HIDE DEF S
    <3> QED
      BY <3>1, <3>2, LastFound
  <2>5. /\ last \in 1..Len(hash_node[b]) /\ hash_node[b][last].hash = Hash[path]
    BY <2>4
  <2> HIDE DEF last
  <2>6. /\ last <= Len(memory[b])
        /\ hash_node[b][last] = EntryOf(memory[b], last)
    BY <2>1, <2>5 DEF CacheInv, TablesHoldNodes
  <2>7. /\ hash_node[b][last].offset = last - 1
        /\ hash_node[b][last].hash = Hash[Spelled(memory[b][last].path)]
    BY <2>6 DEF EntryOf
  <2>8. last \in Nat /\ last >= 1 /\ Len(memory[b]) \in Nat
    <3>1. memory[b] \in Trees /\ Len(hash_node[b]) \in Nat
      BY <2>1 DEF CacheInv, TypeOK
    <3> QED
      BY <2>5, <3>1, TreesAreTyped
  <2>9. find_node(b, path) + 1 = last /\ last \in 1..Len(memory[b])
    BY <2>3, <2>6, <2>7, <2>8
  <2> QED
    BY <2>5, <2>7, <2>9
<1>2. CacheInv => SuccessMeansWholeTable
  BY DEF CacheInv
<1> QED
  BY <1>1, <1>2, CacheInvHolds, PTL DEF TablesAreSound

(* fdt_get_phandle_node: as long as no table in use was built with too     *)
(* little memory, a phandle finds in a blob that did not change the node   *)
(* it finds without a cache: also though the phandles of one blob are      *)
(* recorded in whatever array is first in the list.                        *)
THEOREM PhandlesAreFound == Spec => []PhandlesAreRightIfBuilt
<1>1. CacheInv => PhandlesAreRightIfBuilt
  <2>1. SUFFICES ASSUME CacheInv, ~short, NEW b \in Blobs \ stale,
                        NEW phandle \in 0..(MaxPhandle + 1)
                 PROVE  fdt_get_phandle_node(b, phandle) =
                            fdt_node_offset_by_phandle(memory[b], phandle)
    BY DEF PhandlesAreRightIfBuilt, PhandlesAreRight
  <2>2. /\ phandle \in Nat /\ memory[b] \in Trees /\ phandle_cache \in Seq(Cache)
        /\ CachesAreRight
    BY <2>1, ConstantsAreTyped DEF CacheInv, TypeOK
  <2> DEFINE S == {i \in 1..Len(phandle_cache) :
                      phandle_cache[i].blob = b /\ phandle < Len(phandle_cache[i].array)}
             first == IF S # {} THEN Min(S) ELSE 0
             cached == IF first = 0 THEN 0 ELSE phandle_cache[first].array[phandle + 1]
  <2>3. fdt_get_phandle_node(b, phandle) =
            IF cached > 0 THEN cached ELSE fdt_node_offset_by_phandle(memory[b], phandle)
    BY Zenon DEF fdt_get_phandle_node, SelectInSeq
  <2>4. CASE ~(cached > 0)
    BY <2>3, <2>4
  <2>5. CASE cached > 0
    <3>1. S # {} /\ first = Min(S) /\ cached = phandle_cache[first].array[phandle + 1]
      BY <2>5
    <3>2. first \in S
      <4>1. S \subseteq Nat
        OBVIOUS
      <4> HIDE DEF S
      <4>2. PICK k \in S : \A j \in S : k <= j
        BY <3>1, <4>1, LeastOf
      <4>3. Min(S) = k
        <5>1. S \subseteq Int
          BY <4>1
        <5> QED
          BY <4>2, <5>1, MinIs
      <4> QED
        BY <3>1, <4>2, <4>3
    <3>3. /\ first \in 1..Len(phandle_cache) /\ phandle_cache[first].blob = b
          /\ phandle < Len(phandle_cache[first].array)
      BY <3>2
    <3> HIDE DEF first, S
    <3>4. phandle_cache[first] \in Cache
      BY <2>2, <3>3
    <3>5. phandle_cache[first].array \in Seq(Nat)
      BY <3>4 DEF Cache
    <3>6. phandle + 1 \in 1..Len(phandle_cache[first].array) /\ cached \in Nat
      BY <2>2, <3>1, <3>3, <3>5
    <3>7. Answers(memory[b], phandle + 1, cached)
      BY <2>1, <2>2, <3>1, <3>3, <3>6 DEF CachesAreRight, CacheIsRight
    <3> HIDE DEF cached
    <3>8. /\ cached # 0 /\ phandle # 0 /\ cached + 1 \in 1..Len(memory[b])
          /\ memory[b][cached + 1].phandle = phandle
      BY <2>2, <2>5, <3>6, <3>7 DEF Answers
    <3>9. \A i \in 1..Len(memory[b]) : memory[b][i].phandle = phandle => i = cached + 1
      BY <2>2, <3>8, TreesAreTyped
    <3> DEFINE found == {i \in 1..Len(memory[b]) :
                            phandle # 0 /\ memory[b][i].phandle = phandle}
    <3>10. found = {cached + 1}
      BY <3>8, <3>9
    <3>11. Min(found) = cached + 1 /\ found # {}
      <4> HIDE DEF found
      <4>1. found \subseteq Int /\ cached + 1 \in found /\ \A y \in found : cached + 1 <= y
        BY <3>6, <3>10
      <4> QED
        BY <4>1, MinIs
    <3>12. fdt_node_offset_by_phandle(memory[b], phandle) = Min(found) - 1
      <4>1. fdt_node_offset_by_phandle(memory[b], phandle) = FirstOf(found)
        BY Zenon DEF fdt_node_offset_by_phandle
      <4> QED
        BY <3>11, <4>1, Zenon DEF FirstOf
    <3> HIDE DEF found
    <3>13. fdt_node_offset_by_phandle(memory[b], phandle) = cached
      BY <3>6, <3>11, <3>12
    <3>14. fdt_get_phandle_node(b, phandle) = cached
      BY <2>3, <2>5
    <3> QED
      BY <3>13, <3>14
  <2> QED
    BY <2>4, <2>5
<1> QED
  BY <1>1, CacheInvHolds, PTL
=============================================================================
