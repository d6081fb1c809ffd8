--------------------------- MODULE NodePool_proofs ---------------------------
(***************************************************************************)
(* Proofs about libufdt's node pool, for any number of blocks of any size: *)
(* the lists stay sound, and the pool is the set NodeSet promises.         *)
(***************************************************************************)
EXTENDS NodePool, TLAPS, SequenceTheorems, FiniteSetTheorems

(* A list of blocks and the pointer to its end, as ListIsWhole has them *)
Whole(list, last) ==
    /\ list \in Seq(Blocks)
    /\ IsInjective(list)
    /\ last = IF list = << >> THEN Pool ELSE Last(list)

----------------------------------------------------------------------------
(* The operators on the list *)

(* A block that is put in front of a whole list *)
LEMMA Preppended ==
    ASSUME NEW list, NEW last, Whole(list, last),
           NEW block \in Blocks, block \notin Range(list),
           NEW new, NEW end, PreppendBlock(list, last, block) = <<new, end>>
    PROVE  /\ Whole(new, end)
           /\ Range(new) = Range(list) \cup {block}
           /\ new # << >> /\ Head(new) = block
           /\ Len(new) = Len(list) + 1
           /\ \A i \in 1..Len(list) : new[i + 1] = list[i]
<1>0. new = <<block>> \o list /\ end = IF list = << >> THEN block ELSE last
  BY DEF PreppendBlock
<1>1. /\ list \in Seq(Blocks) /\ <<block>> \in Seq(Blocks)
      /\ Len(list) \in Nat /\ DOMAIN list = 1..Len(list)
      /\ IsInjective(list)
  BY LenProperties DEF Whole
<1>2. /\ new \in Seq(Blocks) /\ Len(new) = 1 + Len(list)
      /\ DOMAIN new = 1..(1 + Len(list))
      /\ new[1] = block
      /\ \A i \in 1..Len(list) : new[i + 1] = list[i]
  BY <1>0, <1>1
<1>3. \A i \in DOMAIN new : \/ i = 1 /\ new[i] = block
                            \/ i - 1 \in DOMAIN list /\ new[i] = list[i - 1]
  BY <1>1, <1>2
<1>4. Range(new) = Range(list) \cup {block}
  <2>1. \A i \in DOMAIN list : list[i] = new[i + 1] /\ i + 1 \in DOMAIN new
    BY <1>1, <1>2
  <2>2. \A i \in DOMAIN new : new[i] = block \/ \E j \in DOMAIN list : new[i] = list[j]
    BY <1>3
  <2>3. 1 \in DOMAIN new /\ new[1] = block
    BY <1>1, <1>2
  <2> QED
    BY <2>1, <2>2, <2>3 DEF Range
<1>5. IsInjective(new)
  <2>1. \A i \in DOMAIN list : list[i] # block
    BY DEF Range
  <2>2. SUFFICES ASSUME NEW i \in DOMAIN new, NEW j \in DOMAIN new, new[i] = new[j]
                 PROVE  i = j
    BY DEF IsInjective
  <2>3. CASE i = 1 \/ j = 1
    BY <1>2, <1>3, <2>1, <2>2, <2>3
  <2>4. CASE i # 1 /\ j # 1
    <3>1. i - 1 \in DOMAIN list /\ j - 1 \in DOMAIN list /\ list[i - 1] = list[j - 1]
      BY <1>3, <2>2, <2>4
    <3>2. i - 1 = j - 1
      BY <1>1, <3>1 DEF IsInjective
    <3> QED
      BY <1>2, <3>2
  <2> QED
    BY <2>3, <2>4
<1>6. new # << >> /\ Head(new) = block
  BY <1>1, <1>2
<1>7. end = Last(new)
  <2>1. list = << >> => Len(list) = 0
    OBVIOUS
  <2>2. list # << >> => Len(list) \in Nat \ {0} /\ last = list[Len(list)]
    BY <1>1 DEF Whole, Last
  <2> QED
    BY <1>0, <1>1, <1>2, <2>1, <2>2 DEF Last
<1> QED
  BY <1>1, <1>2, <1>4, <1>5, <1>6, <1>7 DEF Whole

(* A block that is taken out of a whole list *)
LEMMA Removed ==
    ASSUME NEW list, NEW last, Whole(list, last), NEW i \in DOMAIN list,
           NEW new, NEW end, RemoveBlock(list, last, i) = <<new, end>>
    PROVE  /\ Whole(new, end)
           /\ Range(new) = Range(list) \ {list[i]}
           /\ Len(new) = Len(list) - 1
           /\ \A j \in 1..Len(new) : new[j] = IF j < i THEN list[j] ELSE list[j + 1]
<1>0. /\ new = SubSeq(list, 1, i - 1) \o SubSeq(list, i + 1, Len(list))
      /\ end = IF i = Len(list) THEN PointerTo(list, i) ELSE last
  BY DEF RemoveBlock, RemoveAt
<1>1. /\ list \in Seq(Blocks) /\ Len(list) \in Nat /\ DOMAIN list = 1..Len(list)
      /\ IsInjective(list) /\ i \in 1..Len(list) /\ last = list[Len(list)]
  BY LenProperties DEF Whole, Last
<1> DEFINE front == SubSeq(list, 1, i - 1)
           rear  == SubSeq(list, i + 1, Len(list))
<1>2. /\ front \in Seq(Blocks) /\ Len(front) = i - 1
      /\ \A j \in 1..(i - 1) : front[j] = list[j]
  BY <1>1
<1>3. /\ rear \in Seq(Blocks) /\ Len(rear) = Len(list) - i
      /\ \A j \in 1..(Len(list) - i) : rear[j] = list[i + j]
  BY <1>1
<1>4. new = front \o rear
  BY <1>0
<1> HIDE DEF front, rear
<1>5. /\ new \in Seq(Blocks) /\ Len(new) = Len(list) - 1
      /\ DOMAIN new = 1..(Len(list) - 1)
  <2>1. front \o rear \in Seq(Blocks) /\ Len(front \o rear) = Len(front) + Len(rear)
    BY <1>2, <1>3, ConcatProperties
  <2>2. Len(new) = Len(list) - 1
    BY <1>1, <1>2, <1>3, <1>4, <2>1
  <2> QED
    BY <1>4, <2>1, <2>2, LenProperties
<1>6. ASSUME NEW j \in DOMAIN new
      PROVE  /\ j < i => j \in DOMAIN list /\ new[j] = list[j]
             /\ ~(j < i) => j + 1 \in DOMAIN list /\ j + 1 # i /\ new[j] = list[j + 1]
  <2>0. j \in Int /\ 1 <= j /\ j <= Len(list) - 1
    BY <1>1, <1>5
  <2>1. new[j] = IF j <= Len(front) THEN front[j] ELSE rear[j - Len(front)]
    <3>1. \A k \in 1..(Len(front) + Len(rear)) :
             (front \o rear)[k] = IF k <= Len(front) THEN front[k] ELSE rear[k - Len(front)]
      BY <1>2, <1>3, ConcatProperties
    <3>2. j \in 1..(Len(front) + Len(rear))
      BY <1>1, <1>2, <1>3, <2>0
    <3> QED
      BY <1>4, <3>1, <3>2
  <2>2. CASE j < i
    BY <1>1, <1>2, <2>0, <2>1, <2>2
  <2>3. CASE ~(j < i)
    <3>1. j - (i - 1) \in 1..(Len(list) - i) /\ i + (j - (i - 1)) = j + 1
      BY <1>1, <2>0, <2>3
    <3>2. new[j] = rear[j - (i - 1)]
      BY <1>1, <1>2, <2>0, <2>1, <2>3
    <3>3. rear[j - (i - 1)] = list[j + 1]
      BY <1>3, <3>1
    <3> QED
      BY <1>1, <2>0, <2>3, <3>2, <3>3
  <2> QED
    BY <2>2, <2>3
<1>7. Range(new) = Range(list) \ {list[i]}
  <2>1. \A j \in DOMAIN new : \E k \in DOMAIN list : k # i /\ new[j] = list[k]
    BY <1>1, <1>5, <1>6
  <2>2. ASSUME NEW k \in DOMAIN list, k # i
        PROVE  \E j \in DOMAIN new : new[j] = list[k]
    <3>1. CASE k < i
      <4>1. k \in DOMAIN new
        BY <1>1, <1>5, <3>1
      <4> QED
        BY <1>6, <3>1, <4>1
    <3>2. CASE k > i
      <4>1. k - 1 \in DOMAIN new /\ ~(k - 1 < i) /\ (k - 1) + 1 = k
        BY <1>1, <1>5, <3>2
      <4>2. new[k - 1] = list[k]
        BY <1>6, <4>1
      <4> QED
        BY <4>1, <4>2
    <3> QED
      BY <1>1, <2>2, <3>1, <3>2
  <2>3. \A k \in DOMAIN list : k # i => list[k] # list[i]
    BY <1>1 DEF IsInjective
  <2> QED
    BY <2>1, <2>2, <2>3 DEF Range
<1>8. IsInjective(new)
  <2>1. SUFFICES ASSUME NEW a \in DOMAIN new, NEW b \in DOMAIN new, new[a] = new[b]
                 PROVE  a = b
    BY DEF IsInjective
  <2>2. PICK c \in DOMAIN list : new[a] = list[c] /\ c = IF a < i THEN a ELSE a + 1
    BY <1>6
  <2>3. PICK d \in DOMAIN list : new[b] = list[d] /\ d = IF b < i THEN b ELSE b + 1
    BY <1>6
  <2>4. c = d
    BY <1>1, <2>1, <2>2, <2>3 DEF IsInjective
  <2> QED
    BY <1>1, <1>5, <2>2, <2>3, <2>4
<1>9. end = IF new = << >> THEN Pool ELSE Last(new)
  <2>1. new = << >> <=> Len(new) = 0
    BY <1>5, EmptySeq
  <2>2. CASE Len(list) = 1
    BY <1>0, <1>1, <1>5, <2>1, <2>2 DEF PointerTo
  <2>3. CASE Len(list) # 1
    <3>1. Len(list) - 1 \in DOMAIN new /\ Last(new) = new[Len(list) - 1] /\ new # << >>
      BY <1>1, <1>5, <2>1, <2>3 DEF Last
    <3>2. CASE i = Len(list)
      BY <1>0, <1>1, <1>6, <2>3, <3>1, <3>2 DEF PointerTo
    <3>3. CASE i # Len(list)
      <4>1. ~(Len(list) - 1 < i) /\ (Len(list) - 1) + 1 = Len(list)
        BY <1>1, <3>3
      <4>2. new[Len(list) - 1] = list[Len(list)]
        BY <1>6, <3>1, <4>1
      <4> QED
        BY <1>0, <1>1, <3>1, <3>3, <4>2
    <3> QED
      BY <3>2, <3>3
  <2> QED
    BY <2>2, <2>3
<1>10. \A j \in 1..Len(new) : new[j] = IF j < i THEN list[j] ELSE list[j + 1]
  BY <1>5, <1>6
<1> QED
  BY <1>5, <1>7, <1>8, <1>9, <1>10 DEF Whole

(* The end of a whole list is in one place of it. *)
LEMMA EndOfList ==
    ASSUME NEW list, NEW last, Whole(list, last), list # << >>
    PROVE  /\ Len(list) \in DOMAIN list /\ last \in Range(list) /\ last # Pool
           /\ (CHOOSE i \in DOMAIN list : list[i] = last) = Len(list)
<1>1. /\ list \in Seq(Blocks) /\ Len(list) \in Nat \ {0} /\ DOMAIN list = 1..Len(list)
      /\ IsInjective(list) /\ last = list[Len(list)]
  BY LenProperties, EmptySeq DEF Whole, Last
<1>2. Len(list) \in DOMAIN list
  BY <1>1
<1>3. \A i \in DOMAIN list : list[i] = last <=> i = Len(list)
  BY <1>1, <1>2 DEF IsInjective
<1>4. last \in Blocks /\ last # Pool
  BY <1>1, <1>2, ConstantsAreTyped DEF Pool
<1> QED
  BY <1>1, <1>2, <1>3, <1>4 DEF Range

(* A block that is put behind a whole list *)
LEMMA Appended ==
    ASSUME NEW list, NEW last, Whole(list, last),
           NEW block \in Blocks, block \notin Range(list),
           NEW new, NEW end, AppendBlock(list, last, block) = <<new, end>>
    PROVE  /\ Whole(new, end)
           /\ Range(new) = Range(list) \cup {block}
           /\ Len(new) = Len(list) + 1 /\ new[Len(list) + 1] = block
           /\ \A j \in 1..Len(list) : new[j] = list[j]
<1>1. /\ list \in Seq(Blocks) /\ Len(list) \in Nat /\ DOMAIN list = 1..Len(list)
      /\ IsInjective(list)
  BY LenProperties DEF Whole
<1>2. new = Append(list, block) /\ end = block
  <2>1. CASE list = << >>
    <3>1. last = Pool
      BY <2>1 DEF Whole
    <3>2. new = <<block>> /\ end = block
      BY <3>1 DEF AppendBlock
    <3> QED
      BY <2>1, <3>2
  <2>2. CASE list # << >>
    <3>0. /\ last # Pool /\ last \in Range(list)
          /\ (CHOOSE i \in DOMAIN list : list[i] = last) = Len(list)
      BY <2>2, EndOfList, Zenon
    <3>1. AppendBlock(list, last, block) = <<Append(SubSeq(list, 1, Len(list)), block), block>>
      BY <3>0, Zenon DEF AppendBlock
    <3>2. SubSeq(list, 1, Len(list)) = list
      BY <1>1, SubSeqFull
    <3> QED
      BY <3>1, <3>2
  <2> QED
    BY <2>1, <2>2
<1>3. /\ new \in Seq(Blocks) /\ Len(new) = Len(list) + 1 /\ DOMAIN new = 1..(Len(list) + 1)
      /\ new[Len(list) + 1] = block /\ new # << >>
      /\ \A j \in 1..Len(list) : new[j] = list[j]
  BY <1>1, <1>2, AppendProperties, LenProperties
<1>4. \A i \in DOMAIN new : \/ i = Len(list) + 1 /\ new[i] = block
                            \/ i \in DOMAIN list /\ new[i] = list[i]
  BY <1>1, <1>3
<1>5. Range(new) = Range(list) \cup {block}
  <2>1. DOMAIN list \subseteq DOMAIN new /\ Len(list) + 1 \in DOMAIN new
    BY <1>1, <1>3
  <2> QED
    BY <1>1, <1>3, <1>4, <2>1 DEF Range
<1>6. IsInjective(new)
  <2>1. \A i \in DOMAIN list : list[i] # block
    BY DEF Range
  <2> QED
    BY <1>1, <1>4, <2>1 DEF IsInjective
<1> QED
  BY <1>2, <1>3, <1>5, <1>6 DEF Whole, Last

(* A full block goes from the front of a whole list to its end; the        *)
(* pointer to the end is never mistaken for one to the front.              *)
LEMMA Moved ==
    ASSUME NEW list, NEW last, Whole(list, last), list # << >>,
           NEW is_full \in BOOLEAN,
           NEW new, NEW end, MovedIfFull(list, last, is_full) = <<new, end>>
    PROVE  /\ Whole(new, end)
           /\ Range(new) = Range(list)
           /\ Len(new) = Len(list)
           /\ ~is_full => new = list
           /\ is_full => /\ new[Len(list)] = list[1]
                         /\ \A j \in 1..(Len(list) - 1) : new[j] = list[j + 1]
<1>1. /\ list \in Seq(Blocks) /\ Len(list) \in Nat \ {0} /\ DOMAIN list = 1..Len(list)
      /\ Head(list) = list[1] /\ 1 \in DOMAIN list
  BY LenProperties, EmptySeq DEF Whole
<1>2. CASE ~is_full
  BY <1>2 DEF MovedIfFull
<1>3. CASE is_full
  <2>1. Deref(list, last) = NULL
    <3>1. 1 + Len(list) \notin DOMAIN list
      BY <1>1
    <3>2. last # Pool /\ (CHOOSE i \in DOMAIN list : list[i] = last) = Len(list)
      BY EndOfList, Zenon
    <3> QED
      BY <3>1, <3>2, Zenon DEF Deref
  <2>2. Head(list) \in Blocks /\ Deref(list, last) # Head(list)
    BY <1>1, <2>1, ConstantsAreTyped
  <2>3. PICK rest, rear : RemoveBlock(list, last, 1) = <<rest, rear>>
    BY DEF RemoveBlock
  <2>4. AppendBlock(rest, rear, Head(list)) = <<new, end>>
    <3>1. RemoveBlock(list, last, 1)[1] = rest /\ RemoveBlock(list, last, 1)[2] = rear
      BY <2>3
    <3>2. MovedIfFull(list, last, is_full)
             = AppendBlock(RemoveBlock(list, last, 1)[1], RemoveBlock(list, last, 1)[2], Head(list))
      BY <1>3, <2>2, Zenon DEF MovedIfFull
    <3> QED
      BY <3>1, <3>2, Zenon
  <2>5. /\ Whole(rest, rear) /\ Range(rest) = Range(list) \ {list[1]}
        /\ Len(rest) = Len(list) - 1
        /\ \A j \in 1..Len(rest) : rest[j] = list[j + 1]
    <3>1. PICK i \in DOMAIN list : i = 1
      BY <1>1
    <3>2. RemoveBlock(list, last, i) = <<rest, rear>>
      BY <2>3, <3>1, Zenon
    <3>3. /\ Whole(rest, rear) /\ Range(rest) = Range(list) \ {list[i]}
          /\ Len(rest) = Len(list) - 1
          /\ \A j \in 1..Len(rest) : rest[j] = IF j < i THEN list[j] ELSE list[j + 1]
      BY <3>2, Removed
    <3> QED
      BY <1>1, <3>1, <3>3, SMTT(60)
  <2>6. /\ Whole(new, end) /\ Range(new) = Range(rest) \cup {Head(list)}
        /\ Len(new) = Len(rest) + 1 /\ new[Len(rest) + 1] = Head(list)
        /\ \A j \in 1..Len(rest) : new[j] = rest[j]
    BY <1>1, <2>2, <2>4, <2>5, Appended, SMTT(60)
  <2>7. Len(rest) + 1 = Len(list)
    BY <1>1, <2>5
  <2>8. list[1] \in Range(list)
    BY <1>1 DEF Range
  <2>9. \A j \in 1..(Len(list) - 1) : new[j] = list[j + 1]
    BY <1>1, <2>5, <2>6
  <2> QED
    BY <1>1, <1>3, <2>5, <2>6, <2>7, <2>8, <2>9
<1> QED
  BY <1>2, <1>3

----------------------------------------------------------------------------
(* The free entries of a block *)

EntriesOf(b) == {b} \X (1..ENTRIES_PER_BLOCK)
HandedOut(ns, b) == {n \in ns : n[1] = b}

(* What HandedOutOnce says of one block, whose free entries are given *)
Kept(b, entries, ns, count) ==
    /\ IsInjective(entries)
    /\ Range(entries) = EntriesOf(b) \ HandedOut(ns, b)
    /\ count = Cardinality(HandedOut(ns, b))

(* The nodes of one block are finitely many, and entries of it. *)
LEMMA NodesOfBlock ==
    ASSUME NEW ns, ns \subseteq Entries, NEW b
    PROVE  /\ HandedOut(ns, b) \subseteq EntriesOf(b)
           /\ IsFiniteSet(HandedOut(ns, b))
           /\ Cardinality(HandedOut(ns, b)) \in Nat
<1>1. HandedOut(ns, b) \subseteq EntriesOf(b)
  BY DEF HandedOut, EntriesOf, Entries
<1>2. IsFiniteSet({b}) /\ IsFiniteSet(1..ENTRIES_PER_BLOCK)
  <2>1. IsFiniteSet({b})
    BY FS_Singleton, Zenon
  <2>2. 1 \in Int /\ ENTRIES_PER_BLOCK \in Int
    BY ConstantsAreTyped
  <2> QED
    BY <2>1, <2>2, FS_Interval
<1>3. IsFiniteSet(EntriesOf(b))
  BY <1>2, FS_Product DEF EntriesOf
<1>4. IsFiniteSet(HandedOut(ns, b))
  BY <1>1, <1>3, FS_Subset
<1> QED
  BY <1>1, <1>4, FS_CardinalityType

(* The first of a list without repetitions is not in the rest of it. *)
LEMMA HeadTaken ==
    ASSUME NEW S, NEW list \in Seq(S), list # << >>, IsInjective(list)
    PROVE  /\ Head(list) \in Range(list)
           /\ Tail(list) \in Seq(S) /\ IsInjective(Tail(list))
           /\ Range(Tail(list)) = Range(list) \ {Head(list)}
<1>1. /\ Len(list) \in Nat \ {0} /\ DOMAIN list = 1..Len(list)
      /\ Head(list) = list[1] /\ 1 \in DOMAIN list
  BY LenProperties, EmptySeq
<1>2. /\ Tail(list) \in Seq(S) /\ Len(Tail(list)) = Len(list) - 1
      /\ DOMAIN Tail(list) = 1..(Len(list) - 1)
      /\ \A i \in 1..(Len(list) - 1) : Tail(list)[i] = list[i + 1]
  BY <1>1, HeadTailProperties, LenProperties
<1> DEFINE rest == Tail(list)
<1> HIDE DEF rest
<1>3. \A i \in DOMAIN rest : i + 1 \in DOMAIN list /\ i + 1 # 1 /\ rest[i] = list[i + 1]
  BY <1>1, <1>2 DEF rest
<1>4. \A j \in DOMAIN list : j # 1 => j - 1 \in DOMAIN rest /\ rest[j - 1] = list[j]
  BY <1>1, <1>2 DEF rest
<1>5. IsInjective(rest)
  <2>1. SUFFICES ASSUME NEW i \in DOMAIN rest, NEW j \in DOMAIN rest, rest[i] = rest[j]
                 PROVE  i = j
    BY DEF IsInjective
  <2>2. i \in Int /\ j \in Int
    BY <1>1, <1>2 DEF rest
  <2>3. i + 1 = j + 1
    BY <1>3, <2>1 DEF IsInjective
  <2> QED
    BY <2>2, <2>3
<1>6. Range(rest) = Range(list) \ {list[1]}
  <2>1. \A j \in DOMAIN list : j # 1 => list[j] # list[1]
    BY <1>1 DEF IsInjective
  <2>2. Range(rest) \subseteq Range(list) \ {list[1]}
    BY <1>3, <2>1 DEF Range
  <2>3. Range(list) \ {list[1]} \subseteq Range(rest)
    BY <1>4 DEF Range
  <2> QED
    BY <2>2, <2>3
<1>7. Head(list) \in Range(list)
  BY <1>1 DEF Range
<1> QED
  BY <1>1, <1>2, <1>5, <1>6, <1>7 DEF rest

(* An allocation takes an entry of the block that no client has. *)
LEMMA EntryTaken ==
    ASSUME NEW b, NEW entries \in Seq(Entries), entries # << >>,
           NEW ns, ns \subseteq Entries, NEW count, Kept(b, entries, ns, count)
    PROVE  /\ Head(entries) \in EntriesOf(b) /\ Head(entries) \notin ns
           /\ Tail(entries) \in Seq(Entries)
           /\ Kept(b, Tail(entries), ns \cup {Head(entries)}, count + 1)
<1> DEFINE node == Head(entries)
<1>1. /\ node \in Range(entries) /\ Tail(entries) \in Seq(Entries) /\ IsInjective(Tail(entries))
      /\ Range(Tail(entries)) = Range(entries) \ {node}
  BY HeadTaken DEF Kept
<1> HIDE DEF node
<1>2. node \in EntriesOf(b) /\ node \notin HandedOut(ns, b)
  BY <1>1 DEF Kept
<1>3. node[1] = b
  BY <1>2 DEF EntriesOf
<1>4. node \notin ns
  BY <1>2, <1>3 DEF HandedOut
<1>5. HandedOut(ns \cup {node}, b) = HandedOut(ns, b) \cup {node}
  BY <1>3 DEF HandedOut
<1>6. Cardinality(HandedOut(ns \cup {node}, b)) = Cardinality(HandedOut(ns, b)) + 1
  BY <1>2, <1>5, NodesOfBlock, FS_AddElement
<1>7. Range(Tail(entries)) = EntriesOf(b) \ HandedOut(ns \cup {node}, b)
  BY <1>1, <1>5 DEF Kept
<1>8. Kept(b, Tail(entries), ns \cup {node}, count + 1)
  BY <1>1, <1>6, <1>7 DEF Kept
<1> QED
  BY <1>1, <1>2, <1>4, <1>8 DEF node

(* What a client returns is put in front of the block's free entries. *)
LEMMA EntryReturned ==
    ASSUME NEW b, NEW entries \in Seq(Entries),
           NEW ns, ns \subseteq Entries, NEW count, Kept(b, entries, ns, count),
           NEW node \in ns, node[1] = b
    PROVE  /\ <<node>> \o entries \in Seq(Entries) /\ <<node>> \o entries # << >>
           /\ Kept(b, <<node>> \o entries, ns \ {node}, count - 1)
<1>1. node \in HandedOut(ns, b) /\ node \in EntriesOf(b)
  BY NodesOfBlock DEF HandedOut
<1>2. node \notin Range(entries) /\ IsInjective(entries)
  BY <1>1 DEF Kept
<1> DEFINE new == <<node>> \o entries
<1>3. /\ Len(entries) \in Nat /\ DOMAIN entries = 1..Len(entries)
      /\ new \in Seq(Entries) /\ Len(new) = Len(entries) + 1
      /\ DOMAIN new = 1..(Len(entries) + 1) /\ new[1] = node
      /\ \A i \in 1..Len(entries) : new[i + 1] = entries[i]
  BY LenProperties
<1>4. new # << >>
  BY <1>3
<1> HIDE DEF new
<1>5. \A i \in DOMAIN new : \/ i = 1 /\ new[i] = node
                            \/ i - 1 \in DOMAIN entries /\ new[i] = entries[i - 1]
  BY <1>3
<1>6. \A i \in DOMAIN entries : entries[i] = new[i + 1] /\ i + 1 \in DOMAIN new
  BY <1>3
<1>7. Range(new) = Range(entries) \cup {node}
  <2>1. 1 \in DOMAIN new
    BY <1>3
  <2> QED
    BY <1>3, <1>5, <1>6, <2>1 DEF Range
<1>8. IsInjective(new)
  <2>1. \A i \in DOMAIN entries : entries[i] # node
    BY <1>2 DEF Range
  <2>2. SUFFICES ASSUME NEW i \in DOMAIN new, NEW j \in DOMAIN new, new[i] = new[j]
                 PROVE  i = j
    BY DEF IsInjective
  <2>3. i \in Int /\ j \in Int
    BY <1>3
  <2>4. CASE i = 1 \/ j = 1
    BY <1>3, <1>5, <2>1, <2>2, <2>4
  <2>5. CASE i # 1 /\ j # 1
    <3>1. i - 1 = j - 1
      BY <1>2, <1>5, <2>2, <2>5 DEF IsInjective
    <3> QED
      BY <2>3, <3>1
  <2> QED
    BY <2>4, <2>5
<1>9. HandedOut(ns \ {node}, b) = HandedOut(ns, b) \ {node}
  BY DEF HandedOut
<1>10. Cardinality(HandedOut(ns \ {node}, b)) = Cardinality(HandedOut(ns, b)) - 1
  <2>1. IsFiniteSet(HandedOut(ns, b))
    BY NodesOfBlock
  <2>2. Cardinality(HandedOut(ns, b) \ {node}) = Cardinality(HandedOut(ns, b)) - 1
    BY <1>1, <2>1, FS_RemoveElement
  <2> QED
    BY <1>9, <2>2
<1>11. Range(new) = EntriesOf(b) \ HandedOut(ns \ {node}, b)
  BY <1>1, <1>7, <1>9 DEF Kept
<1>12. Kept(b, new, ns \ {node}, count - 1)
  BY <1>8, <1>10, <1>11 DEF Kept
<1> QED
  BY <1>3, <1>4, <1>12 DEF new

(* A new block has all its entries free. *)
LEMMA BlockCreated ==
    ASSUME NEW b \in Blocks, NEW ns, ns \subseteq Entries, \A n \in ns : n[1] # b
    PROVE  /\ CreateBlock(b) \in Seq(Entries) /\ CreateBlock(b) # << >>
           /\ Kept(b, CreateBlock(b), ns, 0)
<1>1. ENTRIES_PER_BLOCK \in Nat \ {0}
  BY ConstantsAreTyped
<1>2. /\ CreateBlock(b) \in [1..ENTRIES_PER_BLOCK -> Entries]
      /\ DOMAIN CreateBlock(b) = 1..ENTRIES_PER_BLOCK
      /\ \A i \in 1..ENTRIES_PER_BLOCK : CreateBlock(b)[i] = <<b, i>>
  BY DEF CreateBlock, Entries
<1>3. CreateBlock(b) \in Seq(Entries)
  BY <1>1, <1>2, SeqDef
<1>4. CreateBlock(b) # << >>
  <2>1. 1 \in DOMAIN CreateBlock(b)
    BY <1>1, <1>2
  <2> QED
    BY <2>1
<1>5. HandedOut(ns, b) = {}
  BY DEF HandedOut
<1>6. IsInjective(CreateBlock(b))
  BY <1>2 DEF IsInjective
<1>7. Range(CreateBlock(b)) = EntriesOf(b)
  <2>1. \A e \in EntriesOf(b) : e[2] \in 1..ENTRIES_PER_BLOCK /\ e = CreateBlock(b)[e[2]]
    BY <1>2 DEF EntriesOf
  <2>2. \A i \in 1..ENTRIES_PER_BLOCK : CreateBlock(b)[i] \in EntriesOf(b)
    <3>1. \A i \in 1..ENTRIES_PER_BLOCK : <<b, i>> \in EntriesOf(b)
      BY DEF EntriesOf
    <3>2. \A i \in 1..ENTRIES_PER_BLOCK : CreateBlock(b)[i] = <<b, i>>
      BY <1>2
    <3> QED
      BY <3>1, <3>2, Zenon
  <2>3. DOMAIN CreateBlock(b) = 1..ENTRIES_PER_BLOCK
    BY <1>2
  <2>4. EntriesOf(b) \subseteq Range(CreateBlock(b))
    BY <2>1, <2>3, Zenon DEF Range
  <2>5. Range(CreateBlock(b)) \subseteq EntriesOf(b)
    BY <2>2, <2>3, Zenon DEF Range
  <2> QED
    BY <2>4, <2>5
<1> QED
  BY <1>3, <1>4, <1>5, <1>6, <1>7, FS_EmptySet DEF Kept

----------------------------------------------------------------------------
(* The inductive invariant: the types and all of ListIsSound.  No part of  *)
(* ListIsSound is kept without the others: what is appended goes behind    *)
(* the list because its end is known, no entry of a new block is in use    *)
(* because every node is in a block of the pool, and one block alone is to *)
(* spare because a first block without free entries says that all are full.*)
PoolInv == TypeOK /\ ListIsSound

(* The invariant in the terms of the lemmas *)
LEMMA InvParts ==
    ASSUME PoolInv
    PROVE  /\ Whole(blocks, last_block_ptr)
           /\ Range(blocks) = heap
           /\ \A b \in heap : Kept(b, free_entries[b], nodes, alloc_entry_cnt[b])
<1>1. Whole(blocks, last_block_ptr) /\ Range(blocks) = heap
  BY DEF PoolInv, TypeOK, ListIsSound, ListIsWhole, Whole
<1>2. \A b \in heap : Kept(b, free_entries[b], nodes, alloc_entry_cnt[b])
  BY Zenon DEF PoolInv, ListIsSound, HandedOutOnce, Kept, HandedOut, EntriesOf
<1> QED
  BY <1>1, <1>2

LEMMA PartsMakeInv ==
    ASSUME TypeOK', Whole(blocks', last_block_ptr'), Range(blocks') = heap',
           FreeInFront', NodesAreInBlocks', OneSpareBlock',
           \A b \in heap' : Kept(b, free_entries'[b], nodes', alloc_entry_cnt'[b])
    PROVE  PoolInv'
<1>1. ListIsWhole'
  BY DEF ListIsWhole, Whole
<1>2. HandedOutOnce'
  BY Zenon DEF HandedOutOnce, Kept, HandedOut, EntriesOf
<1> QED
  BY <1>1, <1>2 DEF PoolInv, ListIsSound

(* An allocation from the first block of a list, the others of which are   *)
(* in order: the list has the same blocks, and is in order.                *)
LEMMA AllocKeepsOrder ==
    ASSUME NEW list, NEW last, Whole(list, last), list # << >>,
           NEW entries \in Seq(Entries), entries # << >>,
           free_entries \in [Blocks -> Seq(Entries)],
           \A i, j \in DOMAIN list :
              /\ 1 < i /\ i < j /\ free_entries[list[j]] # << >>
              => free_entries[list[i]] # << >>,
           Alloc(list, last, entries)
    PROVE  Whole(blocks', last_block_ptr') /\ Range(blocks') = Range(list) /\ FreeInFront'
<1> DEFINE is_full == Tail(entries) = << >>
           block   == Head(list)
<1>1. /\ list \in Seq(Blocks) /\ Len(list) \in Nat \ {0} /\ DOMAIN list = 1..Len(list)
      /\ IsInjective(list) /\ 1 \in DOMAIN list /\ block = list[1] /\ block \in Blocks
  BY LenProperties, EmptySeq DEF Whole
<1>2. free_entries' = [free_entries EXCEPT ![block] = Tail(entries)]
  BY DEF Alloc
<1>3. MovedIfFull(list, last, is_full) = <<blocks', last_block_ptr'>>
  <2>1. PICK new, end : MovedIfFull(list, last, is_full) = <<new, end>>
    BY DEF MovedIfFull, AppendBlock
  <2>2. SetList(MovedIfFull(list, last, is_full))
    BY Zenon DEF Alloc
  <2> QED
    BY <2>1, <2>2 DEF SetList
<1> HIDE DEF is_full, block
<1>4. is_full \in BOOLEAN
  BY DEF is_full
<1>5. /\ Whole(blocks', last_block_ptr') /\ Range(blocks') = Range(list)
      /\ Len(blocks') = Len(list)
      /\ ~is_full => blocks' = list
      /\ is_full => /\ blocks'[Len(list)] = list[1]
                    /\ \A j \in 1..(Len(list) - 1) : blocks'[j] = list[j + 1]
  BY <1>3, <1>4, Moved
<1>6. DOMAIN blocks' = 1..Len(list)
  BY <1>5, LenProperties DEF Whole
<1>7. \A i \in DOMAIN list : i # 1 => free_entries'[list[i]] = free_entries[list[i]]
  <2>1. \A i \in DOMAIN list : i # 1 => list[i] # block /\ list[i] \in Blocks
    BY <1>1 DEF IsInjective
  <2> QED
    BY <1>2, <2>1
<1>8. free_entries'[list[1]] = Tail(entries)
  BY <1>1, <1>2
<1>9. FreeInFront'
  <2>1. SUFFICES ASSUME NEW i \in DOMAIN blocks', NEW j \in DOMAIN blocks',
                        i < j, free_entries'[blocks'[j]] # << >>
                 PROVE  free_entries'[blocks'[i]] # << >>
    BY Zenon DEF FreeInFront
  <2>2. i \in Int /\ j \in Int /\ 1 <= i /\ j <= Len(list)
    BY <1>1, <1>6
  <2>3. CASE is_full
    <3>1. j # Len(list)
      BY <1>5, <1>8, <2>1, <2>3 DEF is_full
    <3>2. /\ i + 1 \in DOMAIN list /\ j + 1 \in DOMAIN list
          /\ blocks'[i] = list[i + 1] /\ blocks'[j] = list[j + 1]
      BY <1>1, <1>5, <2>1, <2>2, <2>3, <3>1, SMTT(60)
    <3>3. 1 < i + 1 /\ i + 1 < j + 1
      BY <2>1, <2>2
    <3>4. free_entries[list[j + 1]] # << >>
      BY <1>7, <2>1, <3>2, <3>3, <2>2
    <3>5. free_entries[list[i + 1]] # << >>
      BY <3>2, <3>3, <3>4
    <3> QED
      BY <1>7, <3>2, <3>3, <3>5, <2>2
  <2>4. CASE ~is_full
    <3>1. blocks' = list
      BY <1>5, <2>4
    <3>2. CASE i = 1
      BY <1>8, <2>4, <3>1, <3>2 DEF is_full
    <3>3. CASE i # 1
      <4>1. 1 < i /\ j # 1 /\ i \in DOMAIN list /\ j \in DOMAIN list
        BY <2>1, <2>2, <3>1, <3>3
      <4>2. free_entries[list[j]] # << >>
        BY <1>7, <2>1, <3>1, <4>1
      <4>3. free_entries[list[i]] # << >>
        BY <2>1, <4>1, <4>2
      <4> QED
        BY <1>7, <3>1, <3>3, <4>1, <4>3
    <3> QED
      BY <3>2, <3>3
  <2> QED
    BY <2>3, <2>4
<1> QED
  BY <1>5, <1>9

LEMMA AllocFromFirstKeepsInv ==
    ASSUME PoolInv, AllocFromFirst
    PROVE  PoolInv' /\ \E n \in Entries \ nodes : nodes' = nodes \cup {n}
<1> DEFINE b == Head(blocks)
           entries == free_entries[b]
           node == Head(entries)
<1>1. Whole(blocks, last_block_ptr) /\ Range(blocks) = heap /\ TypeOK
  BY InvParts DEF PoolInv
<1>2. /\ blocks # << >> /\ entries # << >> /\ Alloc(blocks, last_block_ptr, entries)
      /\ alloc_entry_cnt' = [alloc_entry_cnt EXCEPT ![b] = @ + 1]
      /\ UNCHANGED <<heap, leak_reported>>
  BY DEF AllocFromFirst, FirstHasRoom
<1>3. b \in Blocks /\ b \in heap
  <2>1. /\ blocks \in Seq(Blocks) /\ 1 \in DOMAIN blocks /\ b = blocks[1]
    BY <1>1, <1>2, LenProperties, EmptySeq DEF Whole
  <2> QED
    BY <1>1, <2>1 DEF Range
<1>4. entries \in Seq(Entries) /\ Kept(b, entries, nodes, alloc_entry_cnt[b])
  BY <1>1, <1>3, InvParts DEF TypeOK
<1>5. free_entries' = [free_entries EXCEPT ![b] = Tail(entries)] /\ nodes' = nodes \cup {node}
  BY <1>2 DEF Alloc
<1> HIDE DEF b, entries
<1>6. /\ node \in EntriesOf(b) /\ node \notin nodes
      /\ Tail(entries) \in Seq(Entries)
      /\ Kept(b, Tail(entries), nodes', alloc_entry_cnt[b] + 1)
  BY <1>1, <1>2, <1>4, <1>5, EntryTaken DEF TypeOK
<1>7. Whole(blocks', last_block_ptr') /\ Range(blocks') = Range(blocks) /\ FreeInFront'
  <2>1. \A i, j \in DOMAIN blocks :
           /\ 1 < i /\ i < j /\ free_entries[blocks[j]] # << >>
           => free_entries[blocks[i]] # << >>
    BY Zenon DEF PoolInv, ListIsSound, FreeInFront
  <2>2. free_entries \in [Blocks -> Seq(Entries)]
    BY <1>1 DEF TypeOK
  <2> QED
    BY <1>1, <1>2, <1>4, <2>1, <2>2, AllocKeepsOrder
<1>8. node[1] = b /\ node \in Entries
  BY <1>3, <1>6 DEF EntriesOf, Entries
<1>9. TypeOK'
  <2>1. blocks' \in Seq(Blocks) /\ last_block_ptr' \in Blocks \cup {Pool}
    <3>1. blocks' # << >> => last_block_ptr' \in Range(blocks')
      BY <1>7, EndOfList
    <3>2. Range(blocks') \subseteq Blocks
      BY <1>1, <1>7 DEF TypeOK
    <3> QED
      BY <1>7, <3>1, <3>2 DEF Whole
  <2>2. free_entries' \in [Blocks -> Seq(Entries)] /\ alloc_entry_cnt' \in [Blocks -> Int]
    BY <1>1, <1>2, <1>3, <1>5, <1>6 DEF TypeOK
  <2> QED
    BY <1>1, <1>2, <1>5, <1>8, <2>1, <2>2 DEF TypeOK
<1>10. \A c \in heap' : Kept(c, free_entries'[c], nodes', alloc_entry_cnt'[c])
  <2>1. SUFFICES ASSUME NEW c \in heap
                 PROVE  Kept(c, free_entries'[c], nodes', alloc_entry_cnt'[c])
    BY <1>2
  <2>2. CASE c = b
    <3>1. free_entries'[c] = Tail(entries) /\ alloc_entry_cnt'[c] = alloc_entry_cnt[b] + 1
      BY <1>1, <1>2, <1>3, <1>5, <2>2 DEF TypeOK
    <3> QED
      BY <1>6, <2>2, <3>1
  <2>3. CASE c # b
    <3>1. HandedOut(nodes', c) = HandedOut(nodes, c)
      BY <1>5, <1>8, <2>3 DEF HandedOut
    <3>2. free_entries'[c] = free_entries[c] /\ alloc_entry_cnt'[c] = alloc_entry_cnt[c]
      BY <1>1, <1>2, <1>5, <2>3 DEF TypeOK
    <3>3. Kept(c, free_entries[c], nodes, alloc_entry_cnt[c])
      BY InvParts
    <3> QED
      BY <3>1, <3>2, <3>3 DEF Kept
  <2> QED
    BY <2>2, <2>3
<1>11. NodesAreInBlocks'
  BY <1>2, <1>3, <1>5, <1>8, Zenon DEF PoolInv, ListIsSound, NodesAreInBlocks
<1>12. OneSpareBlock'
  <2>1. alloc_entry_cnt[b] \in Nat
    BY <1>1, <1>4, NodesOfBlock DEF Kept, TypeOK
  <2>2. \A c \in heap : alloc_entry_cnt'[c] = 0 => alloc_entry_cnt[c] = 0
    BY <1>1, <1>2, <2>1 DEF TypeOK
  <2> QED
    BY <1>2, <2>2 DEF PoolInv, ListIsSound, OneSpareBlock
<1>13. PoolInv'
  BY <1>1, <1>2, <1>7, <1>9, <1>10, <1>11, <1>12, PartsMakeInv
<1> QED
  BY <1>5, <1>6, <1>8, <1>13

LEMMA AllocFromNewKeepsInv ==
    ASSUME PoolInv, NEW block \in Blocks, AllocFromNew(block)
    PROVE  PoolInv' /\ \E n \in Entries \ nodes : nodes' = nodes \cup {n}
<1> DEFINE entries == CreateBlock(block)
           node == Head(entries)
<1>1. Whole(blocks, last_block_ptr) /\ Range(blocks) = heap /\ TypeOK
  BY InvParts DEF PoolInv
<1>2. PICK list, last : NewBlock(block) = <<list, last>>
  BY DEF NewBlock, PreppendBlock
<1>3. /\ ~FirstHasRoom /\ block \notin heap /\ heap' = heap \cup {block}
      /\ Alloc(list, last, entries)
      /\ alloc_entry_cnt' = [alloc_entry_cnt EXCEPT ![block] = 1]
      /\ UNCHANGED leak_reported
  BY <1>2 DEF AllocFromNew
<1>4. /\ Whole(list, last) /\ Range(list) = Range(blocks) \cup {block}
      /\ list # << >> /\ Head(list) = block /\ Len(list) = Len(blocks) + 1
      /\ \A i \in 1..Len(blocks) : list[i + 1] = blocks[i]
  <2>1. PreppendBlock(blocks, last_block_ptr, block) = <<list, last>>
    BY <1>2 DEF NewBlock
  <2> QED
    BY <1>1, <1>3, <2>1, Preppended
<1>5. entries \in Seq(Entries) /\ entries # << >> /\ Kept(block, entries, nodes, 0)
  <2>1. \A n \in nodes : n[1] # block
    BY <1>3 DEF PoolInv, ListIsSound, NodesAreInBlocks
  <2> QED
    BY <1>1, <2>1, BlockCreated DEF TypeOK
<1>6. free_entries' = [free_entries EXCEPT ![block] = Tail(entries)] /\ nodes' = nodes \cup {node}
  BY <1>3, <1>4 DEF Alloc
<1> HIDE DEF entries
<1>7. /\ node \in EntriesOf(block) /\ node \notin nodes
      /\ Tail(entries) \in Seq(Entries)
      /\ Kept(block, Tail(entries), nodes', 1)
  <2>1. /\ node \in EntriesOf(block) /\ node \notin nodes /\ Tail(entries) \in Seq(Entries)
        /\ Kept(block, Tail(entries), nodes', 0 + 1)
    BY <1>1, <1>5, <1>6, EntryTaken DEF TypeOK
  <2> QED
    BY <2>1
<1>8. Whole(blocks', last_block_ptr') /\ Range(blocks') = heap' /\ FreeInFront'
  <2>1. /\ blocks \in Seq(Blocks) /\ Len(blocks) \in Nat /\ DOMAIN blocks = 1..Len(blocks)
        /\ DOMAIN list = 1..(Len(blocks) + 1)
    BY <1>1, <1>4, LenProperties DEF Whole
  <2>2. \A i \in DOMAIN blocks : free_entries[blocks[i]] = << >>
    <3>1. SUFFICES ASSUME NEW i \in DOMAIN blocks
                   PROVE  free_entries[blocks[i]] = << >>
      OBVIOUS
    <3>2. 1 \in DOMAIN blocks /\ blocks[1] = Head(blocks) /\ blocks # << >>
      BY <2>1
    <3>3. free_entries[blocks[1]] = << >>
      BY <1>3, <3>2, Zenon DEF FirstHasRoom
    <3>4. i = 1 \/ 1 < i
      BY <2>1
    <3>5. 1 < i => (free_entries[blocks[i]] # << >> => free_entries[blocks[1]] # << >>)
      BY <3>2, Zenon DEF PoolInv, ListIsSound, FreeInFront
    <3> QED
      BY <3>3, <3>4, <3>5
  <2>3. \A j \in DOMAIN list : j > 1 => free_entries[list[j]] = << >>
    <3>1. SUFFICES ASSUME NEW j \in DOMAIN list, j > 1
                   PROVE  free_entries[list[j]] = << >>
      OBVIOUS
    <3>2. j - 1 \in 1..Len(blocks) /\ (j - 1) + 1 = j
      BY <2>1, <3>1
    <3>3. list[j] = blocks[j - 1]
      BY <1>4, <3>2
    <3> QED
      BY <2>1, <2>2, <3>2, <3>3
  <2>4. \A i, j \in DOMAIN list :
           /\ 1 < i /\ i < j /\ free_entries[list[j]] # << >>
           => free_entries[list[i]] # << >>
    BY <2>1, <2>3
  <2>5. free_entries \in [Blocks -> Seq(Entries)]
    BY <1>1 DEF TypeOK
  <2> QED
    BY <1>1, <1>3, <1>4, <1>5, <2>4, <2>5, AllocKeepsOrder
<1>9. node[1] = block /\ node \in Entries
  BY <1>7 DEF EntriesOf, Entries
<1>10. TypeOK'
  <2>1. heap' \subseteq Blocks
    BY <1>1, <1>3 DEF TypeOK
  <2>2. blocks' \in Seq(Blocks) /\ last_block_ptr' \in Blocks \cup {Pool}
    <3>1. blocks' # << >> => last_block_ptr' \in Range(blocks')
      BY <1>8, EndOfList
    <3> QED
      BY <1>8, <2>1, <3>1 DEF Whole
  <2>3. free_entries' \in [Blocks -> Seq(Entries)] /\ alloc_entry_cnt' \in [Blocks -> Int]
    BY <1>1, <1>3, <1>6, <1>7 DEF TypeOK
  <2> QED
    BY <1>1, <1>3, <1>6, <1>9, <2>1, <2>2, <2>3 DEF TypeOK
<1>11. \A c \in heap' : Kept(c, free_entries'[c], nodes', alloc_entry_cnt'[c])
  <2>1. SUFFICES ASSUME NEW c \in heap'
                 PROVE  Kept(c, free_entries'[c], nodes', alloc_entry_cnt'[c])
    OBVIOUS
  <2>2. CASE c = block
    <3>1. free_entries'[c] = Tail(entries) /\ alloc_entry_cnt'[c] = 1
      BY <1>1, <1>3, <1>6, <2>2 DEF TypeOK
    <3> QED
      BY <1>7, <2>2, <3>1
  <2>3. CASE c # block
    <3>1. HandedOut(nodes', c) = HandedOut(nodes, c)
      BY <1>6, <1>9, <2>3 DEF HandedOut
    <3>2. c \in heap /\ c \in Blocks
      BY <1>1, <1>3, <2>3 DEF TypeOK
    <3>3. free_entries'[c] = free_entries[c] /\ alloc_entry_cnt'[c] = alloc_entry_cnt[c]
      BY <1>1, <1>3, <1>6, <2>3, <3>2 DEF TypeOK
    <3>4. Kept(c, free_entries[c], nodes, alloc_entry_cnt[c])
      BY <3>2, InvParts
    <3> QED
      BY <3>1, <3>3, <3>4 DEF Kept
  <2> QED
    BY <2>2, <2>3
<1>12. NodesAreInBlocks'
  BY <1>3, <1>6, <1>9, Zenon DEF PoolInv, ListIsSound, NodesAreInBlocks
<1>13. OneSpareBlock'
  <2>1. \A c \in heap' : alloc_entry_cnt'[c] = 0 => c \in heap /\ alloc_entry_cnt[c] = 0
    BY <1>1, <1>3 DEF TypeOK
  <2> QED
    BY <2>1 DEF PoolInv, ListIsSound, OneSpareBlock
<1>14. PoolInv'
  BY <1>8, <1>10, <1>11, <1>12, <1>13, PartsMakeInv
<1> QED
  BY <1>6, <1>7, <1>9, <1>14

LEMMA FreeKeepsInv ==
    ASSUME PoolInv, NEW node \in nodes, Free(node)
    PROVE  PoolInv'
<1> DEFINE block == node[1]
           count == alloc_entry_cnt[block] - 1
<1>1. Whole(blocks, last_block_ptr) /\ Range(blocks) = heap /\ TypeOK
  BY InvParts DEF PoolInv
<1>2. block \in heap /\ block \in Blocks /\ node \in Entries
  <2>1. block \in heap
    BY DEF PoolInv, ListIsSound, NodesAreInBlocks
  <2> QED
    BY <1>1, <2>1 DEF TypeOK
<1>3. PICK i \in DOMAIN blocks : blocks[i] = block
  BY <1>1, <1>2 DEF Range
<1>4. (CHOOSE j \in DOMAIN blocks : blocks[j] = block) = i
  <2>1. \A j \in DOMAIN blocks : blocks[j] = block <=> j = i
    BY <1>1, <1>3 DEF Whole, IsInjective
  <2> QED
    BY <1>3, <2>1, Zenon
<1>5. PICK rest, rear : RemoveBlock(blocks, last_block_ptr, i) = <<rest, rear>>
  BY DEF RemoveBlock
<1> HIDE DEF block, count
<1>6. /\ nodes' = nodes \ {node}
      /\ UNCHANGED leak_reported
      /\ IF MayDestroy(count, rest)
         THEN SetList(<<rest, rear>>) /\ GiveBack({block})
         ELSE /\ SetList(PreppendBlock(rest, rear, block))
              /\ free_entries' = [free_entries EXCEPT ![block] = <<node>> \o @]
              /\ alloc_entry_cnt' = [alloc_entry_cnt EXCEPT ![block] = count]
              /\ UNCHANGED heap
  <2>1. <<rest, rear>>[1] = rest /\ <<rest, rear>>[2] = rear
    OBVIOUS
  <2>2. nodes' = nodes \ {node} /\ UNCHANGED leak_reported
    BY DEF Free
  <2>3. block \in Range(blocks)
    BY <1>1, <1>2
  <2>4. IF MayDestroy(count, RemoveBlock(blocks, last_block_ptr, i)[1])
        THEN SetList(RemoveBlock(blocks, last_block_ptr, i)) /\ GiveBack({block})
        ELSE /\ SetList(PreppendBlock(RemoveBlock(blocks, last_block_ptr, i)[1],
                                      RemoveBlock(blocks, last_block_ptr, i)[2], block))
             /\ free_entries' = [free_entries EXCEPT ![block] = <<node>> \o @]
             /\ alloc_entry_cnt' = [alloc_entry_cnt EXCEPT ![block] = count]
             /\ UNCHANGED heap
    BY <1>4, <2>3, Zenon DEF Free, block, count
  <2> QED
    BY <1>5, <2>1, <2>2, <2>4, Zenon
<1>7. /\ Whole(rest, rear) /\ Range(rest) = heap \ {block} /\ Len(rest) = Len(blocks) - 1
      /\ \A j \in 1..Len(rest) : rest[j] = IF j < i THEN blocks[j] ELSE blocks[j + 1]
  BY <1>1, <1>3, <1>5, Removed
<1>8. \A a, c \in DOMAIN rest :
         a < c /\ free_entries[rest[c]] # << >> => free_entries[rest[a]] # << >>
  <2>1. SUFFICES ASSUME NEW a \in DOMAIN rest, NEW c \in DOMAIN rest,
                        a < c, free_entries[rest[c]] # << >>
                 PROVE  free_entries[rest[a]] # << >>
    OBVIOUS
  <2>2. /\ Len(blocks) \in Nat /\ DOMAIN blocks = 1..Len(blocks)
        /\ DOMAIN rest = 1..Len(rest) /\ i \in Int
    BY <1>1, <1>3, <1>7, LenProperties DEF Whole
  <2>3. PICK k \in DOMAIN blocks : k = IF a < i THEN a ELSE a + 1
    BY <1>7, <2>2
  <2>4. PICK l \in DOMAIN blocks : l = IF c < i THEN c ELSE c + 1
    BY <1>7, <2>2
  <2>5. k < l /\ rest[a] = blocks[k] /\ rest[c] = blocks[l]
    BY <1>7, <2>1, <2>2, <2>3, <2>4
  <2> QED
    BY <2>1, <2>5, Zenon DEF PoolInv, ListIsSound, FreeInFront
<1>9. /\ <<node>> \o free_entries[block] \in Seq(Entries)
      /\ <<node>> \o free_entries[block] # << >>
      /\ Kept(block, <<node>> \o free_entries[block], nodes', count)
  <2>1. Kept(block, free_entries[block], nodes, alloc_entry_cnt[block])
    BY <1>2, InvParts
  <2>2. node[1] = block /\ free_entries[block] \in Seq(Entries) /\ nodes \subseteq Entries
    BY <1>1, <1>2 DEF block, TypeOK
  <2> QED
    BY <1>6, <2>1, <2>2, EntryReturned DEF count
<1>10. \A c \in heap : c # block => Kept(c, free_entries[c], nodes', alloc_entry_cnt[c])
  <2>1. SUFFICES ASSUME NEW c \in heap, c # block
                 PROVE  Kept(c, free_entries[c], nodes', alloc_entry_cnt[c])
    OBVIOUS
  <2>2. HandedOut(nodes', c) = HandedOut(nodes, c)
    BY <1>6, <2>1 DEF HandedOut, block
  <2>3. Kept(c, free_entries[c], nodes, alloc_entry_cnt[c])
    BY InvParts
  <2> QED
    BY <2>2, <2>3 DEF Kept
<1>11. CASE MayDestroy(count, rest)
  <2>1. /\ blocks' = rest /\ last_block_ptr' = rear /\ heap' = heap \ {block}
        /\ free_entries' = [c \in Blocks |-> IF c \in {block} THEN << >> ELSE free_entries[c]]
        /\ alloc_entry_cnt' = [c \in Blocks |-> IF c \in {block} THEN 0 ELSE alloc_entry_cnt[c]]
    BY <1>6, <1>11 DEF SetList, GiveBack
  <2>2. \A c \in heap' : /\ c \in heap /\ c # block /\ c \in Blocks
                         /\ free_entries'[c] = free_entries[c]
                         /\ alloc_entry_cnt'[c] = alloc_entry_cnt[c]
    BY <1>1, <2>1 DEF TypeOK
  <2>3. TypeOK'
    <3>1. blocks' \in Seq(Blocks) /\ last_block_ptr' \in Blocks \cup {Pool}
      <4>1. rest # << >> => rear \in Range(rest)
        BY <1>7, EndOfList
      <4> QED
        BY <1>1, <1>7, <2>1, <4>1 DEF Whole, TypeOK
    <3>2. << >> \in Seq(Entries)
      OBVIOUS
    <3>3. free_entries' \in [Blocks -> Seq(Entries)] /\ alloc_entry_cnt' \in [Blocks -> Int]
      BY <1>1, <2>1, <3>2 DEF TypeOK
    <3> QED
      BY <1>1, <1>6, <2>1, <3>1, <3>3 DEF TypeOK
  <2>4. FreeInFront'
    <3>1. \A c \in DOMAIN rest : rest[c] \in heap'
      BY <1>7, <2>1 DEF Range
    <3> QED
      BY <1>8, <2>1, <2>2, <3>1, Zenon DEF FreeInFront
  <2>5. NodesAreInBlocks'
    <3>1. HandedOut(nodes', block) = {}
      <4>1. count = 0 /\ count = Cardinality(HandedOut(nodes', block))
        BY <1>9, <1>11 DEF MayDestroy, Kept
      <4>2. nodes' \subseteq Entries
        BY <1>1, <1>6 DEF TypeOK
      <4>3. IsFiniteSet(HandedOut(nodes', block))
        BY <4>2, NodesOfBlock
      <4> QED
        BY <4>1, <4>3, FS_EmptySet
    <3>2. \A n \in nodes' : n[1] # block
      BY <3>1 DEF HandedOut
    <3> QED
      BY <1>6, <2>1, <3>2 DEF PoolInv, ListIsSound, NodesAreInBlocks
  <2>6. OneSpareBlock'
    BY <2>2 DEF PoolInv, ListIsSound, OneSpareBlock
  <2>7. \A c \in heap' : Kept(c, free_entries'[c], nodes', alloc_entry_cnt'[c])
    BY <1>10, <2>2
  <2> QED
    BY <1>7, <2>1, <2>3, <2>4, <2>5, <2>6, <2>7, PartsMakeInv
<1>12. CASE ~MayDestroy(count, rest)
  <2>1. /\ SetList(PreppendBlock(rest, rear, block))
        /\ free_entries' = [free_entries EXCEPT ![block] = <<node>> \o @]
        /\ alloc_entry_cnt' = [alloc_entry_cnt EXCEPT ![block] = count]
        /\ heap' = heap
    BY <1>6, <1>12
  <2>2. PreppendBlock(rest, rear, block) = <<blocks', last_block_ptr'>>
    BY <2>1 DEF SetList, PreppendBlock
  <2>3. block \notin Range(rest)
    BY <1>7
  <2>4. /\ Whole(blocks', last_block_ptr') /\ Range(blocks') = Range(rest) \cup {block}
        /\ blocks' # << >> /\ Head(blocks') = block /\ Len(blocks') = Len(rest) + 1
        /\ \A j \in 1..Len(rest) : blocks'[j + 1] = rest[j]
    BY <1>2, <1>7, <2>2, <2>3, Preppended
  <2>5. Range(blocks') = heap'
    BY <1>2, <1>7, <2>1, <2>4
  <2>6. /\ free_entries'[block] = <<node>> \o free_entries[block]
        /\ alloc_entry_cnt'[block] = count
        /\ \A c \in heap : c # block => /\ free_entries'[c] = free_entries[c]
                                        /\ alloc_entry_cnt'[c] = alloc_entry_cnt[c]
    BY <1>1, <1>2, <2>1 DEF TypeOK
  <2>7. TypeOK'
    <3>1. blocks' \in Seq(Blocks) /\ last_block_ptr' \in Blocks \cup {Pool}
      <4>1. last_block_ptr' \in Range(blocks')
        BY <2>4, EndOfList
      <4> QED
        BY <1>1, <2>1, <2>4, <2>5, <4>1 DEF Whole, TypeOK
    <3>2. free_entries' \in [Blocks -> Seq(Entries)]
      BY <1>1, <1>9, <2>1 DEF TypeOK
    <3>3. alloc_entry_cnt' \in [Blocks -> Int]
      BY <1>1, <1>2, <2>1 DEF TypeOK, count
    <3> QED
      BY <1>1, <1>6, <2>1, <3>1, <3>2, <3>3 DEF TypeOK
  <2>8. /\ DOMAIN rest = 1..Len(rest) /\ Len(rest) \in Nat
        /\ DOMAIN blocks' = 1..(Len(rest) + 1) /\ blocks'[1] = block
    BY <1>7, <2>4, LenProperties DEF Whole
  <2>9. FreeInFront'
    <3>1. SUFFICES ASSUME NEW a \in DOMAIN blocks', NEW c \in DOMAIN blocks',
                          a < c, free_entries'[blocks'[c]] # << >>
                   PROVE  free_entries'[blocks'[a]] # << >>
      BY Zenon DEF FreeInFront
    <3>2. \A k \in DOMAIN rest : /\ rest[k] \in heap /\ rest[k] # block
                                 /\ free_entries'[rest[k]] = free_entries[rest[k]]
      BY <1>7, <2>6 DEF Range
    <3>3. CASE a = 1
      BY <1>9, <2>6, <2>8, <3>3
    <3>4. CASE a # 1
      <4>1. /\ a - 1 \in DOMAIN rest /\ c - 1 \in DOMAIN rest /\ a - 1 < c - 1
            /\ (a - 1) + 1 = a /\ (c - 1) + 1 = c
        BY <2>8, <3>1, <3>4
      <4>2. blocks'[a] = rest[a - 1] /\ blocks'[c] = rest[c - 1]
        BY <2>4, <2>8, <4>1
      <4> QED
        BY <1>8, <3>1, <3>2, <4>1, <4>2
    <3> QED
      BY <3>3, <3>4
  <2>10. NodesAreInBlocks'
    BY <1>6, <2>1 DEF PoolInv, ListIsSound, NodesAreInBlocks
  <2>11. \A c \in heap' : Kept(c, free_entries'[c], nodes', alloc_entry_cnt'[c])
    BY <1>9, <1>10, <2>1, <2>6
  <2>12. count = 0 => \A c \in heap : c # block => alloc_entry_cnt[c] # 0
    <3>1. SUFFICES ASSUME count = 0, NEW c \in heap, c # block
                   PROVE  alloc_entry_cnt[c] # 0
      OBVIOUS
    <3>2. PICK k \in DOMAIN rest : rest[k] = c
      BY <1>7, <3>1 DEF Range
    <3>3. rest # << >> /\ 1 \in DOMAIN rest /\ Head(rest) = rest[1] /\ (k = 1 \/ 1 < k)
      BY <2>8, <3>2
    <3>4. free_entries[rest[1]] = << >>
      BY <1>12, <3>1, <3>3, Zenon DEF MayDestroy
    <3>5. free_entries[c] = << >>
      BY <1>8, <3>2, <3>3, <3>4
    <3>6. Kept(c, << >>, nodes', alloc_entry_cnt[c])
      BY <1>10, <3>1, <3>5
    <3>7. <<c, 1>> \in HandedOut(nodes', c)
      <4>1. <<c, 1>> \in EntriesOf(c)
        BY ConstantsAreTyped DEF EntriesOf
      <4>2. <<c, 1>> \notin Range(<< >>)
        BY DEF Range
      <4> QED
        BY <3>6, <4>1, <4>2 DEF Kept
    <3>8. IsFiniteSet(HandedOut(nodes', c))
      BY <1>1, <1>6, NodesOfBlock DEF TypeOK
    <3> QED
      BY <3>6, <3>7, <3>8, FS_EmptySet DEF Kept
  <2>13. OneSpareBlock'
    BY <2>1, <2>6, <2>12 DEF PoolInv, ListIsSound, OneSpareBlock
  <2> QED
    BY <2>4, <2>5, <2>7, <2>9, <2>10, <2>11, <2>13, PartsMakeInv
<1> QED
  BY <1>11, <1>12

LEMMA DestructKeepsInv ==
    ASSUME PoolInv, Destruct
    PROVE  PoolInv'
<1>1. TypeOK /\ Range(blocks) = heap
  BY InvParts DEF PoolInv
<1>2. heap' = {} /\ blocks' = << >> /\ last_block_ptr' = Pool /\ nodes' = {}
  BY <1>1 DEF Destruct, GiveBack
<1>3. TypeOK'
  <2>1. free_entries' \in [Blocks -> Seq(Entries)] /\ alloc_entry_cnt' \in [Blocks -> Int]
    <3>1. << >> \in Seq(Entries)
      OBVIOUS
    <3> QED
      BY <1>1, <3>1 DEF Destruct, GiveBack, TypeOK
  <2>2. leak_reported' \in BOOLEAN
    BY Zenon DEF Destruct
  <2> QED
    BY <1>2, <2>1, <2>2 DEF TypeOK
<1>4. Whole(blocks', last_block_ptr') /\ Range(blocks') = heap'
  BY <1>2 DEF Whole, Range, IsInjective
<1>5. FreeInFront' /\ NodesAreInBlocks' /\ OneSpareBlock'
  BY <1>2 DEF FreeInFront, NodesAreInBlocks, OneSpareBlock
<1> QED
  BY <1>2, <1>3, <1>4, <1>5, PartsMakeInv

LEMMA InitIsInv == Init => PoolInv
<1> SUFFICES ASSUME Init PROVE PoolInv
  OBVIOUS
<1>1. /\ heap = {} /\ blocks = << >> /\ last_block_ptr = Pool /\ nodes = {}
      /\ leak_reported = FALSE
  BY DEF Init
<1>2. TypeOK
  <2>1. << >> \in Seq(Entries)
    OBVIOUS
  <2>2. free_entries \in [Blocks -> Seq(Entries)] /\ alloc_entry_cnt \in [Blocks -> Int]
    BY <2>1 DEF Init
  <2> QED
    <3>1. blocks \in Seq(Blocks) /\ heap \subseteq Blocks /\ nodes \subseteq Entries
      BY <1>1
    <3>2. last_block_ptr \in Blocks \cup {Pool} /\ leak_reported \in BOOLEAN
      BY <1>1, Zenon
    <3> QED
      BY <2>2, <3>1, <3>2, Zenon DEF TypeOK
<1>3. ListIsWhole
  BY <1>1 DEF ListIsWhole, IsInjective, Range
<1> QED
  BY <1>1, <1>2, <1>3
  DEF PoolInv, ListIsSound, FreeInFront, HandedOutOnce, NodesAreInBlocks, OneSpareBlock

LEMMA StepKeepsInv == PoolInv /\ [Next]_vars => PoolInv'
<1> SUFFICES ASSUME PoolInv, [Next]_vars PROVE PoolInv'
  OBVIOUS
<1>1. CASE AllocFromFirst
  BY <1>1, AllocFromFirstKeepsInv
<1>2. ASSUME NEW block \in Blocks, AllocFromNew(block) PROVE PoolInv'
  BY <1>2, AllocFromNewKeepsInv
<1>3. ASSUME NEW node \in nodes, Free(node) PROVE PoolInv'
  BY <1>3, FreeKeepsInv
<1>4. CASE Destruct
  BY <1>4, DestructKeepsInv
<1>5. CASE UNCHANGED vars
  BY <1>5 DEF vars, PoolInv, TypeOK, ListIsSound, ListIsWhole, FreeInFront, HandedOutOnce,
              NodesAreInBlocks, OneSpareBlock
<1> QED
  BY <1>1, <1>2, <1>3, <1>4, <1>5 DEF Next

LEMMA PoolInvHolds == Spec => []PoolInv
  BY InitIsInv, StepKeepsInv, PTL DEF Spec

----------------------------------------------------------------------------
(* The theorems *)

(* The variables keep their types through every sequence of calls of       *)
(* ufdt_node_pool_alloc, ufdt_node_pool_free and ufdt_node_pool_destruct.  *)
THEOREM TypeCorrect == Spec => []TypeOK
<1>1. PoolInv => TypeOK
  BY DEF PoolInv
<1> QED
  BY <1>1, PoolInvHolds, PTL

(* For any number of blocks of any size, the list keeps every block of the *)
(* pool once and last_block_ptr its end; blocks with room stay in front;   *)
(* an entry is free or in use but never both, and never handed out twice;  *)
(* and no more than one block is without a node: what _alloc assumes when  *)
(* it looks at the first block alone, and what _free assumes when it gives *)
(* a block back.                                                           *)
THEOREM ListStaysSound == Spec => []ListIsSound
<1>1. PoolInv => ListIsSound
  BY DEF PoolInv
<1> QED
  BY <1>1, PoolInvHolds, PTL

(* The entries that are not free are those that clients have. *)
LEMMA UsedAreHeld ==
    ASSUME NEW bs, NEW free, NEW ns, NEW cnt, ns \subseteq Entries,
           \A n \in ns : n[1] \in Range(bs),
           \A b \in Range(bs) : Kept(b, free[b], ns, cnt[b])
    PROVE  {e \in Range(bs) \X (1..ENTRIES_PER_BLOCK) : e \notin Range(free[e[1]])} = ns
<1> DEFINE used == {e \in Range(bs) \X (1..ENTRIES_PER_BLOCK) : e \notin Range(free[e[1]])}
<1>1. ASSUME NEW e \in used PROVE e \in ns
  <2>1. e[1] \in Range(bs) /\ e \in EntriesOf(e[1]) /\ e \notin Range(free[e[1]])
    BY DEF EntriesOf
  <2>2. Range(free[e[1]]) = EntriesOf(e[1]) \ HandedOut(ns, e[1])
    BY <2>1 DEF Kept
  <2> QED
    BY <2>1, <2>2 DEF HandedOut
<1>2. ASSUME NEW n \in ns PROVE n \in used
  <2>1. n[1] \in Range(bs) /\ n \in HandedOut(ns, n[1])
    BY DEF HandedOut
  <2>2. n \notin Range(free[n[1]])
    BY <2>1 DEF Kept
  <2>3. n \in Range(bs) \X (1..ENTRIES_PER_BLOCK)
    BY <2>1 DEF Entries
  <2> QED
    BY <2>2, <2>3
<1> HIDE DEF used
<1>3. used = ns
  BY <1>1, <1>2
<1> QED
  BY <1>3 DEF used

LEMMA BlocksUsedAreHeld ==
    PoolInv => {e \in Range(blocks) \X (1..ENTRIES_PER_BLOCK) :
                   e \notin Range(free_entries[e[1]])} = nodes
<1> SUFFICES ASSUME PoolInv
             PROVE  {e \in Range(blocks) \X (1..ENTRIES_PER_BLOCK) :
                        e \notin Range(free_entries[e[1]])} = nodes
  OBVIOUS
<1>1. Range(blocks) = heap /\ \A b \in heap : Kept(b, free_entries[b], nodes, alloc_entry_cnt[b])
  BY InvParts
<1>2. nodes \subseteq Entries /\ \A n \in nodes : n[1] \in heap
  BY DEF PoolInv, TypeOK, ListIsSound, NodesAreInBlocks
<1> QED
  BY <1>1, <1>2, UsedAreHeld

(* "Some nodes aren't freed before ufdt_node_pool_destruct()" is reported  *)
(* when and only when some client has a node: the counters of the blocks   *)
(* together miss none (ufdt_node_pool.c:71-88).                            *)
THEOREM LeaksAreAlwaysReported == Spec => LeaksAreReported
<1>1. ASSUME PoolInv, Destruct PROVE leak_reported' <=> nodes # {}
  <2>1. leak_reported' = \E b \in heap : alloc_entry_cnt[b] # 0
    BY <1>1, InvParts, Zenon DEF Destruct
  <2>2. \A b \in heap : alloc_entry_cnt[b] # 0 <=> HandedOut(nodes, b) # {}
    <3>1. SUFFICES ASSUME NEW b \in heap
                   PROVE  alloc_entry_cnt[b] # 0 <=> HandedOut(nodes, b) # {}
      OBVIOUS
    <3>2. alloc_entry_cnt[b] = Cardinality(HandedOut(nodes, b))
      BY <1>1, InvParts DEF Kept
    <3>3. IsFiniteSet(HandedOut(nodes, b))
      BY <1>1, NodesOfBlock DEF PoolInv, TypeOK
    <3> QED
      BY <3>2, <3>3, FS_EmptySet
  <2>3. \A n \in nodes : n[1] \in heap /\ n \in HandedOut(nodes, n[1])
    BY <1>1 DEF PoolInv, ListIsSound, NodesAreInBlocks, HandedOut
  <2>4. \A b \in heap : HandedOut(nodes, b) \subseteq nodes
    BY DEF HandedOut
  <2>5. (\E b \in heap : alloc_entry_cnt[b] # 0) <=> nodes # {}
    BY <2>2, <2>3, <2>4
  <2> QED
    BY <2>1, <2>5, Zenon
<1>2. PoolInv => (Destruct => (leak_reported' <=> nodes # {}))
  BY <1>1
<1> QED
  BY <1>2, PoolInvHolds, PTL DEF Spec, LeaksAreReported

(* Every call of the pool is a step of NodeSet or leaves the set as it is: *)
(* an allocation adds one entry that was not in use, a release takes away  *)
(* the one node it is given, and all blocks together never hold more.      *)
THEOREM PoolIsNodeSet == Spec => ImplementsNodeSet
<1>1. Init => Promise!Init
  BY DEF Init, Promise!Init, Range
<1>2. ASSUME PoolInv, PoolInv', [Next]_vars
      PROVE  [Promise!Next]_(Promise!vars)
  <2> DEFINE used == {e \in Range(blocks) \X (1..ENTRIES_PER_BLOCK) :
                         e \notin Range(free_entries[e[1]])}
  <2>1. used = nodes
    BY <1>2, BlocksUsedAreHeld
  <2>2. used' = nodes'
    <3>1. /\ Range(blocks)' = heap'
          /\ \A b \in heap' : Kept(b, free_entries'[b], nodes', alloc_entry_cnt'[b])
      BY <1>2, Zenon DEF PoolInv, ListIsSound, ListIsWhole, HandedOutOnce, Kept, HandedOut, EntriesOf
    <3>2. nodes' \subseteq Entries /\ \A n \in nodes' : n[1] \in heap'
      BY <1>2 DEF PoolInv, TypeOK, ListIsSound, NodesAreInBlocks
    <3> QED
      BY <3>1, <3>2, UsedAreHeld
  <2> HIDE DEF used
  <2>3. ASSUME NEW n \in Entries \ nodes, nodes' = nodes \cup {n}
        PROVE  Promise!Allocate
    BY <2>1, <2>2, <2>3 DEF Promise!Allocate, used
  <2>4. CASE AllocFromFirst
    BY <1>2, <2>3, <2>4, AllocFromFirstKeepsInv DEF Promise!Next
  <2>5. ASSUME NEW block \in Blocks, AllocFromNew(block) PROVE Promise!Next
    BY <1>2, <2>3, <2>5, AllocFromNewKeepsInv DEF Promise!Next
  <2>6. ASSUME NEW node \in nodes, Free(node) PROVE Promise!Next
    <3>1. nodes' = nodes \ {node}
      BY <2>6 DEF Free
    <3>2. Promise!Release
      BY <2>1, <2>2, <3>1 DEF Promise!Release, used
    <3> QED
      BY <3>2 DEF Promise!Next
  <2>7. CASE Destruct
    <3>1. nodes' = {}
      BY <2>7 DEF Destruct
    <3>2. Promise!Destroy
      BY <2>2, <3>1 DEF Promise!Destroy, used
    <3> QED
      BY <3>2 DEF Promise!Next
  <2>8. CASE UNCHANGED vars
    BY <2>1, <2>2, <2>8 DEF vars, Promise!vars, used
  <2> QED
    BY <1>2, <2>4, <2>5, <2>6, <2>7, <2>8 DEF Next
<1> QED
  BY <1>1, <1>2, PoolInvHolds, PTL DEF Spec, ImplementsNodeSet, Promise!Spec
=============================================================================
