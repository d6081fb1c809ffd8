---------------------------- MODULE GetDt_proofs ----------------------------
(***************************************************************************)
(* Proofs about get_dt, for every image, every build and every outcome of  *)
(* the allocations and the merges: no buffer is lost or freed twice, what  *)
(* is chosen is still there when it is read, and what the caller is given  *)
(* is the base DTB with its overlays in it, except where PRE mode moved it.*)
(***************************************************************************)
EXTENDS GetDt, TLAPS, WellFoundedInduction, SequenceTheorems

----------------------------------------------------------------------------
(* The addresses the walk reaches *)

(* A nonempty set of naturals has a least element. *)
LEMMA LeastOf ==
    ASSUME NEW T, T \subseteq Nat, T # {}
    PROVE  \E k \in T : \A j \in T : k <= j
<1>1. PICK k \in T : \A j \in T : ~ (<<j, k>> \in OpToRel(<, Nat))
  BY NatLessThanWellFounded, WFMin, Zenon
<1>2. \A j \in T : k <= j
  <2>1. TAKE j \in T
  <2>2. j \in Nat /\ k \in Nat
    OBVIOUS
  <2>3. ~ (j < k)
    BY <1>1, <2>2 DEF OpToRel
  <2> QED
    BY <2>2, <2>3
<1> QED
  BY <1>2

(* The step from a blob to the address behind it *)
Follows(f, a) ==
    \/ a = Start
    \/ \E b \in Start..(a - 1) : b \in DOMAIN memory /\ f[b] /\ b + memory[b].size = a

(* The recursion of Reached is over smaller addresses: there is a function *)
(* that satisfies it, up to any address.                                   *)
LEMMA ReachExists ==
    \A n \in Nat : \E f \in [Start..(Start + n) -> BOOLEAN] :
        \A a \in Start..(Start + n) : f[a] <=> Follows(f, a)
<1> DEFINE Good(n) == \E f \in [Start..(Start + n) -> BOOLEAN] :
                          \A a \in Start..(Start + n) : f[a] <=> Follows(f, a)
           Bad == {n \in Nat : ~Good(n)}
<1>1. Start \in Nat
  BY ConstantsAreTyped
<1>2. Good(0)
  <2> DEFINE f == [a \in Start..(Start + 0) |-> TRUE]
  <2>1. f \in [Start..(Start + 0) -> BOOLEAN] /\ \A a \in Start..(Start + 0) : a = Start /\ f[a]
    BY <1>1
  <2> HIDE DEF f
  <2>2. \A a \in Start..(Start + 0) : f[a] <=> Follows(f, a)
    BY <2>1 DEF Follows
  <2> QED
    BY <2>1, <2>2
<1>3. ASSUME NEW n \in Nat, n # 0, Good(n - 1)
      PROVE  Good(n)
  <2>1. PICK g \in [Start..(Start + (n - 1)) -> BOOLEAN] :
            \A a \in Start..(Start + (n - 1)) : g[a] <=> Follows(g, a)
    BY <1>3
  <2> DEFINE f == [a \in Start..(Start + n) |-> IF a = Start + n THEN Follows(g, a) ELSE g[a]]
  <2>2. \A a \in Start..(Start + (n - 1)) : a \in Start..(Start + n) /\ a # Start + n
    BY <1>1, <1>3
  <2>3. \A a \in Start..(Start + n) : a = Start + n \/ a \in Start..(Start + (n - 1))
    BY <1>1, <1>3
  <2>4. f \in [Start..(Start + n) -> BOOLEAN]
    <3>1. \A a \in Start..(Start + n) :
             (IF a = Start + n THEN Follows(g, a) ELSE g[a]) \in BOOLEAN
      BY <2>3, Zenon DEF Follows
    <3> QED
      BY <3>1
  <2>5. \A b \in Start..(Start + (n - 1)) : f[b] = g[b]
    BY <2>2
  <2>6. f[Start + n] = Follows(g, Start + n)
    <3>1. Start + n \in Start..(Start + n)
      BY <1>1, <1>3
    <3> QED
      BY <3>1
  <2> HIDE DEF f
  <2>7. \A a \in Start..(Start + n) : Follows(f, a) <=> Follows(g, a)
    <3>1. \A a \in Start..(Start + n) : \A b \in Start..(a - 1) : b \in Start..(Start + (n - 1))
      BY <1>1, <1>3
    <3> QED
      BY <2>5, <3>1 DEF Follows
  <2>8. \A a \in Start..(Start + n) : f[a] <=> Follows(f, a)
    <3>1. SUFFICES ASSUME NEW a \in Start..(Start + n) PROVE f[a] <=> Follows(g, a)
      BY <2>7
    <3>2. CASE a = Start + n
      BY <2>6, <3>2
    <3>3. CASE a # Start + n
      BY <2>1, <2>3, <2>5, <3>3
    <3> QED
      BY <3>2, <3>3
  <2> QED
    BY <2>4, <2>8
<1>4. Bad = {}
  <2>1. SUFFICES ASSUME Bad # {} PROVE FALSE
    OBVIOUS
  <2>2. PICK k \in Bad : \A j \in Bad : k <= j
    BY <2>1, LeastOf
  <2>3. k # 0 /\ k \in Nat
    BY <1>2, <2>2
  <2>4. k - 1 \in Nat /\ k - 1 \notin Bad
    BY <2>2, <2>3
  <2>5. Good(k - 1)
    BY <2>4
  <2>6. Good(k)
    BY <1>3, <2>3, <2>5
  <2> QED
    BY <2>2, <2>6
<1> QED
  BY <1>4

(* An address is reached when it is the start of the image, or behind a    *)
(* blob at an address that is.                                             *)
LEMMA ReachedMeaning ==
    /\ Reached \subseteq Start..ImageEnd
    /\ \A a \in Start..ImageEnd :
          a \in Reached <=> \/ a = Start
                            \/ \E b \in Start..(a - 1) : /\ b \in DOMAIN memory
                                                         /\ b \in Reached
                                                         /\ b + memory[b].size = a
<1> DEFINE body(f) == [a \in Start..ImageEnd |->
                          \/ a = Start
                          \/ \E b \in Start..(a - 1) :
                                b \in DOMAIN memory /\ f[b] /\ b + memory[b].size = a]
           reach == CHOOSE f : f = body(f)
<1>1. Start \in Nat /\ ImageEnd \in Nat /\ ImageEnd - Start \in Nat
      /\ Start + (ImageEnd - Start) = ImageEnd
  BY ConstantsAreTyped
<1>2. PICK f \in [Start..ImageEnd -> BOOLEAN] : \A a \in Start..ImageEnd : f[a] <=> Follows(f, a)
  BY <1>1, ReachExists
<1>3. f = body(f)
  <2>1. \A a \in Start..ImageEnd : f[a] = Follows(f, a)
    BY <1>2, Zenon DEF Follows
  <2>2. f = [a \in Start..ImageEnd |-> f[a]]
    OBVIOUS
  <2>3. f = [a \in Start..ImageEnd |-> Follows(f, a)]
    BY <2>1, <2>2
  <2> QED
    BY <2>3, Zenon DEF Follows
<1>4. reach = body(reach)
  BY <1>3, Zenon
<1>5. Reached = {a \in Start..ImageEnd : reach[a]}
  BY DEF Reached
<1> HIDE DEF reach
<1>6. \A a \in Start..ImageEnd :
         reach[a] <=> \/ a = Start
                      \/ \E b \in Start..(a - 1) :
                            b \in DOMAIN memory /\ reach[b] /\ b + memory[b].size = a
  BY <1>4, Zenon
<1>7. \A a \in Start..ImageEnd : \A b \in Start..(a - 1) : b \in Start..ImageEnd
  BY <1>1
<1> QED
  BY <1>5, <1>6, <1>7

(* Two blobs the walk reaches do not overlap. *)
LEMMA ReachedApart ==
    ASSUME \A b \in DOMAIN memory : b \in Nat /\ memory[b].size \in Nat \ {0}
    PROVE  \A b, a \in Reached \cap DOMAIN memory : a < b => a + memory[a].size <= b
<1> DEFINE Apart(b) == \A a \in Reached \cap DOMAIN memory : a < b => a + memory[a].size <= b
           Bad == {b \in Reached \cap DOMAIN memory : ~Apart(b)}
<1>0. Start \in Nat /\ Reached \subseteq Start..ImageEnd
  BY ReachedMeaning, ConstantsAreTyped
<1>1. SUFFICES ASSUME Bad # {} PROVE FALSE
  OBVIOUS
<1>2. Bad \subseteq Nat
  OBVIOUS
<1>3. PICK b \in Bad : \A c \in Bad : b <= c
  BY <1>1, <1>2, LeastOf
<1>4. b \in Reached /\ b \in DOMAIN memory /\ b \in Nat /\ b \in Start..ImageEnd
  BY <1>0, <1>3
<1>5. PICK a \in Reached \cap DOMAIN memory : a < b /\ ~(a + memory[a].size <= b)
  BY <1>3
<1>6. a \in Nat /\ Start <= a /\ memory[a].size \in Nat \ {0}
  BY <1>0, <1>5
<1>7. b # Start
  BY <1>0, <1>5, <1>6
<1>8. PICK c \in Start..(b - 1) : c \in DOMAIN memory /\ c \in Reached /\ c + memory[c].size = b
  BY <1>4, <1>7, ReachedMeaning
<1>9. c \in Nat /\ c < b /\ memory[c].size \in Nat \ {0}
  BY <1>0, <1>4, <1>8
<1>10. c \notin Bad /\ (a < c => a + memory[a].size <= c)
  <2>1. c \notin Bad
    BY <1>3, <1>4, <1>9
  <2> QED
    BY <1>5, <1>8, <2>1
<1>11. c < a => c + memory[c].size <= a
  <2>1. a \notin Bad
    BY <1>3, <1>4, <1>5, <1>6
  <2> QED
    BY <1>5, <1>8, <2>1
<1> QED
  BY <1>4, <1>5, <1>6, <1>8, <1>9, <1>10, <1>11

----------------------------------------------------------------------------
(* The inductive invariant *)

(* No read of the type has been made by the call that runs. *)
Unread(t) ==
    \/ pc \in {"idle", "open", "read_base"}
    \/ t # "BASE_DTB" /\ pc = "read_soc"
    \/ t = "PLATFORM_DTBO" /\ (pc = "read_plat" \/ (target = "UEFI" /\ pc = "merge_soc"))

(* The overlay of the type has been merged, or none was selected. *)
Done(t) ==
    \/ size[t] = 0
    \/ pc = "exit"
    \/ t = "SOC_DTBO" /\ (pc = "merge_plat" \/ (target = "UEFI" /\ pc = "read_plat"))

(* A call that has selected and has not failed *)
Working == pc \notin {"idle", "open"} /\ return_status = "NONE"

(* Allocations do not overlap. *)
HeapIsApart ==
    /\ \A x \in heap : x.size # 0
    /\ \A x, y \in heap : x # y => ~Overlaps(x.addr, x.size, y.addr, y.size)

(* Each allocation is the handle's, a buffer's or a result's, and none is  *)
(* two of these.                                                           *)
HeapIsOwned ==
    /\ Handle \subseteq heap
    /\ \A t \in Overlays : ptr[t] # 0 => Buffer(t) \in heap
    /\ \A x \in heap : \/ x.addr = dt_select_handle
                       \/ \E t \in BlobType : x.addr = ptr[t]
                       \/ \E h \in held : x.addr = h.addr
    /\ \A t \in BlobType : ptr[t] # 0 => ptr[t] # dt_select_handle
    /\ \A t, u \in BlobType : ptr[t] # 0 /\ t # u => ptr[t] # ptr[u]
    /\ \A h \in held : /\ h.addr # 0 /\ h.size # 0 /\ h.addr # dt_select_handle
                       /\ \A t \in BlobType : ptr[t] # h.addr
    /\ \A g, h \in held : g.addr = h.addr => g = h

(* POST: the base DTB and the results are allocations as well.  PRE: they  *)
(* are in the image, and there is one of them at most.                     *)
ModeDecides ==
    /\ pre_or_post = "POST" =>
          /\ ptr["BASE_DTB"] # 0 => Buffer("BASE_DTB") \in heap
          /\ ResultIsMalloced
          /\ ~misfreed
    /\ pre_or_post = "PRE" =>
          /\ ptr["BASE_DTB"] # 0 =>
                /\ ptr["BASE_DTB"] = selected["BASE_DTB"]
                /\ ptr["BASE_DTB"] \in Start..(ImageEnd - 1)
          /\ \A h \in held : h.addr \in Start..(ImageEnd - 1)
          /\ pc # "idle" => held = {}
          /\ \A g, h \in held : g = h

(* What the step of the call says of its pointers and its status. *)
StepDecides ==
    /\ \A t \in BlobType : Unread(t) => ptr[t] = 0
    /\ pc \in {"idle", "open"} => dt_select_handle = 0
    /\ Working /\ ~Unread("BASE_DTB") => ptr["BASE_DTB"] # 0
    /\ Working => \A t \in Overlays : Done(t) => ptr[t] = 0
    /\ ptr["BASE_DTB"] # 0 => total_blob_size # 0
    /\ pc \notin {"idle", "exit"} => return_status = "NONE"

(* A blob that starts in the image ends in it, unless a call in PRE mode   *)
(* merged into it and its caller has not given it back.                    *)
ImageIsInside ==
    /\ \A a \in DOMAIN memory : a # 0 /\ a # ImageEnd /\ memory[a].size # 0
    /\ \A a \in DOMAIN memory : a < ImageEnd =>
          \/ a + memory[a].size <= ImageEnd
          \/ /\ pre_or_post = "PRE"
             /\ \/ a = ptr["BASE_DTB"] /\ pc \in {"merge_soc", "merge_plat", "exit"}
                \/ \E h \in held : a = h.addr

(* Where the blob of a type is to be found: in the image until it is read, *)
(* then in its buffer.                                                     *)
Source(t) == IF Unread(t) THEN selected[t] ELSE ptr[t]

Current == memory[Source("BASE_DTB")]

(* The overlay that is still to be merged *)
Pending(t) == IF Done(t) THEN << >> ELSE <<memory[Source(t)].origin>>

(* What a type that is not used up needs of the memory *)
SourceIsThere(t) ==
    /\ Source(t) \in DOMAIN memory /\ Source(t) # 0
    /\ Unread(t) => Source(t) \in Start..(ImageEnd - 1)

(* The base DTB is where it was when it was selected, or in a buffer of its*)
(* own.                                                                    *)
Unmoved ==
    \/ pre_or_post = "POST" \/ selected["BASE_DTB"] = Start
    \/ pc \in {"read_base", "read_soc", "read_plat", "move"}

(* While that is so, what has been merged and what is still to be merged   *)
(* make up what the call is to return, and the sizes add up.               *)
CallIsOnItsWay ==
    Working /\ Unmoved =>
        /\ SourceIsThere("BASE_DTB")
        /\ \A t \in Overlays : ~Done(t) =>
              SourceIsThere(t) /\ memory[Source(t)].size = size[t]
        /\ Current.size = IF pc = "exit" THEN total_blob_size ELSE size["BASE_DTB"]
        /\ total_blob_size = size["BASE_DTB"] + size["PLATFORM_DTBO"]
                                + IF Done("SOC_DTBO") THEN 0 ELSE size["SOC_DTBO"]
        /\ wanted = [type |-> Current.type, size |-> total_blob_size,
                     origin |-> Current.origin,
                     parts |-> (Current.parts \o Pending("SOC_DTBO")) \o Pending("PLATFORM_DTBO")]
        /\ pre_or_post = "PRE" /\ selected["BASE_DTB"] = Start =>
              Start + total_blob_size <= ImageEnd

GetInv ==
    /\ TypeOK /\ HeapIsApart /\ HeapIsOwned /\ ModeDecides /\ StepDecides
    /\ ImageIsInside /\ CallIsOnItsWay /\ UnmovedIsMerged /\ ReadsFindBlobs

----------------------------------------------------------------------------
(* The operators of the model *)

LEMMA Modes ==
    ASSUME TypeOK
    PROVE  /\ target \in {"XBL", "UEFI"} /\ pre_or_post \in {"PRE", "POST"}
           /\ pre_or_post = "PRE" => target = "XBL"
           /\ pc \in {"idle", "open", "read_base", "read_soc", "read_plat", "move",
                      "merge_soc", "merge_plat", "exit"}
           /\ pc = "move" => target = "XBL"
<1>1. /\ target \in {"XBL", "UEFI"} /\ pre_or_post \in {"PRE", "POST"}
      /\ pre_or_post = "PRE" => target = "XBL"
  <2>1. <<target, pre_or_post>> \in {<<"XBL", "PRE">>, <<"XBL", "POST">>, <<"UEFI", "POST">>}
    BY ConstantsAreTyped, Zenon DEF TypeOK
  <2> QED
    BY <2>1
<1>2. pc = "idle" \/ \E i \in DOMAIN Steps : pc = Steps[i]
  BY DEF TypeOK
<1>3. CASE target = "XBL"
  <2>1. Steps = <<"open", "read_base", "read_soc", "read_plat", "move", "merge_soc",
                  "merge_plat", "exit">>
    BY <1>3 DEF Steps
  <2> QED
    BY <1>1, <1>2, <1>3, <2>1
<1>4. CASE target = "UEFI"
  <2>1. Steps = <<"open", "read_base", "read_soc", "merge_soc", "read_plat",
                  "merge_plat", "exit">>
    BY <1>4 DEF Steps
  <2> QED
    BY <1>1, <1>2, <1>4, <2>1
<1> QED
  BY <1>1, <1>3, <1>4

(* The step that follows, in each build *)
LEMMA NextStep ==
    ASSUME TypeOK, Proceed
    PROVE  /\ pc = "open" => pc' = "read_base"
           /\ pc = "read_base" => pc' = "read_soc"
           /\ pc = "read_soc" => pc' = IF target = "XBL" THEN "read_plat" ELSE "merge_soc"
           /\ pc = "read_plat" => pc' = IF target = "XBL" THEN "move" ELSE "merge_plat"
           /\ pc = "move" => pc' = "merge_soc"
           /\ pc = "merge_soc" => pc' = IF target = "XBL" THEN "merge_plat" ELSE "read_plat"
           /\ pc = "merge_plat" => pc' = "exit"
<1>0. target \in {"XBL", "UEFI"} /\ (pc = "move" => target = "XBL")
  BY Modes
<1>1. ASSUME NEW k \in DOMAIN Steps, pc = Steps[k],
             \A i, j \in DOMAIN Steps : Steps[i] = Steps[j] => i = j
      PROVE  pc' = Steps[1 + k]
  <2>1. (CHOOSE i \in DOMAIN Steps : Steps[i] = pc) = k
    <3>1. \A i \in DOMAIN Steps : Steps[i] = pc <=> i = k
      BY <1>1, Zenon
    <3> QED
      BY <1>1, <3>1, Zenon
  <2> QED
    BY <2>1, Zenon DEF Proceed
<1>2. CASE target = "XBL"
  <2>1. Steps = <<"open", "read_base", "read_soc", "read_plat", "move", "merge_soc",
                  "merge_plat", "exit">>
    BY <1>2 DEF Steps
  <2>2. \A i, j \in DOMAIN Steps : Steps[i] = Steps[j] => i = j
    BY <2>1
  <2>3. \A k \in DOMAIN Steps : pc = Steps[k] => pc' = Steps[1 + k]
    BY <1>1, <2>2, Zenon
  <2>4. /\ {1, 2, 3, 4, 5, 6, 7, 8} \subseteq DOMAIN Steps
        /\ Steps[1] = "open" /\ Steps[2] = "read_base" /\ Steps[3] = "read_soc"
        /\ Steps[4] = "read_plat" /\ Steps[5] = "move" /\ Steps[6] = "merge_soc"
        /\ Steps[7] = "merge_plat" /\ Steps[8] = "exit"
    BY <2>1
  <2> QED
    BY <1>2, <2>3, <2>4
<1>3. CASE target = "UEFI"
  <2>1. Steps = <<"open", "read_base", "read_soc", "merge_soc", "read_plat",
                  "merge_plat", "exit">>
    BY <1>3 DEF Steps
  <2>2. \A i, j \in DOMAIN Steps : Steps[i] = Steps[j] => i = j
    BY <2>1
  <2>3. \A k \in DOMAIN Steps : pc = Steps[k] => pc' = Steps[1 + k]
    BY <1>1, <2>2, Zenon
  <2>4. /\ {1, 2, 3, 4, 5, 6, 7} \subseteq DOMAIN Steps
        /\ Steps[1] = "open" /\ Steps[2] = "read_base" /\ Steps[3] = "read_soc"
        /\ Steps[4] = "merge_soc" /\ Steps[5] = "read_plat" /\ Steps[6] = "merge_plat"
        /\ Steps[7] = "exit"
    BY <2>1
  <2> QED
    BY <1>0, <1>3, <2>3, <2>4
<1> QED
  BY <1>0, <1>2, <1>3

LEMMA StepTyped ==
    ASSUME \/ target' = "XBL" /\ pc' \in {"idle", "open", "read_base", "read_soc", "read_plat",
                                          "move", "merge_soc", "merge_plat", "exit"}
           \/ target' = "UEFI" /\ pc' \in {"idle", "open", "read_base", "read_soc", "read_plat",
                                           "merge_soc", "merge_plat", "exit"}
    PROVE  pc' \in {"idle"} \cup {Steps'[i] : i \in DOMAIN Steps'}
<1>1. CASE target' = "XBL"
  <2>1. Steps' = <<"open", "read_base", "read_soc", "read_plat", "move", "merge_soc",
                   "merge_plat", "exit">>
    BY <1>1 DEF Steps
  <2> QED
    BY <1>1, <2>1
<1>2. CASE target' = "UEFI"
  <2>1. Steps' = <<"open", "read_base", "read_soc", "merge_soc", "read_plat",
                   "merge_plat", "exit">>
    BY <1>2 DEF Steps
  <2> QED
    BY <1>2, <2>1
<1> QED
  BY <1>1, <1>2

(* A write changes the blob it writes and wipes those it overlaps. *)
LEMMA WrittenIs ==
    ASSUME NEW m, NEW a, NEW blob
    PROVE  /\ \A c : c \in DOMAIN Written(m, a, blob) <=>
                    c = a \/ (c \in DOMAIN m /\ ~Overlaps(a, blob.size, c, m[c].size))
           /\ Written(m, a, blob)[a] = blob
           /\ \A c \in DOMAIN Written(m, a, blob) : c # a => Written(m, a, blob)[c] = m[c]
<1>1. DOMAIN Wiped(m, a, blob.size) = {c \in DOMAIN m : ~Overlaps(a, blob.size, c, m[c].size)}
  BY DEF Wiped
<1>2. \A c \in DOMAIN Wiped(m, a, blob.size) : Wiped(m, a, blob.size)[c] = m[c]
  BY DEF Wiped
<1> DEFINE D == {a} \cup DOMAIN Wiped(m, a, blob.size)
<1>3. Written(m, a, blob) = [b \in D |-> IF b = a THEN blob ELSE m[b]]
  BY DEF Written
<1> HIDE DEF D
<1>4. /\ DOMAIN Written(m, a, blob) = D
      /\ \A c \in D : Written(m, a, blob)[c] = IF c = a THEN blob ELSE m[c]
  BY <1>3
<1>5. a \in D /\ D = {a} \cup {c \in DOMAIN m : ~Overlaps(a, blob.size, c, m[c].size)}
  BY <1>1 DEF D
<1> QED
  BY <1>4, <1>5

(* Freeing buffers wipes the blobs in them. *)
LEMMA AfterFreeIs ==
    ASSUME NEW m, NEW buffers
    PROVE  /\ DOMAIN AfterFree(m, buffers)
                 = {c \in DOMAIN m : \A b \in buffers :
                                        ~Overlaps(c, m[c].size, b.addr, b.size)}
           /\ \A c \in DOMAIN AfterFree(m, buffers) : AfterFree(m, buffers)[c] = m[c]
  BY DEF AfterFree

(* Parts of different allocations do not overlap; and two allocations      *)
(* differ when, and only when, their addresses do.                         *)
LEMMA AllocationsApart ==
    ASSUME TypeOK, HeapIsApart, NEW x \in heap, NEW y \in heap
    PROVE  /\ x.addr \in Nat /\ x.addr > ImageEnd /\ x.size \in Nat \ {0}
           /\ x = [addr |-> x.addr, size |-> x.size]
           /\ x.addr = y.addr => x = y
           /\ x.addr # y.addr =>
                 \A n, k \in Nat : n <= x.size /\ k <= y.size => ~Overlaps(x.addr, n, y.addr, k)
<1>1. x \in [addr : HeapSlots, size : Nat] /\ y \in [addr : HeapSlots, size : Nat]
  BY DEF TypeOK
<1>2. \A a \in HeapSlots : a \in Nat /\ a > ImageEnd
  BY ConstantsAreTyped
<1>3. x.size # 0 /\ y.size # 0 /\ (x # y => ~Overlaps(x.addr, x.size, y.addr, y.size))
  BY DEF HeapIsApart
<1>4. x.addr = y.addr => x = y
  BY <1>1, <1>2, <1>3 DEF Overlaps
<1>5. ASSUME x.addr # y.addr, NEW n \in Nat, NEW k \in Nat, n <= x.size, k <= y.size
      PROVE  ~Overlaps(x.addr, n, y.addr, k)
  BY <1>1, <1>2, <1>3, <1>5 DEF Overlaps
<1> QED
  BY <1>1, <1>2, <1>3, <1>4, <1>5

(* What MALLOC_WRAPPER returns is apart from every other allocation. *)
LEMMA MallocApart ==
    ASSUME TypeOK, HeapIsApart, NEW n \in Nat \ {0}, NEW a, Malloc(n, a), heap' = Allocated(a, n)
    PROVE  /\ a \in HeapSlots /\ a \in Nat /\ a > ImageEnd
           /\ HeapIsApart' /\ heap' \subseteq [addr : HeapSlots, size : Nat]
           /\ heap \subseteq heap' /\ [addr |-> a, size |-> n] \in heap'
           /\ \A x \in heap' : x.addr # a => x \in heap
           /\ \A x \in heap :
                 /\ x.addr # a
                 /\ \A k, l \in Nat : k <= n /\ l <= x.size => ~Overlaps(a, k, x.addr, l)
<1> DEFINE new == [addr |-> a, size |-> n]
<1>1. /\ heap' = heap \cup {new} /\ a \in HeapSlots
      /\ \A x \in heap : ~Overlaps(a, n, x.addr, x.size)
  BY DEF Malloc, Allocated
<1>2. a \in Nat /\ a > ImageEnd
  BY <1>1, ConstantsAreTyped
<1>3. \A x \in heap : x.addr \in Nat /\ x.size \in Nat \ {0}
  BY AllocationsApart
<1>4. heap' \subseteq [addr : HeapSlots, size : Nat]
  BY <1>1 DEF TypeOK
<1>5. \A x \in heap : x.addr # a
  BY <1>1, <1>2, <1>3 DEF Overlaps
<1>6. \A x \in heap : \A k, l \in Nat : k <= n /\ l <= x.size => ~Overlaps(a, k, x.addr, l)
  BY <1>1, <1>2, <1>3 DEF Overlaps
<1>7. HeapIsApart'
  <2>1. \A x \in heap' : x.size # 0
    BY <1>1, <1>3
  <2>2. ASSUME NEW x \in heap', NEW y \in heap', x # y
        PROVE  ~Overlaps(x.addr, x.size, y.addr, y.size)
    <3>1. CASE x \in heap /\ y \in heap
      BY <2>2, <3>1 DEF HeapIsApart
    <3>2. CASE x = new /\ y \in heap
      BY <1>1, <3>2
    <3>3. CASE x \in heap /\ y = new
      BY <1>1, <1>2, <1>3, <3>3 DEF Overlaps
    <3> QED
      BY <1>1, <2>2, <3>1, <3>2, <3>3
  <2> QED
    BY <2>1, <2>2 DEF HeapIsApart
<1> QED
  BY <1>1, <1>2, <1>4, <1>5, <1>6, <1>7

(* What WritesStayInside says of a step *)
WriteIsInside ==
    pre_or_post = "POST" =>
        /\ \A a \in DOMAIN memory' :
              a \notin DOMAIN memory \/ memory'[a] # memory[a] =>
                  InAllocation(heap \cup heap', a, memory'[a].size)
        /\ \A a \in DOMAIN memory : a < ImageEnd => a \in DOMAIN memory'

(* Freeing allocations takes no blob out of the image.                     *)
LEMMA FreeIsInside ==
    ASSUME GetInv, NEW buffers, memory' = AfterFree(memory, buffers),
           pre_or_post = "POST" => buffers \subseteq heap
    PROVE  WriteIsInside
<1>1. SUFFICES ASSUME pre_or_post = "POST" PROVE WriteIsInside
  BY DEF WriteIsInside
<1>2. \A b \in buffers : b.addr \in Nat /\ b.addr > ImageEnd /\ b.size \in Nat
  BY <1>1, AllocationsApart DEF GetInv
<1>3. /\ DOMAIN memory' = {c \in DOMAIN memory : \A b \in buffers :
                               ~Overlaps(c, memory[c].size, b.addr, b.size)}
      /\ \A c \in DOMAIN memory' : memory'[c] = memory[c]
  BY AfterFreeIs
<1>4. \A c \in DOMAIN memory : c < ImageEnd => c + memory[c].size <= ImageEnd
  BY <1>1 DEF GetInv, ImageIsInside
<1>5. \A c \in DOMAIN memory : c \in Nat /\ memory[c].size \in Nat
  BY DEF GetInv, TypeOK, Blob
<1>6. ASSUME NEW c \in DOMAIN memory, c < ImageEnd
      PROVE  \A b \in buffers : ~Overlaps(c, memory[c].size, b.addr, b.size)
  BY <1>2, <1>4, <1>5, <1>6, ConstantsAreTyped DEF Overlaps
<1> QED
  BY <1>3, <1>6 DEF WriteIsInside

----------------------------------------------------------------------------
(* Every step keeps the invariant *)

(* A step that fails leaves everything to the exit; what the caller holds  *)
(* is still in memory.                                                     *)
LEMMA FailureKeeps ==
    ASSUME GetInv, pc # "idle", pc' = "exit",
           return_status' \notin {"NONE", "READ_BLOB_SIZE_MISMATCH"},
           UNCHANGED <<heap, arguments, choice, ptr, size, held, misfreed, refreed>>,
           DOMAIN memory' \subseteq DOMAIN memory,
           \A a \in DOMAIN memory' : memory'[a] = memory[a],
           \A h \in held : h.addr \in DOMAIN memory => h.addr \in DOMAIN memory'
    PROVE  GetInv'
<1>0. /\ heap' = heap /\ target' = target /\ pre_or_post' = pre_or_post
      /\ dtbs_image_size' = dtbs_image_size /\ dt_select_handle' = dt_select_handle
      /\ selected' = selected /\ total_blob_size' = total_blob_size /\ wanted' = wanted
      /\ ptr' = ptr /\ size' = size /\ held' = held /\ misfreed' = misfreed
  BY DEF arguments, choice
<1>1. TypeOK'
  <2>1. target \in {"XBL", "UEFI"}
    BY Modes DEF GetInv
  <2>2. pc' \in {"idle"} \cup {Steps'[i] : i \in DOMAIN Steps'}
    BY <1>0, <2>1, StepTyped
  <2>3. \A a \in DOMAIN memory' : a \in Nat /\ memory'[a] \in Blob
    BY DEF GetInv, TypeOK
  <2> QED
    BY <1>0, <2>2, <2>3 DEF GetInv, TypeOK
<1>2. HeapIsApart'
  BY <1>0 DEF GetInv, HeapIsApart
<1>3. HeapIsOwned'
  BY <1>0 DEF GetInv, HeapIsOwned, Handle, Buffer
<1>4. ModeDecides'
  BY <1>0 DEF GetInv, ModeDecides, ResultIsMalloced, Buffer
<1>5. StepDecides'
  BY <1>0 DEF GetInv, StepDecides, Unread, Working
<1>6. ImageIsInside'
  BY <1>0 DEF GetInv, ImageIsInside
<1>7. CallIsOnItsWay'
  BY DEF CallIsOnItsWay, Working
<1>8. UnmovedIsMerged'
  BY <1>0 DEF GetInv, UnmovedIsMerged, IsIntact
<1>9. ReadsFindBlobs'
  BY DEF ReadsFindBlobs
<1> QED
  BY <1>1, <1>2, <1>3, <1>4, <1>5, <1>6, <1>7, <1>8, <1>9 DEF GetInv

LEMMA OpenFailsKeeps ==
    ASSUME GetInv, OpenFails
    PROVE  GetInv'
<1>1. /\ pc = "open" /\ pc' = "exit" /\ return_status' = "SELECT" /\ memory' = memory
      /\ UNCHANGED <<heap, arguments, choice, ptr, size, held, misfreed, refreed>>
  BY DEF OpenFails, Fail
<1> QED
  BY <1>1, FailureKeeps

LEMMA ReadFailsKeeps ==
    ASSUME GetInv, NEW at, at # "idle", ReadFails(at)
    PROVE  GetInv'
<1>1. /\ pc = at /\ pc' = "exit" /\ return_status' = "MALLOC_FAIL" /\ memory' = memory
      /\ UNCHANGED <<heap, arguments, choice, ptr, size, held, misfreed, refreed>>
  BY DEF ReadFails, Fail
<1> QED
  BY <1>1, FailureKeeps

(* A merge happens at a step of its own. *)
LEMMA MergeAt ==
    ASSUME NEW type \in Overlays, pc = MergeStep[type]
    PROVE  /\ type \in BlobType /\ type # "BASE_DTB" /\ pc \in {"merge_soc", "merge_plat"}
           /\ type = "SOC_DTBO" => pc = "merge_soc"
           /\ type = "PLATFORM_DTBO" => pc = "merge_plat"
  BY DEF MergeStep, Overlays, BlobType

LEMMA MergeRefusedKeeps ==
    ASSUME GetInv, NEW type \in Overlays, MergeRefused(type)
    PROVE  GetInv'
<1>1. /\ pc = MergeStep[type] /\ pc' = "exit" /\ return_status' = MergeError(type)
      /\ memory' = memory /\ MergeError(type) # "NONE"
      /\ UNCHANGED <<heap, arguments, choice, ptr, size, held, misfreed, refreed>>
  BY DEF MergeRefused, Fail
<1>2. MergeError(type) # "READ_BLOB_SIZE_MISMATCH"
  BY Zenon DEF MergeError, BlobError
<1>3. pc # "idle"
  BY <1>1, MergeAt
<1> QED
  BY <1>1, <1>2, <1>3, FailureKeeps

LEMMA MergeFailsKeeps ==
    ASSUME GetInv, NEW type \in Overlays, MergeFails(type)
    PROVE  GetInv' /\ WriteIsInside
<1>1. /\ pc = MergeStep[type] /\ pc' = "exit"
      /\ UNCHANGED <<heap, arguments, choice, ptr, size, held, misfreed, refreed>>
      /\ return_status' \in {"OPEN_INTO", "OVERLAY_APPLY"}
      /\ \/ memory' = memory
         \/ memory' = [a \in DOMAIN memory \ {ptr["BASE_DTB"], ptr[type]} |-> memory[a]]
  BY DEF MergeFails, Fail
<1>2. pc # "idle" /\ type \in BlobType /\ "BASE_DTB" \in BlobType
  BY <1>1, MergeAt DEF BlobType
<1>3. DOMAIN memory' \subseteq DOMAIN memory /\ \A a \in DOMAIN memory' : memory'[a] = memory[a]
  BY <1>1
<1>4. \A h \in held : h.addr # ptr["BASE_DTB"] /\ h.addr # ptr[type]
  BY <1>2 DEF GetInv, HeapIsOwned
<1>5. \A h \in held : h.addr \in DOMAIN memory => h.addr \in DOMAIN memory'
  BY <1>1, <1>4
<1>6. WriteIsInside
  <2>1. SUFFICES ASSUME pre_or_post = "POST" PROVE WriteIsInside
    BY DEF WriteIsInside
  <2>2. \A t \in {"BASE_DTB", type} : ptr[t] # 0 => ptr[t] > ImageEnd
    <3>1. \A t \in {"BASE_DTB", type} : ptr[t] # 0 => Buffer(t) \in heap /\ Buffer(t).addr = ptr[t]
      BY <2>1 DEF GetInv, ModeDecides, HeapIsOwned, Buffer
    <3> QED
      BY <3>1, AllocationsApart DEF GetInv
  <2>3. \A a \in DOMAIN memory : a # 0
    BY DEF GetInv, ImageIsInside
  <2>4. ImageEnd \in Nat /\ ptr["BASE_DTB"] \in Nat /\ ptr[type] \in Nat
    BY <1>2, ConstantsAreTyped DEF GetInv, TypeOK
  <2>5. \A a \in DOMAIN memory : a < ImageEnd => a # ptr["BASE_DTB"] /\ a # ptr[type]
    BY <2>2, <2>3, <2>4
  <2>6. \A a \in DOMAIN memory : a < ImageEnd => a \in DOMAIN memory'
    BY <1>1, <2>5
  <2> QED
    BY <1>3, <2>6 DEF WriteIsInside
<1> QED
  BY <1>1, <1>2, <1>3, <1>5, <1>6, FailureKeeps

LEMMA CallKeeps ==
    ASSUME GetInv, NEW n \in ImageSizes, Call(n)
    PROVE  GetInv'
<1>0. /\ pc = "idle" /\ pc' = "open" /\ (pre_or_post = "PRE" => held = {})
      /\ ptr = Zeros /\ dt_select_handle = 0
      /\ heap' = heap /\ target' = target /\ pre_or_post' = pre_or_post /\ memory' = memory
      /\ held' = held /\ misfreed' = misfreed /\ return_status' = "NONE"
      /\ dtbs_image_size' = n /\ dt_select_handle' = 0 /\ selected' = Zeros /\ ptr' = Zeros
      /\ size' = Zeros /\ total_blob_size' = 0 /\ wanted' = Nothing
  BY DEF Call, GetInv, TypeOK
<1>a. Zeros \in [BlobType -> Nat] /\ \A t \in BlobType : Zeros[t] = 0
  BY DEF Zeros
<1>b. "BASE_DTB" \in BlobType /\ \A t \in Overlays : t \in BlobType
  BY DEF BlobType, Overlays
<1>1. TypeOK'
  <2>1. target \in {"XBL", "UEFI"}
    BY Modes DEF GetInv
  <2>2. pc' \in {"idle"} \cup {Steps'[i] : i \in DOMAIN Steps'}
    BY <1>0, <2>1, StepTyped
  <2>3. Nothing \in Blob
    BY EmptySeq DEF Nothing, Blob, BlobType
  <2> QED
    BY <1>0, <1>a, <2>2, <2>3 DEF GetInv, TypeOK
<1>2. HeapIsApart'
  BY <1>0 DEF GetInv, HeapIsApart
<1>3. HeapIsOwned'
  BY <1>0, <1>a, <1>b DEF GetInv, HeapIsOwned, Handle, Buffer
<1>4. ModeDecides'
  BY <1>0, <1>a, <1>b DEF GetInv, ModeDecides, ResultIsMalloced, Buffer
<1>5. StepDecides'
  BY <1>0, <1>a, <1>b DEF GetInv, StepDecides, Unread, Working
<1>6. ImageIsInside'
  BY <1>0 DEF GetInv, ImageIsInside
<1>7. CallIsOnItsWay'
  BY <1>0 DEF CallIsOnItsWay, Working
<1>8. UnmovedIsMerged'
  BY <1>0 DEF GetInv, UnmovedIsMerged, IsIntact
<1>9. ReadsFindBlobs'
  BY <1>0 DEF ReadsFindBlobs
<1> QED
  BY <1>1, <1>2, <1>3, <1>4, <1>5, <1>6, <1>7, <1>8, <1>9 DEF GetInv

LEMMA SkipStepKeeps ==
    ASSUME GetInv, SkipStep
    PROVE  GetInv'
<1>0. /\ heap' = heap /\ target' = target /\ pre_or_post' = pre_or_post /\ memory' = memory
      /\ dtbs_image_size' = dtbs_image_size /\ dt_select_handle' = dt_select_handle
      /\ selected' = selected /\ total_blob_size' = total_blob_size /\ wanted' = wanted
      /\ ptr' = ptr /\ size' = size /\ held' = held /\ misfreed' = misfreed
      /\ return_status' = return_status
  BY DEF SkipStep, arguments, choice
<1>m. /\ target \in {"XBL", "UEFI"} /\ pre_or_post \in {"PRE", "POST"}
      /\ pre_or_post = "PRE" => target = "XBL"
  BY Modes DEF GetInv
<1>p. /\ pc = "read_soc" => pc' = IF target = "XBL" THEN "read_plat" ELSE "merge_soc"
      /\ pc = "read_plat" => pc' = IF target = "XBL" THEN "move" ELSE "merge_plat"
      /\ pc = "move" => pc' = "merge_soc"
      /\ pc = "merge_soc" => pc' = IF target = "XBL" THEN "merge_plat" ELSE "read_plat"
      /\ pc = "merge_plat" => pc' = "exit"
  BY NextStep DEF GetInv, SkipStep
<1>s. \/ pc \in {"read_soc", "merge_soc"} /\ size["SOC_DTBO"] = 0
      \/ pc \in {"read_plat", "merge_plat"} /\ size["PLATFORM_DTBO"] = 0
      \/ pc = "move" /\ target = "XBL" /\ (pre_or_post = "POST" \/ ptr["BASE_DTB"] = Start)
  <2>1. pc = "move" => target = "XBL"
    BY Modes DEF GetInv
  <2> QED
    BY <2>1 DEF SkipStep, Overlays, BlobType, ReadStep, MergeStep
<1>b. "BASE_DTB" \in BlobType /\ Overlays = {"SOC_DTBO", "PLATFORM_DTBO"}
      /\ BlobType = {"BASE_DTB", "SOC_DTBO", "PLATFORM_DTBO"}
  BY DEF BlobType, Overlays
<1>d. \A t \in Overlays : Done(t)' <=> Done(t)
  BY <1>0, <1>m, <1>p, <1>s, <1>b DEF Done
<1>u. /\ ~Unread("BASE_DTB") /\ ~Unread("BASE_DTB")'
      /\ \A t \in Overlays : Unread(t)' => Unread(t)
      /\ \A t \in Overlays : ~Done(t) => (Unread(t)' <=> Unread(t))
  BY <1>0, <1>m, <1>p, <1>s, <1>b DEF Done, Unread
<1>w. Working' <=> Working
  BY <1>0, <1>m, <1>p, <1>s DEF Working
<1>1. TypeOK'
  <2>2. pc' \in {"idle"} \cup {Steps'[i] : i \in DOMAIN Steps'}
    BY <1>0, <1>m, <1>p, <1>s, StepTyped
  <2>3. pc' # "idle"
    BY <1>m, <1>p, <1>s
  <2> QED
    BY <1>0, <2>2, <2>3 DEF GetInv, TypeOK
<1>2. HeapIsApart'
  BY <1>0 DEF GetInv, HeapIsApart
<1>3. HeapIsOwned'
  BY <1>0 DEF GetInv, HeapIsOwned, Handle, Buffer
<1>4. ModeDecides'
  <2>1. pc # "idle"
    BY <1>s
  <2> QED
    BY <1>0, <2>1 DEF GetInv, ModeDecides, ResultIsMalloced, Buffer
<1>5. StepDecides'
  <2>1. pc \notin {"idle", "exit", "open"} /\ pc' \notin {"idle", "open"}
    BY <1>s, <1>p, <1>m
  <2>2. \A t \in BlobType : Unread(t)' => ptr'[t] = 0
    BY <1>0, <1>b, <1>u DEF GetInv, StepDecides
  <2>3. Working' => ptr'["BASE_DTB"] # 0 /\ \A t \in Overlays : Done(t)' => ptr'[t] = 0
    BY <1>0, <1>d, <1>u, <1>w DEF GetInv, StepDecides
  <2> QED
    BY <1>0, <2>1, <2>2, <2>3 DEF GetInv, StepDecides
<1>6. ImageIsInside'
  <2>1. pc \in {"merge_soc", "merge_plat", "exit"} => pc' \in {"merge_soc", "merge_plat", "exit"}
        \/ target = "UEFI"
    BY <1>s, <1>p, <1>m
  <2> QED
    BY <1>0, <1>m, <2>1 DEF GetInv, ImageIsInside
<1>7. CallIsOnItsWay'
  <2>1. SUFFICES ASSUME Working', Unmoved'
                 PROVE  CallIsOnItsWay'
    BY DEF CallIsOnItsWay
  <2>2. Working /\ Unmoved
    BY <1>0, <1>w, <1>s, <1>p, <1>m, <2>1 DEF Unmoved
  <2>3. /\ Source("BASE_DTB")' = Source("BASE_DTB") /\ Source("BASE_DTB") = ptr["BASE_DTB"]
        /\ \A t \in Overlays : ~Done(t) => Source(t)' = Source(t)
        /\ Current' = Current
    BY <1>0, <1>u DEF Source, Current
  <2>4. SourceIsThere("BASE_DTB")'
    BY <1>0, <1>u, <2>2, <2>3 DEF GetInv, CallIsOnItsWay, SourceIsThere
  <2>5. \A t \in Overlays : ~Done(t)' => SourceIsThere(t)' /\ memory'[Source(t)'] = memory[Source(t)]
                                         /\ memory[Source(t)].size = size[t]
    BY <1>0, <1>d, <1>u, <2>2, <2>3 DEF GetInv, CallIsOnItsWay, SourceIsThere
  <2>6. \A t \in Overlays : Pending(t)' = Pending(t)
    BY <1>d, <2>5, <1>0, <2>3, Zenon DEF Pending
  <2>7. Current'.size = IF pc' = "exit" THEN total_blob_size' ELSE size'["BASE_DTB"]
    <3>1. size \in [BlobType -> Nat]
      BY DEF GetInv, TypeOK
    <3>2. pc # "exit"
      BY <1>s
    <3>3. CASE pc' = "exit"
      <4>1. pc = "merge_plat" /\ size["PLATFORM_DTBO"] = 0
        BY <1>p, <1>s, <1>m, <3>3
      <4>2. Done("SOC_DTBO")
        BY <4>1 DEF Done
      <4>3. /\ Current.size = size["BASE_DTB"]
            /\ total_blob_size = size["BASE_DTB"] + size["PLATFORM_DTBO"] + 0
        BY <3>2, <4>2, <2>2 DEF GetInv, CallIsOnItsWay
      <4> QED
        BY <1>0, <1>b, <2>3, <3>1, <3>3, <4>1, <4>3
    <3>4. CASE pc' # "exit"
      BY <1>0, <2>2, <2>3, <3>2, <3>4 DEF GetInv, CallIsOnItsWay
    <3> QED
      BY <3>3, <3>4
  <2>8. total_blob_size' = size'["BASE_DTB"] + size'["PLATFORM_DTBO"]
                              + IF Done("SOC_DTBO")' THEN 0 ELSE size'["SOC_DTBO"]
    BY <1>0, <1>d, <1>b, <2>2 DEF GetInv, CallIsOnItsWay
  <2>9. wanted' = [type |-> Current'.type, size |-> total_blob_size',
                   origin |-> Current'.origin,
                   parts |-> (Current'.parts \o Pending("SOC_DTBO")') \o Pending("PLATFORM_DTBO")']
    BY <1>0, <1>b, <2>2, <2>3, <2>6 DEF GetInv, CallIsOnItsWay
  <2>10. pre_or_post' = "PRE" /\ selected'["BASE_DTB"] = Start =>
            Start + total_blob_size' <= ImageEnd
    BY <1>0, <2>2 DEF GetInv, CallIsOnItsWay
  <2>11. \A t \in Overlays : ~Done(t)' => SourceIsThere(t)' /\ memory'[Source(t)'].size = size'[t]
    BY <2>5, <1>0
  <2> QED
    BY <2>4, <2>7, <2>8, <2>9, <2>10, <2>11 DEF CallIsOnItsWay
<1>8. UnmovedIsMerged'
  BY <1>0 DEF GetInv, UnmovedIsMerged, IsIntact
<1>9. ReadsFindBlobs'
  BY <1>0 DEF GetInv, ReadsFindBlobs
<1> QED
  BY <1>1, <1>2, <1>3, <1>4, <1>5, <1>6, <1>7, <1>8, <1>9 DEF GetInv

(* Freeing buffers takes their blobs out of memory, and nothing else.      *)
LEMMA FreeTakes ==
    ASSUME GetInv, NEW buffers, Free(buffers)
    PROVE  /\ heap' = {x \in heap : \A b \in buffers : b.addr # x.addr}
           /\ HeapIsApart'
           /\ buffers \subseteq heap /\ ~misfreed => ~misfreed'
<1>1. heap' = {x \in heap : \A b \in buffers : b.addr # x.addr}
  BY DEF Free
<1>2. HeapIsApart'
  BY <1>1 DEF GetInv, HeapIsApart
<1>3. ASSUME buffers \subseteq heap, ~misfreed
      PROVE  ~misfreed'
  <2>1. \A b \in buffers : FreeMatches(b)
    BY <1>3 DEF FreeMatches
  <2> QED
    BY <1>3, <2>1, Zenon DEF Free
<1> QED
  BY <1>1, <1>2, <1>3

LEMMA FreeWipes ==
    ASSUME GetInv, NEW buffers, memory' = AfterFree(memory, buffers)
    PROVE  /\ DOMAIN memory' \subseteq DOMAIN memory
           /\ \A a \in DOMAIN memory' : memory'[a] = memory[a]
           /\ \A a \in DOMAIN memory :
                 (\A b \in buffers : ~Overlaps(a, memory[a].size, b.addr, b.size))
                    => a \in DOMAIN memory'
           /\ \A b \in buffers : b.addr \in Nat /\ b.size \in Nat \ {0} => b.addr \notin DOMAIN memory'
<1>2. /\ DOMAIN memory' = {c \in DOMAIN memory : \A b \in buffers :
                                 ~Overlaps(c, memory[c].size, b.addr, b.size)}
      /\ \A c \in DOMAIN memory' : memory'[c] = memory[c]
  BY AfterFreeIs
<1>3. ASSUME NEW b \in buffers, b.addr \in Nat, b.size \in Nat \ {0}
      PROVE  b.addr \notin DOMAIN memory'
  <2>1. SUFFICES ASSUME b.addr \in DOMAIN memory
                 PROVE  Overlaps(b.addr, memory[b.addr].size, b.addr, b.size)
    BY <1>2
  <2>2. memory[b.addr].size \in Nat \ {0}
    BY <2>1 DEF GetInv, TypeOK, ImageIsInside, Blob
  <2> QED
    BY <1>3, <2>2 DEF Overlaps
<1> QED
  BY <1>2, <1>3

(* In POST mode every buffer the call holds is an allocation; and in both  *)
(* modes each has a size.                                                  *)
LEMMA BuffersAreAllocated ==
    ASSUME GetInv
    PROVE  /\ \A b \in Buffers : \E t \in BlobType : b = Buffer(t) /\ b.addr = ptr[t] /\ ptr[t] # 0
           /\ \A t \in BlobType : ptr[t] # 0 => Buffer(t) \in Buffers /\ Buffer(t).addr = ptr[t]
           /\ pre_or_post = "POST" => Buffers \subseteq heap
           /\ \A b \in Buffers : b.addr \in Nat /\ b.size \in Nat \ {0}
<1>1. /\ \A b \in Buffers : \E t \in BlobType : b = Buffer(t) /\ b.addr = ptr[t] /\ ptr[t] # 0
      /\ \A t \in BlobType : ptr[t] # 0 => Buffer(t) \in Buffers /\ Buffer(t).addr = ptr[t]
  BY DEF Buffers, Buffer
<1>2. BlobType = Overlays \cup {"BASE_DTB"} /\ "BASE_DTB" \notin Overlays
  BY DEF BlobType, Overlays
<1>3. pre_or_post = "POST" => Buffers \subseteq heap
  BY <1>1, <1>2 DEF GetInv, HeapIsOwned, ModeDecides
<1>4. ASSUME NEW b \in Buffers PROVE b.addr \in Nat /\ b.size \in Nat \ {0}
  <2>1. PICK t \in BlobType : b = Buffer(t) /\ b.addr = ptr[t] /\ ptr[t] # 0
    BY <1>1
  <2>2. CASE t = "BASE_DTB"
    <3>1. b.size = total_blob_size /\ total_blob_size # 0
      BY <2>1, <2>2 DEF Buffer, GetInv, StepDecides
    <3> QED
      BY <2>1, <3>1 DEF GetInv, TypeOK
  <2>3. CASE t \in Overlays
    <3>1. b \in heap
      BY <2>1, <2>3 DEF GetInv, HeapIsOwned
    <3> QED
      BY <3>1, AllocationsApart DEF GetInv
  <2> QED
    BY <1>2, <2>2, <2>3
<1> QED
  BY <1>1, <1>3, <1>4

(* In POST mode a result that is not freed stays in memory. *)
LEMMA ResultsStay ==
    ASSUME GetInv, pre_or_post = "POST", NEW buffers, memory' = AfterFree(memory, buffers),
           buffers \subseteq heap, NEW h \in held, \A b \in buffers : b.addr # h.addr
    PROVE  h.addr \in DOMAIN memory' /\ memory'[h.addr] = memory[h.addr]
<1> DEFINE y == [addr |-> h.addr, size |-> h.size]
<1>1. y \in heap /\ y.addr = h.addr /\ y.size = h.size
  BY DEF GetInv, ModeDecides, ResultIsMalloced
<1>2. h.addr \in DOMAIN memory /\ memory[h.addr] = h.wanted /\ h.size = h.wanted.size
  BY DEF GetInv, UnmovedIsMerged, IsIntact
<1>3. ASSUME NEW b \in buffers
      PROVE  ~Overlaps(h.addr, memory[h.addr].size, b.addr, b.size)
  <2>1. b \in heap /\ b.addr # y.addr
    BY <1>1
  <2>2. b.size \in Nat /\ y.size \in Nat
    BY <1>1, <2>1, AllocationsApart DEF GetInv
  <2>3. ~Overlaps(y.addr, y.size, b.addr, b.size)
    BY <1>1, <2>1, <2>2, AllocationsApart DEF GetInv
  <2> QED
    BY <1>1, <1>2, <2>3
<1> QED
  BY <1>2, <1>3, FreeWipes

(* What is freed is an allocation the call made, or the base DTB where it  *)
(* is in the image.                                                        *)
LEMMA ReturnErrorKeeps ==
    ASSUME GetInv, ReturnError
    PROVE  GetInv' /\ WriteIsInside
<1> DEFINE Freed == Buffers \cup Handle
<1>0. /\ pc = "exit" /\ return_status # "NONE" /\ pc' = "idle" /\ dt_select_handle' = 0
      /\ ptr' = Zeros /\ target' = target /\ pre_or_post' = pre_or_post
      /\ dtbs_image_size' = dtbs_image_size /\ selected' = selected
      /\ total_blob_size' = total_blob_size /\ wanted' = wanted /\ size' = size
      /\ return_status' = return_status /\ held' = held
      /\ memory' = AfterFree(memory, Buffers) /\ Free(Freed)
  BY DEF ReturnError, arguments
<1>a. Zeros \in [BlobType -> Nat] /\ \A t \in BlobType : Zeros[t] = 0
  BY DEF Zeros
<1>b. "BASE_DTB" \in BlobType /\ \A t \in Overlays : t \in BlobType
  BY DEF BlobType, Overlays
<1>f. /\ heap' = {x \in heap : \A b \in Freed : b.addr # x.addr} /\ HeapIsApart'
      /\ Freed \subseteq heap /\ ~misfreed => ~misfreed'
  BY <1>0, FreeTakes
<1>w. /\ DOMAIN memory' \subseteq DOMAIN memory /\ \A a \in DOMAIN memory' : memory'[a] = memory[a]
      /\ \A b \in Buffers : b.addr \notin DOMAIN memory'
  BY <1>0, FreeWipes, BuffersAreAllocated
<1>h. /\ Handle \subseteq heap
      /\ dt_select_handle # 0 => \E b \in Handle : b.addr = dt_select_handle
      /\ \A b \in Handle : b.addr = dt_select_handle
  BY DEF GetInv, HeapIsOwned, Handle
<1>x. pre_or_post \in {"PRE", "POST"} /\ target \in {"XBL", "UEFI"}
      /\ (pre_or_post = "PRE" => held = {})
  BY <1>0, Modes DEF GetInv, ModeDecides
<1>1. TypeOK'
  <2>1. \A a \in DOMAIN memory' : a \in Nat /\ memory'[a] \in Blob
    BY <1>w DEF GetInv, TypeOK
  <2>2. heap' \subseteq [addr : HeapSlots, size : Nat]
    BY <1>f DEF GetInv, TypeOK
  <2> QED
    BY <1>0, <1>a, <2>1, <2>2 DEF GetInv, TypeOK
<1>3. HeapIsOwned'
  <2>1. ASSUME NEW x \in heap' PROVE \E h \in held : x.addr = h.addr
    <3>1. x \in heap /\ \A b \in Freed : b.addr # x.addr
      BY <1>f
    <3>2. x.addr # 0
      BY <3>1, AllocationsApart, ConstantsAreTyped DEF GetInv
    <3>3. x.addr # dt_select_handle
      BY <1>h, <3>1, <3>2
    <3>4. \A t \in BlobType : x.addr # ptr[t]
      BY <3>1, <3>2, BuffersAreAllocated
    <3> QED
      BY <3>1, <3>3, <3>4 DEF GetInv, HeapIsOwned
  <2>2. \A h \in held : h.addr # 0 /\ h.size # 0
    BY DEF GetInv, HeapIsOwned
  <2>3. \A g, h \in held : g.addr = h.addr => g = h
    BY DEF GetInv, HeapIsOwned
  <2>4. Handle' = {}
    BY <1>0 DEF Handle
  <2> QED
    BY <1>0, <1>a, <1>b, <2>1, <2>2, <2>3, <2>4 DEF HeapIsOwned
<1>y. \A h \in held : \A b \in Freed : b.addr # h.addr
  BY <1>h, BuffersAreAllocated DEF GetInv, HeapIsOwned
<1>4. ModeDecides'
  <2>1. ASSUME pre_or_post = "POST" PROVE ResultIsMalloced' /\ ~misfreed'
    <3>1. Freed \subseteq heap /\ ~misfreed /\ ResultIsMalloced
      BY <1>h, <2>1, BuffersAreAllocated DEF GetInv, ModeDecides
    <3>2. \A h \in held : [addr |-> h.addr, size |-> h.size] \in heap'
      BY <1>f, <1>y, <3>1 DEF ResultIsMalloced
    <3> QED
      BY <1>0, <1>f, <3>1, <3>2 DEF ResultIsMalloced
  <2> QED
    BY <1>0, <1>a, <1>b, <1>x, <2>1 DEF ModeDecides
<1>5. StepDecides'
  BY <1>0, <1>a, <1>b DEF StepDecides, Working
<1>6. ImageIsInside'
  <2>1. ASSUME NEW a \in DOMAIN memory', a < ImageEnd
        PROVE  a + memory'[a].size <= ImageEnd
    <3>1. a # ptr["BASE_DTB"]
      <4>1. a # 0
        BY <1>w DEF GetInv, ImageIsInside
      <4> QED
        BY <4>1, <1>b, <1>w, BuffersAreAllocated
    <3> QED
      BY <1>w, <1>x, <2>1, <3>1 DEF GetInv, ImageIsInside
  <2> QED
    BY <1>w, <2>1 DEF GetInv, ImageIsInside
<1>8. UnmovedIsMerged'
  <2>1. SUFFICES ASSUME NEW h \in held, pre_or_post = "POST" PROVE IsIntact(h)'
    BY <1>0, <1>x DEF UnmovedIsMerged
  <2>2. IsIntact(h)
    BY <2>1 DEF GetInv, UnmovedIsMerged
  <2>3. h.addr \in DOMAIN memory' /\ memory'[h.addr] = memory[h.addr]
    BY <1>0, <1>y, <2>1, BuffersAreAllocated, ResultsStay
  <2> QED
    BY <2>2, <2>3 DEF IsIntact
<1>7. CallIsOnItsWay'
  BY <1>0 DEF CallIsOnItsWay, Working
<1>9. ReadsFindBlobs'
  BY <1>0 DEF GetInv, ReadsFindBlobs
<1>10. WriteIsInside
  BY <1>0, BuffersAreAllocated, FreeIsInside
<1> QED
  BY <1>1, <1>f, <1>3, <1>4, <1>5, <1>6, <1>7, <1>8, <1>9, <1>10 DEF GetInv

(* The caller gets what the call was for: at the exit nothing is left to   *)
(* be merged.                                                              *)
LEMMA ReturnResultKeeps ==
    ASSUME GetInv, ReturnResult
    PROVE  GetInv'
<1> DEFINE new == [addr |-> ptr["BASE_DTB"], size |-> total_blob_size, wanted |-> wanted]
<1>0. /\ pc = "exit" /\ return_status = "NONE" /\ pc' = "idle" /\ dt_select_handle' = 0
      /\ ptr' = Zeros /\ target' = target /\ pre_or_post' = pre_or_post
      /\ dtbs_image_size' = dtbs_image_size /\ selected' = selected
      /\ total_blob_size' = total_blob_size /\ wanted' = wanted /\ size' = size
      /\ return_status' = return_status /\ held' = held \cup {new}
      /\ memory' = memory /\ Free(Handle)
  BY DEF ReturnResult, arguments
<1>a. Zeros \in [BlobType -> Nat] /\ \A t \in BlobType : Zeros[t] = 0
  BY DEF Zeros
<1>b. /\ "BASE_DTB" \in BlobType /\ \A t \in Overlays : t \in BlobType
      /\ BlobType = Overlays \cup {"BASE_DTB"} /\ Overlays = {"SOC_DTBO", "PLATFORM_DTBO"}
  BY DEF BlobType, Overlays
<1>f. /\ heap' = {x \in heap : \A b \in Handle : b.addr # x.addr} /\ HeapIsApart'
      /\ Handle \subseteq heap /\ ~misfreed => ~misfreed'
  BY <1>0, FreeTakes
<1>h. /\ Handle \subseteq heap
      /\ dt_select_handle # 0 => \E b \in Handle : b.addr = dt_select_handle
      /\ \A b \in Handle : b.addr = dt_select_handle /\ b.addr # 0
  BY DEF GetInv, HeapIsOwned, Handle
<1>x. pre_or_post \in {"PRE", "POST"} /\ (pre_or_post = "PRE" => held = {})
  BY <1>0, Modes DEF GetInv, ModeDecides
<1>w. Working /\ ~Unread("BASE_DTB") /\ \A t \in Overlays : Done(t) /\ ~Unread(t)
  BY <1>0, <1>b DEF Working, Unread, Done
<1>p. ptr["BASE_DTB"] # 0 /\ total_blob_size # 0 /\ \A t \in Overlays : ptr[t] = 0
  BY <1>w DEF GetInv, StepDecides
<1>n. new.addr = ptr["BASE_DTB"] /\ new.size = total_blob_size /\ new.wanted = wanted
  OBVIOUS
<1> HIDE DEF new
<1>1. TypeOK'
  <2>1. new \in [addr : Nat, size : Nat, wanted : Blob]
    BY <1>b DEF GetInv, TypeOK, new
  <2>2. heap' \subseteq [addr : HeapSlots, size : Nat]
    BY <1>f DEF GetInv, TypeOK
  <2> QED
    BY <1>0, <1>a, <2>1, <2>2 DEF GetInv, TypeOK
<1>k. ptr["BASE_DTB"] # dt_select_handle /\ \A h \in held : h.addr # ptr["BASE_DTB"]
  BY <1>b, <1>p DEF GetInv, HeapIsOwned
<1>3. HeapIsOwned'
  <2>1. ASSUME NEW x \in heap' PROVE \E h \in held' : x.addr = h.addr
    <3>1. x \in heap /\ \A b \in Handle : b.addr # x.addr
      BY <1>f
    <3>2. x.addr # 0
      BY <3>1, AllocationsApart, ConstantsAreTyped DEF GetInv
    <3>3. x.addr # dt_select_handle
      BY <1>h, <3>1, <3>2
    <3>4. \A t \in BlobType : x.addr = ptr[t] => x.addr = new.addr
      <4>1. \A t \in BlobType : t = "BASE_DTB" \/ ptr[t] = 0
        BY <1>b, <1>p
      <4> QED
        BY <1>n, <3>2, <4>1
    <3> QED
      BY <1>0, <3>1, <3>3, <3>4 DEF GetInv, HeapIsOwned
  <2>2. \A h \in held' : h.addr # 0 /\ h.size # 0
    BY <1>0, <1>n, <1>p DEF GetInv, HeapIsOwned
  <2>3. \A g, h \in held' : g.addr = h.addr => g = h
    BY <1>0, <1>n, <1>k DEF GetInv, HeapIsOwned
  <2>4. Handle' = {}
    BY <1>0 DEF Handle
  <2> QED
    BY <1>0, <1>a, <1>b, <2>1, <2>2, <2>3, <2>4 DEF HeapIsOwned
<1>4. ModeDecides'
  <2>1. ASSUME pre_or_post = "POST" PROVE ResultIsMalloced' /\ ~misfreed'
    <3>1. /\ ~misfreed /\ ResultIsMalloced /\ Buffer("BASE_DTB") \in heap
      BY <1>p, <2>1 DEF GetInv, ModeDecides
    <3>2. \A h \in held : [addr |-> h.addr, size |-> h.size] \in heap'
      <4>1. \A h \in held : h.addr # dt_select_handle
        BY DEF GetInv, HeapIsOwned
      <4> QED
        BY <1>f, <1>h, <3>1, <4>1 DEF ResultIsMalloced
    <3>3. [addr |-> new.addr, size |-> new.size] \in heap'
      <4>1. Buffer("BASE_DTB") = [addr |-> new.addr, size |-> new.size]
        BY <1>n DEF Buffer
      <4> QED
        BY <1>f, <1>h, <1>k, <1>n, <3>1, <4>1
    <3> QED
      BY <1>0, <1>f, <1>h, <3>1, <3>2, <3>3 DEF ResultIsMalloced
  <2>2. ASSUME pre_or_post = "PRE" PROVE held' = {new} /\ new.addr \in Start..(ImageEnd - 1)
    BY <1>0, <1>n, <1>p, <1>x, <2>2 DEF GetInv, ModeDecides
  <2> QED
    BY <1>0, <1>a, <1>b, <1>x, <2>1, <2>2 DEF ModeDecides
<1>5. StepDecides'
  BY <1>0, <1>a, <1>b DEF StepDecides, Working
<1>6. ImageIsInside'
  <2>1. \A a \in DOMAIN memory' : a # 0 /\ a # ImageEnd /\ memory'[a].size # 0
    BY <1>0 DEF GetInv, ImageIsInside
  <2>2. ASSUME NEW a \in DOMAIN memory', a < ImageEnd
        PROVE  \/ a + memory'[a].size <= ImageEnd
               \/ pre_or_post' = "PRE" /\ \E h \in held' : a = h.addr
    BY <1>0, <1>n, <2>2 DEF GetInv, ImageIsInside
  <2> QED
    BY <2>1, <2>2 DEF ImageIsInside
<1>8. UnmovedIsMerged'
  <2>1. SUFFICES ASSUME NEW h \in held', pre_or_post' = "POST" \/ h.addr = Start PROVE IsIntact(h)'
    BY <1>0 DEF UnmovedIsMerged
  <2>2. CASE h \in held
    BY <1>0, <2>1, <2>2 DEF GetInv, UnmovedIsMerged, IsIntact
  <2>3. CASE h = new
    <3>1. Unmoved
      <4>1. CASE pre_or_post = "POST"
        BY <4>1 DEF Unmoved
      <4>2. CASE pre_or_post = "PRE"
        <5>1. ptr["BASE_DTB"] = selected["BASE_DTB"]
          BY <1>p, <4>2 DEF GetInv, ModeDecides
        <5>2. ptr["BASE_DTB"] = Start
          BY <1>0, <1>n, <2>1, <2>3, <4>2
        <5> QED
          BY <5>1, <5>2 DEF Unmoved
      <4> QED
        BY <1>x, <4>1, <4>2
    <3>2. /\ SourceIsThere("BASE_DTB") /\ Current.size = total_blob_size
          /\ wanted = [type |-> Current.type, size |-> total_blob_size, origin |-> Current.origin,
                  parts |-> (Current.parts \o Pending("SOC_DTBO")) \o Pending("PLATFORM_DTBO")]
      BY <1>0, <1>w, <3>1 DEF GetInv, CallIsOnItsWay
    <3>3. Source("BASE_DTB") = new.addr
      BY <1>n, <1>w DEF Source
    <3>4. new.addr \in DOMAIN memory /\ Current = memory[new.addr] /\ Current \in Blob
      BY <3>2, <3>3 DEF SourceIsThere, Current, GetInv, TypeOK
    <3>5. Pending("SOC_DTBO") = << >> /\ Pending("PLATFORM_DTBO") = << >>
      <4>1. Done("SOC_DTBO") /\ Done("PLATFORM_DTBO")
        BY <1>b, <1>w
      <4> QED
        BY <4>1, Zenon DEF Pending
    <3>6. (Current.parts \o Pending("SOC_DTBO")) \o Pending("PLATFORM_DTBO") = Current.parts
      <4>1. Current.parts \in Seq(Nat)
        BY <3>4 DEF Blob
      <4> QED
        BY <3>5, <4>1, ConcatEmptySeq
    <3>7. wanted = Current
      BY <3>2, <3>4, <3>6 DEF Blob
    <3>8. memory[new.addr] = new.wanted /\ new.size = new.wanted.size
      BY <1>n, <3>2, <3>4, <3>7
    <3> QED
      BY <1>0, <2>3, <3>4, <3>8 DEF IsIntact
  <2> QED
    BY <1>0, <2>2, <2>3
<1>7. CallIsOnItsWay'
  BY <1>0 DEF CallIsOnItsWay, Working
<1>9. ReadsFindBlobs'
  BY <1>0 DEF GetInv, ReadsFindBlobs
<1> QED
  BY <1>1, <1>f, <1>3, <1>4, <1>5, <1>6, <1>7, <1>8, <1>9 DEF GetInv

LEMMA get_dt_freeKeeps ==
    ASSUME GetInv, NEW h \in held, get_dt_free(h)
    PROVE  GetInv' /\ WriteIsInside
<1> DEFINE buffer == [addr |-> h.addr, size |-> h.size]
<1>0. /\ pc = "idle" /\ pc' = pc /\ dt_select_handle' = dt_select_handle
      /\ ptr' = ptr /\ target' = target /\ pre_or_post' = pre_or_post
      /\ dtbs_image_size' = dtbs_image_size /\ selected' = selected
      /\ total_blob_size' = total_blob_size /\ wanted' = wanted /\ size' = size
      /\ return_status' = return_status /\ held' = held \ {h}
      /\ memory' = AfterFree(memory, {buffer}) /\ Free({buffer})
  BY DEF get_dt_free, arguments, choice
<1>a. ptr = Zeros /\ dt_select_handle = 0 /\ \A t \in BlobType : ptr[t] = 0
  BY <1>0 DEF Zeros, GetInv, TypeOK
<1>b. "BASE_DTB" \in BlobType /\ \A t \in Overlays : t \in BlobType
  BY DEF BlobType, Overlays
<1>f. /\ heap' = {x \in heap : x.addr # h.addr} /\ HeapIsApart'
      /\ buffer \in heap /\ ~misfreed => ~misfreed'
  BY <1>0, FreeTakes
<1>w. /\ DOMAIN memory' \subseteq DOMAIN memory /\ \A a \in DOMAIN memory' : memory'[a] = memory[a]
      /\ h.addr \notin DOMAIN memory'
  <2>1. h.addr \in Nat /\ h.size \in Nat \ {0}
    BY DEF GetInv, TypeOK, HeapIsOwned
  <2> QED
    BY <1>0, <2>1, FreeWipes
<1>x. pre_or_post \in {"PRE", "POST"} /\ (pre_or_post = "PRE" => held' = {})
  BY <1>0, Modes DEF GetInv, ModeDecides
<1>y. \A g \in held' : g \in held /\ g.addr # h.addr
  BY <1>0 DEF GetInv, HeapIsOwned
<1>1. TypeOK'
  <2>1. \A a \in DOMAIN memory' : a \in Nat /\ memory'[a] \in Blob
    BY <1>w DEF GetInv, TypeOK
  <2>2. heap' \subseteq [addr : HeapSlots, size : Nat]
    BY <1>f DEF GetInv, TypeOK
  <2>3. Steps' = Steps
    BY <1>0 DEF Steps
  <2>4. held' \subseteq [addr : Nat, size : Nat, wanted : Blob]
    BY <1>y DEF GetInv, TypeOK
  <2>5. Zeros' = Zeros
    BY DEF Zeros
  <2> QED
    BY <1>0, <1>a, <2>1, <2>2, <2>3, <2>4, <2>5 DEF GetInv, TypeOK
<1>3. HeapIsOwned'
  <2>1. ASSUME NEW x \in heap' PROVE \E g \in held' : x.addr = g.addr
    <3>1. x \in heap /\ x.addr # h.addr
      BY <1>f
    <3>2. x.addr # 0
      BY <3>1, AllocationsApart, ConstantsAreTyped DEF GetInv
    <3> QED
      BY <1>0, <1>a, <3>1, <3>2 DEF GetInv, HeapIsOwned
  <2>2. Handle' = {}
    BY <1>0, <1>a DEF Handle
  <2>3. \A g \in held' : g.addr # 0 /\ g.size # 0
    BY <1>y DEF GetInv, HeapIsOwned
  <2>4. \A g, k \in held' : g.addr = k.addr => g = k
    BY <1>y DEF GetInv, HeapIsOwned
  <2> QED
    BY <1>0, <1>a, <1>b, <2>1, <2>2, <2>3, <2>4 DEF HeapIsOwned
<1>4. ModeDecides'
  <2>1. ASSUME pre_or_post = "POST" PROVE ResultIsMalloced' /\ ~misfreed'
    <3>1. buffer \in heap /\ ~misfreed /\ ResultIsMalloced
      BY <2>1 DEF GetInv, ModeDecides, ResultIsMalloced
    <3> QED
      BY <1>f, <1>y, <3>1 DEF ResultIsMalloced
  <2> QED
    BY <1>0, <1>a, <1>b, <1>x, <2>1 DEF ModeDecides
<1>5. StepDecides'
  BY <1>0, <1>a, <1>b DEF StepDecides, Working
<1>6. ImageIsInside'
  <2>1. ASSUME NEW a \in DOMAIN memory', a < ImageEnd
        PROVE  a + memory'[a].size <= ImageEnd
    <3>1. a # h.addr /\ a \in DOMAIN memory
      BY <1>w
    <3>2. pre_or_post = "PRE" => held = {h}
      BY DEF GetInv, ModeDecides
    <3> QED
      BY <1>0, <1>w, <2>1, <3>1, <3>2 DEF GetInv, ImageIsInside
  <2> QED
    BY <1>w, <2>1 DEF GetInv, ImageIsInside
<1>8. UnmovedIsMerged'
  <2>1. SUFFICES ASSUME NEW g \in held', pre_or_post = "POST" PROVE IsIntact(g)'
    BY <1>0, <1>x DEF UnmovedIsMerged
  <2>2. IsIntact(g)
    BY <1>y, <2>1 DEF GetInv, UnmovedIsMerged
  <2>3. g.addr \in DOMAIN memory' /\ memory'[g.addr] = memory[g.addr]
    <3>1. buffer \in heap
      BY <2>1 DEF GetInv, ModeDecides, ResultIsMalloced
    <3> QED
      BY <1>0, <1>y, <2>1, <3>1, ResultsStay
  <2> QED
    BY <2>2, <2>3 DEF IsIntact
<1>7. CallIsOnItsWay'
  BY <1>0 DEF CallIsOnItsWay, Working
<1>9. ReadsFindBlobs'
  BY <1>0 DEF GetInv, ReadsFindBlobs
<1>10. WriteIsInside
  <2>1. pre_or_post = "POST" => {buffer} \subseteq heap
    BY DEF GetInv, ModeDecides, ResultIsMalloced
  <2> QED
    BY <1>0, <2>1, FreeIsInside
<1> QED
  BY <1>1, <1>f, <1>3, <1>4, <1>5, <1>6, <1>7, <1>8, <1>9, <1>10 DEF GetInv

(* While nothing has been merged yet, every blob that starts in the image  *)
(* ends in it.                                                             *)
LEMMA ImageIsWhole ==
    ASSUME GetInv, pc \in {"open", "read_base", "read_soc", "read_plat", "move"} \/ pre_or_post = "POST"
    PROVE  \A c \in DOMAIN memory : c < ImageEnd => c + memory[c].size <= ImageEnd
<1>1. pre_or_post = "PRE" => held = {} /\ pc \notin {"merge_soc", "merge_plat", "exit"}
  BY DEF GetInv, ModeDecides
<1>2. ASSUME NEW c \in DOMAIN memory, c < ImageEnd
      PROVE  c + memory[c].size <= ImageEnd
  BY <1>1, <1>2 DEF GetInv, ImageIsInside
<1> QED
  BY <1>2

(* A blob is read into a buffer that was allocated for it: it is found,    *)
(* fits, and what the other types and the results need is left alone.      *)
LEMMA ReadIntoKeeps ==
    ASSUME GetInv, NEW type \in BlobType, NEW n \in Nat, NEW a, ReadInto(type, n, a),
           type = "BASE_DTB" => pc = "read_base" /\ pre_or_post = "POST" /\ n = total_blob_size,
           type = "SOC_DTBO" => pc = "read_soc" /\ size[type] # 0 /\ n = size[type],
           type = "PLATFORM_DTBO" => pc = "read_plat" /\ size[type] # 0 /\ n = size[type]
    PROVE  GetInv' /\ WriteIsInside
<1> DEFINE blob == memory[selected[type]]
<1>b. /\ "BASE_DTB" \in BlobType /\ \A t \in Overlays : t \in BlobType
      /\ BlobType = {"BASE_DTB", "SOC_DTBO", "PLATFORM_DTBO"}
      /\ Overlays = {"SOC_DTBO", "PLATFORM_DTBO"}
  BY DEF BlobType, Overlays
<1>m. /\ target \in {"XBL", "UEFI"} /\ pre_or_post \in {"PRE", "POST"}
      /\ pre_or_post = "PRE" => target = "XBL"
  BY Modes DEF GetInv
<1>t. size \in [BlobType -> Nat] /\ ptr \in [BlobType -> Nat] /\ total_blob_size \in Nat
  BY DEF GetInv, TypeOK
<1>s. pc \in {"read_base", "read_soc", "read_plat"} /\ Unread(type)
  BY <1>b DEF Unread
<1>w. Working /\ Unmoved
  BY <1>s DEF Working, Unmoved, GetInv, StepDecides
<1>c. /\ SourceIsThere("BASE_DTB")
      /\ \A t \in Overlays : ~Done(t) => SourceIsThere(t) /\ memory[Source(t)].size = size[t]
      /\ Current.size = size["BASE_DTB"]
      /\ total_blob_size = size["BASE_DTB"] + size["PLATFORM_DTBO"]
                              + IF Done("SOC_DTBO") THEN 0 ELSE size["SOC_DTBO"]
  BY <1>s, <1>w DEF GetInv, CallIsOnItsWay
<1>d. type \in Overlays => ~Done(type)
  BY <1>b, <1>s DEF Done
<1>z. size["BASE_DTB"] # 0 /\ size["BASE_DTB"] <= total_blob_size
  <2>1. Current.size # 0
    BY <1>c DEF GetInv, ImageIsInside, SourceIsThere, Current
  <2> QED
    BY <1>b, <1>c, <1>t, <2>1
<1>r. /\ Source(type) = selected[type] /\ selected[type] \in DOMAIN memory
      /\ blob.size = size[type]
  BY <1>b, <1>c, <1>d, <1>s DEF Source, SourceIsThere, Current
<1>n. n \in Nat \ {0} /\ blob.size <= n /\ blob.size \in Nat \ {0}
  <2>1. CASE type = "BASE_DTB"
    BY <1>b, <1>r, <1>t, <1>z, <2>1
  <2>2. CASE type # "BASE_DTB"
    BY <1>b, <1>r, <1>t, <2>2
  <2> QED
    BY <2>1, <2>2
<1>0. /\ heap' = Allocated(a, n) /\ Malloc(n, a) /\ ptr' = [ptr EXCEPT ![type] = a]
      /\ memory' = Written(memory, a, blob) /\ Proceed /\ return_status' = return_status
      /\ target' = target /\ pre_or_post' = pre_or_post
      /\ dtbs_image_size' = dtbs_image_size /\ dt_select_handle' = dt_select_handle
      /\ selected' = selected /\ total_blob_size' = total_blob_size /\ wanted' = wanted
      /\ size' = size /\ held' = held /\ misfreed' = misfreed
  <2>1. ReadSucceeds(type)
    BY <1>r DEF ReadSucceeds
  <2> QED
    BY <2>1 DEF ReadInto, arguments, choice
<1> HIDE DEF blob
<1>q. ptr'[type] = a /\ \A t \in BlobType : t # type => ptr'[t] = ptr[t]
  BY <1>0, <1>t
<1>p. /\ pc = "read_base" => pc' = "read_soc"
      /\ pc = "read_soc" => pc' = IF target = "XBL" THEN "read_plat" ELSE "merge_soc"
      /\ pc = "read_plat" => pc' = IF target = "XBL" THEN "move" ELSE "merge_plat"
  BY <1>0, NextStep DEF GetInv
<1>h. /\ a \in HeapSlots /\ a \in Nat /\ a > ImageEnd
      /\ HeapIsApart' /\ heap' \subseteq [addr : HeapSlots, size : Nat]
      /\ heap \subseteq heap' /\ [addr |-> a, size |-> n] \in heap'
      /\ \A x \in heap' : x.addr # a => x \in heap
      /\ \A x \in heap : /\ x.addr # a
                         /\ \A k, l \in Nat : k <= n /\ l <= x.size => ~Overlaps(a, k, x.addr, l)
  BY <1>0, <1>n, MallocApart DEF GetInv
<1>i. \A c \in DOMAIN memory : c < ImageEnd => c + memory[c].size <= ImageEnd
  BY <1>s, ImageIsWhole
<1>e. ImageEnd \in Nat /\ Start \in Nat \ {0} /\ Start < ImageEnd
  BY ConstantsAreTyped
<1>k. \A c \in DOMAIN memory : c \in Nat /\ memory[c] \in Blob /\ memory[c].size \in Nat
  BY DEF GetInv, TypeOK, Blob
<1>v. /\ \A c : c \in DOMAIN memory' <=>
                c = a \/ (c \in DOMAIN memory /\ ~Overlaps(a, blob.size, c, memory[c].size))
      /\ memory'[a] = blob /\ \A c \in DOMAIN memory' : c # a => memory'[c] = memory[c]
  BY <1>0, WrittenIs
<1>x. \A c \in DOMAIN memory : c < ImageEnd => c \in DOMAIN memory' /\ memory'[c] = memory[c]
  <2>1. SUFFICES ASSUME NEW c \in DOMAIN memory, c < ImageEnd
                 PROVE  ~Overlaps(a, blob.size, c, memory[c].size) /\ c # a
    BY <1>v
  <2> QED
    BY <1>e, <1>h, <1>i, <1>k, <1>n, <2>1 DEF Overlaps
<1>y. ASSUME NEW x \in heap, x.addr \in DOMAIN memory, memory[x.addr].size <= x.size
      PROVE  x.addr \in DOMAIN memory' /\ memory'[x.addr] = memory[x.addr]
  <2>1. ~Overlaps(a, blob.size, x.addr, memory[x.addr].size) /\ x.addr # a
    BY <1>h, <1>k, <1>n, <1>y
  <2> QED
    BY <1>v, <1>y, <2>1
<1>1. TypeOK'
  <2>1. \A c \in DOMAIN memory' : c \in Nat /\ memory'[c] \in Blob
    BY <1>h, <1>k, <1>r, <1>v DEF blob
  <2>2. pc' \in {"idle"} \cup {Steps'[i] : i \in DOMAIN Steps'}
    BY <1>0, <1>m, <1>p, <1>s, StepTyped
  <2>3. pc' # "idle"
    BY <1>m, <1>p, <1>s
  <2>4. ptr' \in [BlobType -> Nat]
    BY <1>0, <1>h, <1>t
  <2> QED
    BY <1>0, <1>h, <2>1, <2>2, <2>3, <2>4 DEF GetInv, TypeOK
<1>u. /\ ~Unread(type)' /\ ~Unread("BASE_DTB")'
      /\ \A t \in BlobType : t # type => (Unread(t)' <=> Unread(t))
      /\ \A t \in Overlays : Done(t)' <=> Done(t)
      /\ Working' /\ pc' \notin {"idle", "open", "exit"}
  <2>1. ~Unread(type)' /\ ~Unread("BASE_DTB")'
    BY <1>0, <1>b, <1>m, <1>p, <1>s DEF Unread
  <2>2. \A t \in BlobType : t # type => (Unread(t)' <=> Unread(t))
    BY <1>0, <1>b, <1>m, <1>p, <1>s DEF Unread
  <2>3. \A t \in Overlays : Done(t)' <=> Done(t)
    BY <1>0, <1>b, <1>m, <1>p, <1>s DEF Done
  <2>4. pc' \notin {"idle", "open", "exit"}
    BY <1>m, <1>p, <1>s
  <2> QED
    BY <1>0, <1>w, <2>1, <2>2, <2>3, <2>4 DEF Working
<1>o. ptr[type] = 0
  BY <1>s DEF GetInv, StepDecides
<1>f. /\ Buffer(type)' = [addr |-> a, size |-> n]
      /\ \A t \in BlobType : t # type => Buffer(t)' = Buffer(t)
  BY <1>0, <1>b, <1>q DEF Buffer
<1>3. HeapIsOwned'
  <2>1. Handle' = Handle /\ Handle \subseteq heap'
    BY <1>0, <1>h DEF GetInv, HeapIsOwned, Handle
  <2>2. \A t \in Overlays : ptr'[t] # 0 => Buffer(t)' \in heap'
    BY <1>b, <1>f, <1>h, <1>q DEF GetInv, HeapIsOwned
  <2>3. ASSUME NEW x \in heap'
        PROVE  \/ x.addr = dt_select_handle \/ \E t \in BlobType : x.addr = ptr'[t]
               \/ \E h \in held : x.addr = h.addr
    <3>1. CASE x.addr = a
      BY <1>q, <3>1
    <3>2. CASE x.addr # a
      <4>1. x \in heap /\ x.addr # 0
        BY <1>e, <1>h, <3>2, AllocationsApart DEF GetInv
      <4>2. \A t \in BlobType : x.addr = ptr[t] => x.addr = ptr'[t]
        BY <1>o, <1>q, <4>1
      <4> QED
        BY <4>1, <4>2 DEF GetInv, HeapIsOwned
    <3> QED
      BY <3>1, <3>2
  <2>4. a # dt_select_handle
    <3>1. dt_select_handle # 0 => [addr |-> dt_select_handle, size |-> HandleSize] \in heap
      BY DEF GetInv, HeapIsOwned, Handle
    <3> QED
      BY <1>e, <1>h, <3>1
  <2>5. \A t \in BlobType : ptr'[t] # 0 => ptr'[t] # dt_select_handle
    BY <1>q, <2>4 DEF GetInv, HeapIsOwned
  <2>6. \A t \in BlobType : t # type => ptr[t] # a
    <3>1. \A t \in Overlays : ptr[t] # 0 => ptr[t] # a
      <4>1. \A t \in Overlays : ptr[t] # 0 => Buffer(t) \in heap /\ Buffer(t).addr = ptr[t]
        BY DEF GetInv, HeapIsOwned, Buffer
      <4> QED
        BY <1>h, <4>1
    <3>2. ptr["BASE_DTB"] # 0 => ptr["BASE_DTB"] # a
      <4>1. pre_or_post = "POST" /\ ptr["BASE_DTB"] # 0 =>
               Buffer("BASE_DTB") \in heap /\ Buffer("BASE_DTB").addr = ptr["BASE_DTB"]
        BY DEF GetInv, ModeDecides, Buffer
      <4>2. pre_or_post = "PRE" /\ ptr["BASE_DTB"] # 0 => ptr["BASE_DTB"] \in Start..(ImageEnd - 1)
        BY DEF GetInv, ModeDecides
      <4> QED
        BY <1>e, <1>h, <1>m, <4>1, <4>2
    <3> QED
      BY <1>b, <1>e, <1>h, <3>1, <3>2
  <2>7. \A t, u \in BlobType : ptr'[t] # 0 /\ t # u => ptr'[t] # ptr'[u]
    <3>1. \A t, u \in BlobType : ptr[t] # 0 /\ t # u => ptr[t] # ptr[u]
      BY DEF GetInv, HeapIsOwned
    <3> QED
      BY <1>q, <2>6, <3>1
  <2>8. \A h \in held : h.addr # a
    <3>1. pre_or_post = "POST" => \A h \in held : [addr |-> h.addr, size |-> h.size] \in heap
      BY DEF GetInv, ModeDecides, ResultIsMalloced
    <3>2. pre_or_post = "PRE" => held = {}
      BY <1>s DEF GetInv, ModeDecides
    <3> QED
      BY <1>h, <1>m, <3>1, <3>2
  <2>9. \A h \in held : /\ h.addr # 0 /\ h.size # 0 /\ h.addr # dt_select_handle
                        /\ \A t \in BlobType : ptr'[t] # h.addr
    BY <1>q, <2>8 DEF GetInv, HeapIsOwned
  <2>10. \A g, h \in held : g.addr = h.addr => g = h
    BY DEF GetInv, HeapIsOwned
  <2> QED
    BY <1>0, <2>1, <2>2, <2>3, <2>5, <2>7, <2>9, <2>10 DEF HeapIsOwned
<1>4. ModeDecides'
  <2>1. ASSUME pre_or_post = "POST"
        PROVE  (ptr'["BASE_DTB"] # 0 => Buffer("BASE_DTB")' \in heap') /\ ResultIsMalloced' /\ ~misfreed'
    BY <1>0, <1>b, <1>f, <1>h, <1>q, <2>1 DEF GetInv, ModeDecides, ResultIsMalloced
  <2>2. ASSUME pre_or_post = "PRE" PROVE ptr'["BASE_DTB"] = ptr["BASE_DTB"] /\ held = {}
    BY <1>b, <1>q, <1>s, <2>2 DEF GetInv, ModeDecides
  <2> QED
    BY <1>0, <1>m, <2>1, <2>2 DEF GetInv, ModeDecides
<1>5. StepDecides'
  <2>1. \A t \in BlobType : Unread(t)' => ptr'[t] = 0
    BY <1>q, <1>u DEF GetInv, StepDecides
  <2>2. ptr'["BASE_DTB"] # 0
    <3>1. CASE type = "BASE_DTB"
      BY <1>e, <1>h, <1>q, <3>1
    <3>2. CASE type # "BASE_DTB"
      BY <1>b, <1>q, <1>s, <1>u, <1>w, <3>2 DEF GetInv, StepDecides
    <3> QED
      BY <3>1, <3>2
  <2>3. \A t \in Overlays : Done(t)' => ptr'[t] = 0
    BY <1>b, <1>d, <1>q, <1>u, <1>w DEF GetInv, StepDecides
  <2>4. total_blob_size' # 0
    BY <1>0, <1>b, <1>t, <1>z
  <2>5. return_status' = "NONE"
    BY <1>0, <1>w DEF Working
  <2> QED
    BY <1>u, <2>1, <2>2, <2>3, <2>4, <2>5 DEF StepDecides
<1>6. ImageIsInside'
  <2>1. \A c \in DOMAIN memory' : c # 0 /\ c # ImageEnd /\ memory'[c].size # 0
    BY <1>e, <1>h, <1>n, <1>v DEF GetInv, ImageIsInside
  <2>2. \A c \in DOMAIN memory' : c < ImageEnd => c + memory'[c].size <= ImageEnd
    BY <1>e, <1>h, <1>i, <1>v
  <2> QED
    BY <2>1, <2>2 DEF ImageIsInside
<1>8. UnmovedIsMerged'
  <2>1. pre_or_post = "PRE" => held = {}
    BY <1>s DEF GetInv, ModeDecides
  <2>2. SUFFICES ASSUME NEW h \in held, pre_or_post = "POST" PROVE IsIntact(h)'
    BY <1>0, <1>m, <2>1 DEF UnmovedIsMerged
  <2>3. IsIntact(h)
    BY <2>2 DEF GetInv, UnmovedIsMerged
  <2>4. PICK x \in heap : x.addr = h.addr /\ x.size = h.size
    BY <2>2 DEF GetInv, ModeDecides, ResultIsMalloced
  <2>5. memory[x.addr].size = x.size /\ x.addr \in DOMAIN memory /\ x.size \in Nat
    BY <1>k, <2>3, <2>4 DEF IsIntact
  <2>6. h.addr \in DOMAIN memory' /\ memory'[h.addr] = memory[h.addr]
    BY <1>y, <2>4, <2>5
  <2> QED
    BY <2>3, <2>6 DEF IsIntact
<1>9. ReadsFindBlobs'
  BY <1>0 DEF GetInv, ReadsFindBlobs
<1>j. ASSUME NEW t \in BlobType, t = "BASE_DTB" \/ ~Done(t)
      PROVE  /\ Source(t)' \in DOMAIN memory' /\ Source(t)' # 0
             /\ memory'[Source(t)'] = memory[Source(t)]
             /\ Unread(t)' => Source(t)' \in Start..(ImageEnd - 1)
  <2>0. SourceIsThere(t)
    BY <1>b, <1>c, <1>j
  <2>1. CASE t = type
    <3>1. Source(t)' = a
      BY <1>q, <1>u, <2>1 DEF Source
    <3> QED
      BY <1>e, <1>h, <1>r, <1>u, <1>v, <2>1, <3>1 DEF blob
  <2>2. CASE t # type /\ Unread(t)
    <3>1. Source(t)' = Source(t)
      BY <1>0, <1>u, <2>2 DEF Source
    <3>2. Source(t) \in DOMAIN memory /\ Source(t) # 0 /\ Source(t) \in Start..(ImageEnd - 1)
      BY <2>0, <2>2 DEF SourceIsThere
    <3> QED
      BY <1>e, <1>x, <3>1, <3>2
  <2>3. CASE t # type /\ ~Unread(t)
    <3>1. Source(t)' = Source(t) /\ Source(t) = ptr[t]
      BY <1>q, <1>u, <2>3 DEF Source
    <3>2. ptr[t] \in DOMAIN memory /\ ptr[t] # 0
      BY <2>0, <3>1 DEF SourceIsThere
    <3>3. ptr[t] \in DOMAIN memory' /\ memory'[ptr[t]] = memory[ptr[t]]
      <4>1. CASE t \in Overlays
        <5>1. Buffer(t) \in heap /\ Buffer(t).addr = ptr[t] /\ Buffer(t).size = size[t]
          BY <1>b, <3>2, <4>1 DEF GetInv, HeapIsOwned, Buffer
        <5>2. memory[ptr[t]].size = size[t]
          BY <1>b, <1>c, <1>j, <3>1, <4>1
        <5> QED
          BY <1>t, <1>y, <3>2, <5>1, <5>2
      <4>2. CASE t = "BASE_DTB" /\ pre_or_post = "POST"
        <5>1. /\ Buffer(t) \in heap /\ Buffer(t).addr = ptr[t]
              /\ Buffer(t).size = total_blob_size
          BY <1>b, <3>2, <4>2 DEF GetInv, ModeDecides, Buffer
        <5>2. memory[ptr[t]].size = size["BASE_DTB"]
          BY <1>c, <3>1, <4>2 DEF Current
        <5> QED
          BY <1>y, <1>z, <3>2, <5>1, <5>2
      <4>3. CASE t = "BASE_DTB" /\ pre_or_post = "PRE"
        <5>1. ptr[t] \in Start..(ImageEnd - 1)
          BY <3>2, <4>3 DEF GetInv, ModeDecides
        <5> QED
          BY <1>e, <1>x, <3>2, <5>1
      <4> QED
        BY <1>b, <1>m, <4>1, <4>2, <4>3
    <3> QED
      BY <1>u, <2>3, <3>1, <3>2, <3>3
  <2> QED
    BY <2>1, <2>2, <2>3
<1>7. CallIsOnItsWay'
  <2>1. SUFFICES ASSUME Unmoved' PROVE CallIsOnItsWay'
    BY DEF CallIsOnItsWay
  <2>2. SourceIsThere("BASE_DTB")' /\ Current' = Current
    BY <1>b, <1>j DEF SourceIsThere, Current
  <2>3. \A t \in Overlays : ~Done(t)' => /\ SourceIsThere(t)'
                                         /\ memory'[Source(t)'] = memory[Source(t)]
                                         /\ memory'[Source(t)'].size = size'[t]
    <3>1. SUFFICES ASSUME NEW t \in Overlays, ~Done(t)
                   PROVE  /\ SourceIsThere(t)' /\ memory'[Source(t)'] = memory[Source(t)]
                          /\ memory'[Source(t)'].size = size'[t]
      BY <1>u
    <3> QED
      BY <1>0, <1>b, <1>c, <1>j, <3>1 DEF SourceIsThere
  <2>4. Pending("SOC_DTBO")' = Pending("SOC_DTBO") /\ Pending("PLATFORM_DTBO")' = Pending("PLATFORM_DTBO")
    <3>1. SUFFICES ASSUME NEW t \in Overlays PROVE Pending(t)' = Pending(t)
      BY <1>b
    <3>2. CASE Done(t)
      BY <1>u, <3>2, Zenon DEF Pending
    <3>3. CASE ~Done(t)
      <4>1. memory'[Source(t)'] = memory[Source(t)] /\ ~Done(t)'
        BY <1>u, <2>3, <3>3
      <4> QED
        BY <3>3, <4>1, Zenon DEF Pending
    <3> QED
      BY <3>2, <3>3
  <2>5. total_blob_size' = size'["BASE_DTB"] + size'["PLATFORM_DTBO"]
                              + IF Done("SOC_DTBO")' THEN 0 ELSE size'["SOC_DTBO"]
    BY <1>0, <1>b, <1>c, <1>u
  <2>6. wanted' = [type |-> Current'.type, size |-> total_blob_size', origin |-> Current'.origin,
                   parts |-> (Current'.parts \o Pending("SOC_DTBO")') \o Pending("PLATFORM_DTBO")']
    BY <1>0, <1>w, <2>2, <2>4 DEF GetInv, CallIsOnItsWay
  <2>7. pre_or_post' = "PRE" /\ selected'["BASE_DTB"] = Start => Start + total_blob_size' <= ImageEnd
    BY <1>0, <1>w DEF GetInv, CallIsOnItsWay
  <2>8. Current'.size = size'["BASE_DTB"] /\ pc' # "exit"
    BY <1>0, <1>c, <1>u, <2>2
  <2> QED
    BY <2>2, <2>3, <2>5, <2>6, <2>7, <2>8 DEF CallIsOnItsWay
<1>10. WriteIsInside
  <2>1. InAllocation(heap \cup heap', a, memory'[a].size)
    <3>1. PICK x \in heap' : x.addr = a /\ x.size = n
      BY <1>h
    <3> QED
      BY <1>h, <1>n, <1>v, <3>1 DEF InAllocation
  <2>2. \A c \in DOMAIN memory' : c # a => c \in DOMAIN memory /\ memory'[c] = memory[c]
    BY <1>v
  <2> QED
    BY <1>x, <2>1, <2>2 DEF WriteIsInside
<1> QED
  BY <1>1, <1>h, <1>3, <1>4, <1>5, <1>6, <1>7, <1>8, <1>9, <1>10 DEF GetInv

LEMMA ReadBaseKeeps ==
    ASSUME GetInv, NEW a, ReadBase(a)
    PROVE  GetInv' /\ WriteIsInside
<1>1. pc = "read_base" /\ pre_or_post = "POST" /\ ReadInto("BASE_DTB", total_blob_size, a)
  BY DEF ReadBase
<1>2. "BASE_DTB" \in BlobType /\ total_blob_size \in Nat
  BY DEF BlobType, GetInv, TypeOK
<1> QED
  BY <1>1, <1>2, ReadIntoKeeps

LEMMA ReadOverlayKeeps ==
    ASSUME GetInv, NEW type \in Overlays, NEW a, ReadOverlay(type, a)
    PROVE  GetInv' /\ WriteIsInside
<1>1. pc = ReadStep[type] /\ size[type] # 0 /\ ReadInto(type, size[type], a)
  BY DEF ReadOverlay
<1>2. type \in BlobType /\ type # "BASE_DTB" /\ size[type] \in Nat
  BY DEF BlobType, Overlays, GetInv, TypeOK
<1>3. /\ type = "SOC_DTBO" => pc = "read_soc"
      /\ type = "PLATFORM_DTBO" => pc = "read_plat"
  BY <1>1 DEF ReadStep
<1> QED
  BY <1>1, <1>2, <1>3, ReadIntoKeeps

LEMMA FindBaseKeeps ==
    ASSUME GetInv, FindBase
    PROVE  GetInv'
<1>b. /\ "BASE_DTB" \in BlobType /\ \A t \in Overlays : t \in BlobType
      /\ BlobType = {"BASE_DTB", "SOC_DTBO", "PLATFORM_DTBO"}
      /\ Overlays = {"SOC_DTBO", "PLATFORM_DTBO"}
  BY DEF BlobType, Overlays
<1>0. /\ pc = "read_base" /\ pre_or_post = "PRE" /\ Proceed
      /\ ptr' = [ptr EXCEPT !["BASE_DTB"] = selected["BASE_DTB"]]
      /\ memory' = memory /\ heap' = heap
      /\ return_status' = return_status /\ target' = target /\ pre_or_post' = pre_or_post
      /\ dtbs_image_size' = dtbs_image_size /\ dt_select_handle' = dt_select_handle
      /\ selected' = selected /\ total_blob_size' = total_blob_size /\ wanted' = wanted
      /\ size' = size /\ held' = held /\ misfreed' = misfreed
  BY DEF FindBase, arguments, choice
<1>m. target = "XBL" /\ pc' = "read_soc"
  BY <1>0, Modes, NextStep DEF GetInv
<1>e. ImageEnd \in Nat /\ Start \in Nat \ {0} /\ Start < ImageEnd
  BY ConstantsAreTyped
<1>t. /\ ptr \in [BlobType -> Nat] /\ selected \in [BlobType -> Nat] /\ total_blob_size \in Nat
      /\ size \in [BlobType -> Nat]
  BY DEF GetInv, TypeOK
<1>q. ptr'["BASE_DTB"] = selected["BASE_DTB"] /\ \A t \in Overlays : ptr'[t] = ptr[t]
  BY <1>0, <1>b, <1>t
<1>o. \A t \in BlobType : Unread(t) /\ ptr[t] = 0
  BY <1>0 DEF GetInv, StepDecides, Unread
<1>u. /\ \A t \in Overlays : Unread(t)' /\ (Done(t)' <=> Done(t))
      /\ ~Unread("BASE_DTB")' /\ Working /\ Working' /\ Unmoved
  <2>1. \A t \in Overlays : Unread(t)' /\ (Done(t)' <=> Done(t))
    BY <1>0, <1>m, <1>b DEF Unread, Done
  <2>2. ~Unread("BASE_DTB")' /\ Unmoved
    BY <1>0, <1>m DEF Unread, Unmoved
  <2>3. Working /\ Working'
    BY <1>0, <1>m DEF Working, GetInv, StepDecides
  <2> QED
    BY <2>1, <2>2, <2>3
<1>c. /\ selected["BASE_DTB"] \in DOMAIN memory /\ selected["BASE_DTB"] \in Start..(ImageEnd - 1)
      /\ Source("BASE_DTB") = selected["BASE_DTB"]
      /\ \A t \in BlobType : Source(t)' = Source(t)
  <2>1. Source("BASE_DTB") = selected["BASE_DTB"] /\ SourceIsThere("BASE_DTB")
    BY <1>b, <1>o, <1>u DEF Source, GetInv, CallIsOnItsWay
  <2>2. \A t \in BlobType : Source(t)' = Source(t)
    BY <1>0, <1>b, <1>o, <1>q, <1>u DEF Source
  <2> QED
    BY <1>b, <1>o, <2>1, <2>2 DEF SourceIsThere
<1>d. Current' = Current /\ \A t \in Overlays : Pending(t)' = Pending(t)
  <2>1. Current' = Current
    BY <1>0, <1>b, <1>c DEF Current
  <2>2. ASSUME NEW t \in Overlays PROVE Pending(t)' = Pending(t)
    <3>1. (Done(t)' <=> Done(t)) /\ memory'[Source(t)'] = memory[Source(t)]
      BY <1>0, <1>b, <1>c, <1>u
    <3> QED
      BY <3>1, Zenon DEF Pending
  <2> QED
    BY <2>1, <2>2
<1>z. total_blob_size # 0
  <2>1. Current.size = size["BASE_DTB"] /\ Current.size # 0
    BY <1>0, <1>c, <1>u DEF GetInv, CallIsOnItsWay, ImageIsInside, Current
  <2>2. total_blob_size = size["BASE_DTB"] + size["PLATFORM_DTBO"]
                              + IF Done("SOC_DTBO") THEN 0 ELSE size["SOC_DTBO"]
    BY <1>u DEF GetInv, CallIsOnItsWay
  <2> QED
    BY <1>b, <1>t, <2>1, <2>2
<1>1. TypeOK'
  <2>1. pc' \in {"idle"} \cup {Steps'[i] : i \in DOMAIN Steps'} /\ pc' # "idle"
    BY <1>0, <1>m, StepTyped
  <2>2. ptr' \in [BlobType -> Nat]
    BY <1>0, <1>b, <1>t
  <2> QED
    BY <1>0, <2>1, <2>2 DEF GetInv, TypeOK
<1>2. HeapIsApart'
  BY <1>0 DEF GetInv, HeapIsApart
<1>3. HeapIsOwned'
  <2>1. held = {}
    BY <1>0 DEF GetInv, ModeDecides
  <2>2. Handle' = Handle /\ Handle \subseteq heap
    BY <1>0 DEF GetInv, HeapIsOwned, Handle
  <2>3. selected["BASE_DTB"] # dt_select_handle
    <3>1. dt_select_handle # 0 => [addr |-> dt_select_handle, size |-> HandleSize] \in heap
      BY <2>2 DEF Handle
    <3>2. dt_select_handle # 0 => dt_select_handle > ImageEnd /\ dt_select_handle \in Nat
      BY <3>1, AllocationsApart DEF GetInv
    <3> QED
      BY <1>c, <1>e, <3>2
  <2>4. \A x \in heap : x.addr = dt_select_handle
    <3>1. \A x \in heap : x.addr # 0
      BY <1>e, AllocationsApart DEF GetInv
    <3> QED
      BY <1>o, <2>1, <3>1 DEF GetInv, HeapIsOwned
  <2> QED
    BY <1>0, <1>b, <1>o, <1>q, <2>1, <2>2, <2>3, <2>4 DEF HeapIsOwned
<1>4. ModeDecides'
  BY <1>0, <1>c, <1>m, <1>q DEF GetInv, ModeDecides
<1>5. StepDecides'
  <2>1. ptr'["BASE_DTB"] # 0
    BY <1>c, <1>e, <1>q
  <2> QED
    BY <1>0, <1>b, <1>m, <1>o, <1>q, <1>u, <1>z, <2>1 DEF StepDecides, Working
<1>6. ImageIsInside'
  <2>1. \A c \in DOMAIN memory : c < ImageEnd => c + memory[c].size <= ImageEnd
    BY <1>0, ImageIsWhole
  <2> QED
    BY <1>0, <2>1 DEF GetInv, ImageIsInside
<1>7. CallIsOnItsWay'
  <2>1. SourceIsThere("BASE_DTB")'
    BY <1>0, <1>b, <1>c, <1>e, <1>u DEF SourceIsThere
  <2>2. \A t \in Overlays : ~Done(t)' => SourceIsThere(t)' /\ memory'[Source(t)'].size = size'[t]
    BY <1>0, <1>b, <1>c, <1>o, <1>u DEF GetInv, CallIsOnItsWay, SourceIsThere
  <2>3. total_blob_size' = size'["BASE_DTB"] + size'["PLATFORM_DTBO"]
                              + IF Done("SOC_DTBO")' THEN 0 ELSE size'["SOC_DTBO"]
    BY <1>0, <1>b, <1>u DEF GetInv, CallIsOnItsWay
  <2>4. wanted' = [type |-> Current'.type, size |-> total_blob_size', origin |-> Current'.origin,
                   parts |-> (Current'.parts \o Pending("SOC_DTBO")') \o Pending("PLATFORM_DTBO")']
    BY <1>0, <1>b, <1>d, <1>u DEF GetInv, CallIsOnItsWay
  <2>5. pre_or_post' = "PRE" /\ selected'["BASE_DTB"] = Start => Start + total_blob_size' <= ImageEnd
    BY <1>0, <1>u DEF GetInv, CallIsOnItsWay
  <2>6. Current'.size = size'["BASE_DTB"] /\ pc' # "exit"
    BY <1>0, <1>d, <1>m, <1>u DEF GetInv, CallIsOnItsWay
  <2> QED
    BY <2>1, <2>2, <2>3, <2>4, <2>5, <2>6 DEF CallIsOnItsWay
<1>8. UnmovedIsMerged'
  BY <1>0 DEF GetInv, UnmovedIsMerged, IsIntact
<1>9. ReadsFindBlobs'
  BY <1>0 DEF GetInv, ReadsFindBlobs
<1> QED
  BY <1>1, <1>2, <1>3, <1>4, <1>5, <1>6, <1>7, <1>8, <1>9 DEF GetInv

(* After a move nothing is promised of the call any more; it keeps the     *)
(* allocations, and what it writes is inside the image.                    *)
LEMMA MoveBaseKeeps ==
    ASSUME GetInv, MoveBase
    PROVE  GetInv'
<1> DEFINE base == ptr["BASE_DTB"]
           n == IF dtbs_image_size < size["BASE_DTB"] THEN dtbs_image_size ELSE size["BASE_DTB"]
           copied == Written(memory, Start, memory[base])
<1>b. /\ "BASE_DTB" \in BlobType /\ \A t \in Overlays : t \in BlobType /\ t # "BASE_DTB"
  BY DEF BlobType, Overlays
<1>0. /\ pc = "move" /\ pre_or_post = "PRE" /\ base # Start /\ Proceed
      /\ size' = [size EXCEPT !["BASE_DTB"] = n]
      /\ \/ memory' = memory
         \/ memory' = copied
         \/ memory' = Wiped(copied, Start, n)
      /\ heap' = heap /\ return_status' = return_status /\ target' = target
      /\ pre_or_post' = pre_or_post /\ ptr' = ptr
      /\ dtbs_image_size' = dtbs_image_size /\ dt_select_handle' = dt_select_handle
      /\ selected' = selected /\ total_blob_size' = total_blob_size /\ wanted' = wanted
      /\ held' = held /\ misfreed' = misfreed
  BY DEF MoveBase, arguments, choice
<1>m. target = "XBL" /\ pc' = "merge_soc"
  BY <1>0, Modes, NextStep DEF GetInv
<1>e. ImageEnd \in Nat /\ Start \in Nat \ {0} /\ Start < ImageEnd
  BY ConstantsAreTyped
<1>t. /\ size \in [BlobType -> Nat] /\ n \in Nat
  <2>1. dtbs_image_size \in Nat /\ size \in [BlobType -> Nat]
    BY <1>e, ConstantsAreTyped DEF GetInv, TypeOK
  <2> QED
    BY <1>b, <2>1
<1>w. Working /\ Working' /\ Unmoved /\ ~Unread("BASE_DTB") /\ held = {}
  <2>1. Unmoved /\ ~Unread("BASE_DTB") /\ held = {}
    BY <1>0 DEF Unread, Unmoved, GetInv, ModeDecides
  <2>2. Working /\ Working'
    BY <1>0, <1>m DEF Working, GetInv, StepDecides
  <2> QED
    BY <2>1, <2>2
<1>c. base \in DOMAIN memory /\ base \in Start..(ImageEnd - 1) /\ base = selected["BASE_DTB"]
  <2>1. Source("BASE_DTB") = base /\ SourceIsThere("BASE_DTB")
    BY <1>w DEF Source, GetInv, CallIsOnItsWay
  <2> QED
    BY <1>0, <1>w, <2>1 DEF SourceIsThere, GetInv, ModeDecides
<1>i. \A c \in DOMAIN memory : c < ImageEnd => c + memory[c].size <= ImageEnd
  BY <1>0, ImageIsWhole
<1>v. \A c \in DOMAIN memory' : \/ c \in DOMAIN memory /\ memory'[c] = memory[c]
                                \/ c = Start /\ memory'[c] = memory[base]
  <2>1. \A c \in DOMAIN copied : \/ c \in DOMAIN memory /\ copied[c] = memory[c]
                                 \/ c = Start /\ copied[c] = memory[base]
    BY WrittenIs
  <2> HIDE DEF copied
  <2>2. \A c \in DOMAIN Wiped(copied, Start, n) :
           c \in DOMAIN copied /\ Wiped(copied, Start, n)[c] = copied[c]
    BY DEF Wiped
  <2> QED
    BY <1>0, <2>1, <2>2
<1>k. \A c \in DOMAIN memory : c \in Nat /\ memory[c] \in Blob /\ memory[c].size \in Nat
                               /\ memory[c].size # 0 /\ c # 0 /\ c # ImageEnd
  BY DEF GetInv, TypeOK, Blob, ImageIsInside
<1> HIDE DEF base, n, copied
<1>s. \A t \in Overlays : size'[t] = size[t]
  BY <1>0, <1>b, <1>t
<1>1. TypeOK'
  <2>1. pc' \in {"idle"} \cup {Steps'[i] : i \in DOMAIN Steps'} /\ pc' # "idle"
    BY <1>0, <1>m, StepTyped
  <2>2. size' \in [BlobType -> Nat]
    BY <1>0, <1>b, <1>t
  <2>3. \A c \in DOMAIN memory' : c \in Nat /\ memory'[c] \in Blob
    BY <1>c, <1>e, <1>k, <1>v
  <2> QED
    BY <1>0, <2>1, <2>2, <2>3 DEF GetInv, TypeOK
<1>2. HeapIsApart'
  BY <1>0 DEF GetInv, HeapIsApart
<1>3. HeapIsOwned'
  <2>1. Handle' = Handle /\ \A t \in Overlays : Buffer(t)' = Buffer(t)
    BY <1>0, <1>b, <1>s DEF Handle, Buffer
  <2> QED
    BY <1>0, <2>1 DEF GetInv, HeapIsOwned
<1>4. ModeDecides'
  BY <1>0, <1>m, <1>w DEF GetInv, ModeDecides
<1>5. StepDecides'
  <2>1. \A t \in BlobType : Unread(t)' => Unread(t)
    BY <1>0, <1>m DEF Unread
  <2>2. \A t \in Overlays : Done(t)' => Done(t)
    BY <1>0, <1>m, <1>s, <1>b DEF Done
  <2> QED
    BY <1>0, <1>m, <1>w, <2>1, <2>2 DEF GetInv, StepDecides
<1>6. ImageIsInside'
  <2>1. \A c \in DOMAIN memory' : c # 0 /\ c # ImageEnd /\ memory'[c].size # 0
    BY <1>c, <1>e, <1>k, <1>v
  <2>2. Start + memory[base].size <= ImageEnd
    BY <1>c, <1>e, <1>i, <1>k
  <2>3. \A c \in DOMAIN memory' : c < ImageEnd => c + memory'[c].size <= ImageEnd
    BY <1>i, <1>v, <2>2
  <2> QED
    BY <2>1, <2>3 DEF ImageIsInside
<1>7. CallIsOnItsWay'
  <2>1. ~Unmoved'
    BY <1>0, <1>c, <1>m DEF Unmoved, base
  <2> QED
    BY <2>1 DEF CallIsOnItsWay
<1>8. UnmovedIsMerged'
  BY <1>0, <1>w DEF UnmovedIsMerged
<1>9. ReadsFindBlobs'
  BY <1>0 DEF GetInv, ReadsFindBlobs
<1> QED
  BY <1>1, <1>2, <1>3, <1>4, <1>5, <1>6, <1>7, <1>8, <1>9 DEF GetInv

(* A blob given another size and other parts *)
LEMMA Regrown ==
    ASSUME NEW r \in Blob, NEW n, NEW p
    PROVE  [r EXCEPT !.size = n, !.parts = p]
              = [type |-> r.type, size |-> n, origin |-> r.origin, parts |-> p]
<1>1. [r EXCEPT !.size = n, !.parts = p] = [[r EXCEPT !.size = n] EXCEPT !.parts = p]
  BY Zenon
<1> DEFINE q == [r EXCEPT !.size = n]
<1>2. q = [type |-> r.type, size |-> n, origin |-> r.origin, parts |-> r.parts]
  BY DEF Blob
<1> HIDE DEF q
<1>3. [q EXCEPT !.parts = p] = [type |-> q.type, size |-> q.size, origin |-> q.origin, parts |-> p]
  BY <1>2
<1> QED
  BY <1>1, <1>2, <1>3 DEF q

(* The base DTB, grown to what has been merged so far, stays inside its    *)
(* buffer, or inside the image.                                            *)
LEMMA MergeStaysInside ==
    ASSUME GetInv, NEW type \in Overlays, pc = MergeStep[type], size[type] # 0, Unmoved
    PROVE  /\ MergeSize(type) \in Nat /\ MergeSize(type) <= total_blob_size
           /\ pre_or_post = "POST" =>
                 \E x \in heap : x.addr = ptr["BASE_DTB"] /\ x.size = total_blob_size
           /\ pre_or_post = "PRE" => ptr["BASE_DTB"] = Start /\ Start + total_blob_size <= ImageEnd
<1>b. /\ "BASE_DTB" \in BlobType
      /\ BlobType = {"BASE_DTB", "SOC_DTBO", "PLATFORM_DTBO"}
      /\ Overlays = {"SOC_DTBO", "PLATFORM_DTBO"}
  BY DEF BlobType, Overlays
<1>t. /\ size \in [BlobType -> Nat] /\ total_blob_size \in Nat /\ pre_or_post \in {"PRE", "POST"}
  BY Modes DEF GetInv, TypeOK
<1>p. pc \in {"merge_soc", "merge_plat"} /\ (type = "SOC_DTBO" => pc = "merge_soc")
  BY MergeAt
<1>w. Working /\ ~Unread("BASE_DTB")
  BY <1>p DEF Working, Unread, GetInv, StepDecides
<1>c. /\ total_blob_size = size["BASE_DTB"] + size["PLATFORM_DTBO"]
                              + IF Done("SOC_DTBO") THEN 0 ELSE size["SOC_DTBO"]
      /\ pre_or_post = "PRE" /\ selected["BASE_DTB"] = Start => Start + total_blob_size <= ImageEnd
  BY <1>w DEF GetInv, CallIsOnItsWay
<1>1. MergeSize(type) \in Nat /\ MergeSize(type) <= total_blob_size
  <2>1. CASE type = "SOC_DTBO"
    <3>1. ~Done("SOC_DTBO")
      BY <1>p, <2>1 DEF Done
    <3> QED
      BY <1>b, <1>c, <1>t, <2>1, <3>1 DEF MergeSize
  <2>2. CASE type # "SOC_DTBO"
    BY <1>t, <2>2 DEF MergeSize
  <2> QED
    BY <2>1, <2>2
<1>2. ptr["BASE_DTB"] # 0
  BY <1>w DEF GetInv, StepDecides
<1>3. ASSUME pre_or_post = "POST"
      PROVE  \E x \in heap : x.addr = ptr["BASE_DTB"] /\ x.size = total_blob_size
  BY <1>2, <1>3 DEF GetInv, ModeDecides, Buffer
<1>4. ASSUME pre_or_post = "PRE"
      PROVE  ptr["BASE_DTB"] = Start /\ Start + total_blob_size <= ImageEnd
  BY <1>2, <1>4, <1>c, <1>p DEF GetInv, ModeDecides, Unmoved
<1> QED
  BY <1>1, <1>3, <1>4

(* What a merge leaves in memory *)
LEMMA MergeWrites ==
    ASSUME GetInv, NEW type \in Overlays, Merge(type)
    PROVE  /\ ptr["BASE_DTB"] \in DOMAIN memory /\ ptr["BASE_DTB"] # 0
           /\ ptr[type] \in DOMAIN memory /\ ptr[type] # 0
           /\ Merged(type) = [type |-> memory[ptr["BASE_DTB"]].type, size |-> MergeSize(type),
                              origin |-> memory[ptr["BASE_DTB"]].origin,
                              parts |-> Append(memory[ptr["BASE_DTB"]].parts,
                                               memory[ptr[type]].origin)]
           /\ MergeSize(type) \in Nat \ {0} /\ Merged(type) \in Blob
           /\ \A c \in DOMAIN memory' :
                 \/ c = ptr["BASE_DTB"] /\ memory'[c] = Merged(type)
                 \/ c \in DOMAIN memory /\ c # ptr["BASE_DTB"] /\ memory'[c] = memory[c]
           /\ ~Overlaps(ptr["BASE_DTB"], MergeSize(type), ptr[type], size[type]) =>
                 ptr["BASE_DTB"] \in DOMAIN memory' /\ memory'[ptr["BASE_DTB"]] = Merged(type)
           /\ \A c \in DOMAIN memory :
                 /\ c # ptr["BASE_DTB"]
                 /\ ~Overlaps(ptr["BASE_DTB"], MergeSize(type), c, memory[c].size)
                 /\ ~Overlaps(c, memory[c].size, ptr[type], size[type])
                 => c \in DOMAIN memory' /\ memory'[c] = memory[c]
<1> DEFINE base == ptr["BASE_DTB"]
           w == Written(memory, base, Merged(type))
           b == Buffer(type)
<1>b. "BASE_DTB" \in BlobType /\ type \in BlobType /\ type # "BASE_DTB"
  BY DEF BlobType, Overlays
<1>0. MergeError(type) = "NONE" /\ memory' = AfterFree(w, {b})
  BY DEF Merge
<1>t. size \in [BlobType -> Nat] /\ ptr \in [BlobType -> Nat] /\ total_blob_size \in Nat
  BY DEF GetInv, TypeOK
<1>1. base \in DOMAIN memory /\ ptr[type] \in DOMAIN memory
  BY <1>0 DEF MergeError, BlobError
<1>2. ~(MergeSize(type) <= memory[base].size)
  BY <1>0 DEF MergeError
<1>3. base # 0 /\ ptr[type] # 0
  BY <1>1 DEF GetInv, ImageIsInside
<1>4. memory[base] \in Blob /\ memory[ptr[type]] \in Blob
  BY <1>1 DEF GetInv, TypeOK
<1>5. MergeSize(type) \in Nat
  BY <1>b, <1>t DEF MergeSize
<1>6. MergeSize(type) # 0
  BY <1>2, <1>4, <1>5 DEF Blob
<1>7. Merged(type) = [type |-> memory[base].type, size |-> MergeSize(type),
                      origin |-> memory[base].origin,
                      parts |-> Append(memory[base].parts, memory[ptr[type]].origin)]
  <2> DEFINE r == memory[base]
             p == Append(memory[base].parts, memory[ptr[type]].origin)
  <2>1. Merged(type) = [r EXCEPT !.size = MergeSize(type), !.parts = p]
    BY DEF Merged
  <2>2. r \in Blob
    BY <1>4
  <2> HIDE DEF r, p
  <2> QED
    BY <2>1, <2>2, Regrown DEF r, p
<1>8. Merged(type) \in Blob /\ Merged(type).size = MergeSize(type)
  <2>1. memory[base].parts \in Seq(Nat) /\ memory[ptr[type]].origin \in Nat
    BY <1>4 DEF Blob
  <2>2. Append(memory[base].parts, memory[ptr[type]].origin) \in Seq(Nat)
    BY <2>1
  <2> QED
    BY <1>4, <1>5, <1>7, <2>2 DEF Blob
<1>9. b.addr = ptr[type] /\ b.size = size[type]
  BY <1>b DEF Buffer
<1>10. /\ \A c : c \in DOMAIN w <=>
                 c = base \/ (c \in DOMAIN memory /\ ~Overlaps(base, MergeSize(type), c, memory[c].size))
       /\ w[base] = Merged(type) /\ \A c \in DOMAIN w : c # base => w[c] = memory[c]
  BY <1>8, WrittenIs
<1> HIDE DEF w, b
<1>11. /\ \A c : c \in DOMAIN memory' <=>
                  c \in DOMAIN w /\ ~Overlaps(c, w[c].size, ptr[type], size[type])
       /\ \A c \in DOMAIN memory' : memory'[c] = w[c]
  <2>1. /\ DOMAIN memory' = {c \in DOMAIN w : \A x \in {b} : ~Overlaps(c, w[c].size, x.addr, x.size)}
        /\ \A c \in DOMAIN memory' : memory'[c] = w[c]
    BY <1>0, AfterFreeIs
  <2> QED
    BY <1>9, <2>1
<1>12. \A c \in DOMAIN memory' : \/ c = base /\ memory'[c] = Merged(type)
                                 \/ c \in DOMAIN memory /\ c # base /\ memory'[c] = memory[c]
  BY <1>10, <1>11
<1>13. ~Overlaps(base, MergeSize(type), ptr[type], size[type]) =>
            base \in DOMAIN memory' /\ memory'[base] = Merged(type)
  BY <1>8, <1>10, <1>11
<1>14. \A c \in DOMAIN memory :
           /\ c # base /\ ~Overlaps(base, MergeSize(type), c, memory[c].size)
           /\ ~Overlaps(c, memory[c].size, ptr[type], size[type])
           => c \in DOMAIN memory' /\ memory'[c] = memory[c]
  BY <1>10, <1>11
<1> QED
  BY <1>1, <1>3, <1>5, <1>6, <1>7, <1>8, <1>12, <1>13, <1>14

LEMMA MergeKeeps ==
    ASSUME GetInv, NEW type \in Overlays, Merge(type)
    PROVE  GetInv' /\ WriteIsInside
<1> DEFINE base == ptr["BASE_DTB"]
           overlay == Buffer(type)
           grown == Merged(type)
           ms == MergeSize(type)
<1>b. /\ "BASE_DTB" \in BlobType /\ type \in BlobType /\ type # "BASE_DTB"
      /\ BlobType = {"BASE_DTB", "SOC_DTBO", "PLATFORM_DTBO"}
      /\ Overlays = {"SOC_DTBO", "PLATFORM_DTBO"}
  BY DEF BlobType, Overlays
<1>0. /\ pc = MergeStep[type] /\ size[type] # 0 /\ Free({overlay}) /\ Proceed
      /\ ptr' = [ptr EXCEPT ![type] = 0]
      /\ size' = IF type = "SOC_DTBO" THEN [size EXCEPT !["BASE_DTB"] = ms] ELSE size
      /\ return_status' = return_status /\ target' = target /\ pre_or_post' = pre_or_post
      /\ dtbs_image_size' = dtbs_image_size /\ dt_select_handle' = dt_select_handle
      /\ selected' = selected /\ total_blob_size' = total_blob_size /\ wanted' = wanted
      /\ held' = held
  BY DEF Merge, arguments, choice
<1>m. /\ target \in {"XBL", "UEFI"} /\ pre_or_post \in {"PRE", "POST"}
      /\ pre_or_post = "PRE" => target = "XBL"
  BY Modes DEF GetInv
<1>p. /\ type = "SOC_DTBO" => pc = "merge_soc"
      /\ type = "PLATFORM_DTBO" => pc = "merge_plat"
      /\ pc = "merge_soc" => pc' = IF target = "XBL" THEN "merge_plat" ELSE "read_plat"
      /\ pc = "merge_plat" => pc' = "exit"
  BY <1>0, MergeAt, NextStep DEF GetInv
<1>s. pc \in {"merge_soc", "merge_plat"} /\ pc' \in {"merge_plat", "read_plat", "exit"}
      /\ (pre_or_post = "PRE" => pc' \in {"merge_plat", "exit"})
  BY <1>b, <1>m, <1>p
<1>t. /\ size \in [BlobType -> Nat] /\ ptr \in [BlobType -> Nat] /\ total_blob_size \in Nat
  BY DEF GetInv, TypeOK
<1>w. Working /\ Working' /\ ~Unread("BASE_DTB") /\ ~Unread("BASE_DTB")'
  <2>1. ~Unread("BASE_DTB") /\ ~Unread("BASE_DTB")'
    BY <1>s DEF Unread
  <2>2. Working /\ Working'
    BY <1>0, <1>s DEF Working, GetInv, StepDecides
  <2> QED
    BY <2>1, <2>2
<1>g. /\ base \in DOMAIN memory /\ base # 0 /\ ptr[type] \in DOMAIN memory /\ ptr[type] # 0
      /\ grown = [type |-> memory[base].type, size |-> ms, origin |-> memory[base].origin,
                  parts |-> Append(memory[base].parts, memory[ptr[type]].origin)]
      /\ ms \in Nat \ {0} /\ grown \in Blob
      /\ \A c \in DOMAIN memory' :
            \/ c = base /\ memory'[c] = grown
            \/ c \in DOMAIN memory /\ c # base /\ memory'[c] = memory[c]
      /\ ~Overlaps(base, ms, ptr[type], size[type]) =>
            base \in DOMAIN memory' /\ memory'[base] = grown
      /\ \A c \in DOMAIN memory :
            /\ c # base /\ ~Overlaps(base, ms, c, memory[c].size)
            /\ ~Overlaps(c, memory[c].size, ptr[type], size[type])
            => c \in DOMAIN memory' /\ memory'[c] = memory[c]
  BY MergeWrites
<1>h. overlay \in heap /\ overlay.addr = ptr[type] /\ overlay.size = size[type]
  BY <1>b, <1>g DEF GetInv, HeapIsOwned, Buffer
<1>f. heap' = {x \in heap : x.addr # ptr[type]} /\ HeapIsApart' /\ (~misfreed => ~misfreed')
  <2>1. /\ heap' = {x \in heap : \A b \in {overlay} : b.addr # x.addr} /\ HeapIsApart'
        /\ {overlay} \subseteq heap /\ ~misfreed => ~misfreed'
    BY <1>0, FreeTakes
  <2> QED
    BY <1>h, <2>1
<1> HIDE DEF overlay, grown
<1>e. ImageEnd \in Nat /\ Start \in Nat \ {0} /\ Start < ImageEnd
  BY ConstantsAreTyped
<1>k. \A c \in DOMAIN memory : c \in Nat /\ memory[c] \in Blob /\ memory[c].size \in Nat
                               /\ memory[c].size # 0 /\ c # 0 /\ c # ImageEnd
  BY DEF GetInv, TypeOK, Blob, ImageIsInside
<1>q. ptr'[type] = 0 /\ \A t \in BlobType : t # type => ptr'[t] = ptr[t]
  BY <1>0, <1>b, <1>t
<1>r. /\ \A t \in Overlays : size'[t] = size[t]
      /\ size'["BASE_DTB"] = IF type = "SOC_DTBO" THEN ms ELSE size["BASE_DTB"]
  BY <1>0, <1>b, <1>t
<1>x. pre_or_post = "PRE" => held = {}
  BY <1>s DEF GetInv, ModeDecides
<1>o. \A t \in BlobType : t # type /\ ptr[t] # 0 => ptr[t] # ptr[type]
  BY <1>b DEF GetInv, HeapIsOwned
<1>y. \A h \in held : h.addr # ptr[type] /\ h.addr # base
  BY <1>b DEF GetInv, HeapIsOwned
<1>1. TypeOK'
  <2>1. pc' \in {"idle"} \cup {Steps'[i] : i \in DOMAIN Steps'} /\ pc' # "idle"
    BY <1>0, <1>m, <1>s, StepTyped
  <2>2. size' \in [BlobType -> Nat] /\ ptr' \in [BlobType -> Nat]
    <3>1. [size EXCEPT !["BASE_DTB"] = ms] \in [BlobType -> Nat]
      BY <1>b, <1>g, <1>t
    <3> QED
      BY <1>0, <1>t, <3>1
  <2>3. \A c \in DOMAIN memory' : c \in Nat /\ memory'[c] \in Blob
    BY <1>g, <1>k
  <2>4. heap' \subseteq [addr : HeapSlots, size : Nat]
    BY <1>f DEF GetInv, TypeOK
  <2> QED
    BY <1>0, <2>1, <2>2, <2>3, <2>4 DEF GetInv, TypeOK
<1>3. HeapIsOwned'
  <2>1. Handle' = Handle /\ Handle \subseteq heap'
    <3>1. ptr[type] # dt_select_handle
      BY <1>b, <1>g DEF GetInv, HeapIsOwned
    <3> QED
      BY <1>0, <1>f, <3>1 DEF GetInv, HeapIsOwned, Handle
  <2>2. \A t \in Overlays : t # type => Buffer(t)' = Buffer(t) /\ Buffer(t).addr = ptr[t]
    BY <1>0, <1>b, <1>q, <1>r DEF Buffer
  <2>3. \A t \in Overlays : ptr'[t] # 0 => Buffer(t)' \in heap'
    BY <1>b, <1>f, <1>o, <1>q, <2>2 DEF GetInv, HeapIsOwned
  <2>4. ASSUME NEW x \in heap'
        PROVE  \/ x.addr = dt_select_handle \/ \E t \in BlobType : x.addr = ptr'[t]
               \/ \E h \in held : x.addr = h.addr
    <3>1. x \in heap /\ x.addr # ptr[type]
      BY <1>f
    <3>2. \A t \in BlobType : x.addr = ptr[t] => x.addr = ptr'[t]
      BY <1>q, <3>1
    <3> QED
      BY <3>1, <3>2 DEF GetInv, HeapIsOwned
  <2>5. \A t \in BlobType : ptr'[t] # 0 => ptr'[t] # dt_select_handle
    BY <1>q DEF GetInv, HeapIsOwned
  <2>6. \A t, u \in BlobType : ptr'[t] # 0 /\ t # u => ptr'[t] # ptr'[u]
    <3>1. \A t, u \in BlobType : ptr[t] # 0 /\ t # u => ptr[t] # ptr[u]
      BY DEF GetInv, HeapIsOwned
    <3> QED
      BY <1>q, <3>1
  <2>7. \A h \in held : /\ h.addr # 0 /\ h.size # 0 /\ h.addr # dt_select_handle
                        /\ \A t \in BlobType : ptr'[t] # h.addr
    BY <1>q DEF GetInv, HeapIsOwned
  <2>8. \A g, h \in held : g.addr = h.addr => g = h
    BY DEF GetInv, HeapIsOwned
  <2> QED
    BY <1>0, <2>1, <2>3, <2>4, <2>5, <2>6, <2>7, <2>8 DEF HeapIsOwned
<1>z. ptr'["BASE_DTB"] = base
  BY <1>b, <1>q
<1>4. ModeDecides'
  <2>1. ASSUME pre_or_post = "POST"
        PROVE  (ptr'["BASE_DTB"] # 0 => Buffer("BASE_DTB")' \in heap') /\ ResultIsMalloced' /\ ~misfreed'
    <3>1. Buffer("BASE_DTB")' = Buffer("BASE_DTB") /\ Buffer("BASE_DTB").addr = base
      BY <1>0, <1>z DEF Buffer
    <3>2. Buffer("BASE_DTB") \in heap /\ ResultIsMalloced /\ ~misfreed
      BY <1>g, <2>1 DEF GetInv, ModeDecides
    <3>3. Buffer("BASE_DTB") \in heap'
      BY <1>b, <1>f, <1>g, <1>o, <3>1, <3>2
    <3>4. ResultIsMalloced'
      BY <1>0, <1>f, <1>y, <3>2 DEF ResultIsMalloced
    <3> QED
      BY <1>f, <3>1, <3>2, <3>3, <3>4
  <2> QED
    BY <1>0, <1>m, <1>x, <1>z, <2>1 DEF GetInv, ModeDecides
<1>u. /\ \A t \in Overlays : Unread(t)' <=> Unread(t)
      /\ \A t \in Overlays : Done(t)' <=> Done(t) \/ t = type
      /\ type = "PLATFORM_DTBO" => Done("SOC_DTBO")
  <2>1. \A t \in Overlays : Unread(t)' <=> Unread(t)
    BY <1>0, <1>b, <1>m, <1>p DEF Unread
  <2>2. type = "PLATFORM_DTBO" => Done("SOC_DTBO")
    BY <1>p DEF Done
  <2>3. \A t \in Overlays : Done(t)' <=> Done(t) \/ t = type
    BY <1>0, <1>b, <1>m, <1>p, <1>r DEF Done
  <2> QED
    BY <2>1, <2>2, <2>3
<1>5. StepDecides'
  <2>1. \A t \in BlobType : Unread(t)' => ptr'[t] = 0
    BY <1>b, <1>q, <1>u, <1>w DEF GetInv, StepDecides
  <2>2. \A t \in Overlays : Done(t)' => ptr'[t] = 0
    BY <1>b, <1>q, <1>u, <1>w DEF GetInv, StepDecides
  <2>3. return_status' = "NONE" /\ total_blob_size' # 0
    BY <1>0, <1>g, <1>w DEF Working, GetInv, StepDecides
  <2> QED
    BY <1>g, <1>s, <1>z, <2>1, <2>2, <2>3 DEF StepDecides
<1>6. ImageIsInside'
  <2>1. \A c \in DOMAIN memory' : c # 0 /\ c # ImageEnd /\ memory'[c].size # 0
    BY <1>g, <1>k
  <2>2. ASSUME pre_or_post = "POST"
        PROVE  \A c \in DOMAIN memory' : c < ImageEnd => c + memory'[c].size <= ImageEnd
    <3>1. Buffer("BASE_DTB") \in heap /\ Buffer("BASE_DTB").addr = base
      BY <1>g, <2>2 DEF GetInv, ModeDecides, Buffer
    <3>2. base > ImageEnd /\ base \in Nat
      BY <3>1, AllocationsApart DEF GetInv
    <3>3. \A c \in DOMAIN memory : c < ImageEnd => c + memory[c].size <= ImageEnd
      BY <2>2, ImageIsWhole
    <3> QED
      BY <1>e, <1>g, <3>2, <3>3
  <2>3. ASSUME pre_or_post = "PRE"
        PROVE  \A c \in DOMAIN memory' : c < ImageEnd => c + memory'[c].size <= ImageEnd \/ c = base
    BY <1>g, <1>x, <2>3 DEF GetInv, ImageIsInside
  <2>4. pre_or_post = "PRE" => pc' \in {"merge_soc", "merge_plat", "exit"}
    BY <1>s
  <2> QED
    BY <1>0, <1>m, <1>z, <2>1, <2>2, <2>3, <2>4 DEF ImageIsInside
<1>8. UnmovedIsMerged'
  <2>1. SUFFICES ASSUME NEW h \in held, pre_or_post = "POST" PROVE IsIntact(h)'
    BY <1>0, <1>m, <1>x DEF UnmovedIsMerged
  <2>2. IsIntact(h)
    BY <2>1 DEF GetInv, UnmovedIsMerged
  <2>3. PICK x \in heap : x.addr = h.addr /\ x.size = h.size
    BY <2>1 DEF GetInv, ModeDecides, ResultIsMalloced
  <2>4. PICK y \in heap : y.addr = base /\ y.size = total_blob_size
    BY <1>g, <2>1 DEF GetInv, ModeDecides, Buffer
  <2>5. ms <= total_blob_size
    <3>1. Unmoved
      BY <2>1 DEF Unmoved
    <3> QED
      BY <1>0, <3>1, MergeStaysInside
  <2>6. h.addr \in DOMAIN memory /\ memory[h.addr].size = x.size /\ x.size \in Nat
    BY <1>k, <2>2, <2>3 DEF IsIntact
  <2>7. ~Overlaps(base, ms, h.addr, memory[h.addr].size)
    <3>1. y.addr # x.addr
      BY <1>y, <2>3, <2>4
    <3> QED
      BY <1>g, <1>t, <2>3, <2>4, <2>5, <2>6, <3>1, AllocationsApart DEF GetInv
  <2>8. ~Overlaps(h.addr, memory[h.addr].size, ptr[type], size[type])
    <3>1. overlay.addr # x.addr
      BY <1>h, <1>y, <2>3
    <3> QED
      BY <1>b, <1>h, <1>t, <2>3, <2>6, <3>1, AllocationsApart DEF GetInv
  <2>9. h.addr \in DOMAIN memory' /\ memory'[h.addr] = memory[h.addr]
    BY <1>g, <1>y, <2>6, <2>7, <2>8
  <2> QED
    BY <2>2, <2>9 DEF IsIntact
<1>9. ReadsFindBlobs'
  BY <1>0 DEF GetInv, ReadsFindBlobs
<1>7. CallIsOnItsWay'
  <2>1. SUFFICES ASSUME Unmoved' PROVE CallIsOnItsWay'
    BY DEF CallIsOnItsWay
  <2>2. Unmoved
    BY <1>0, <1>m, <1>s, <2>1 DEF Unmoved
  <2>3. /\ ms <= total_blob_size
        /\ pre_or_post = "POST" =>
              \E x \in heap : x.addr = base /\ x.size = total_blob_size
        /\ pre_or_post = "PRE" => base = Start /\ Start + total_blob_size <= ImageEnd
    BY <1>0, <2>2, MergeStaysInside
  <2>4. /\ SourceIsThere("BASE_DTB")
        /\ \A t \in Overlays : ~Done(t) => SourceIsThere(t) /\ memory[Source(t)].size = size[t]
        /\ total_blob_size = size["BASE_DTB"] + size["PLATFORM_DTBO"]
                                + IF Done("SOC_DTBO") THEN 0 ELSE size["SOC_DTBO"]
        /\ wanted = [type |-> Current.type, size |-> total_blob_size, origin |-> Current.origin,
              parts |-> (Current.parts \o Pending("SOC_DTBO")) \o Pending("PLATFORM_DTBO")]
        /\ pre_or_post = "PRE" /\ selected["BASE_DTB"] = Start => Start + total_blob_size <= ImageEnd
    BY <1>w, <2>2 DEF GetInv, CallIsOnItsWay
  <2>5. ~Overlaps(base, ms, ptr[type], size[type])
    <3>1. CASE pre_or_post = "POST"
      <4>1. PICK y \in heap : y.addr = base /\ y.size = total_blob_size
        BY <2>3, <3>1
      <4>2. y.addr # overlay.addr
        BY <1>b, <1>g, <1>h, <1>o, <4>1
      <4> QED
        BY <1>b, <1>g, <1>h, <1>t, <2>3, <4>1, <4>2, AllocationsApart, SMTT(60) DEF GetInv
    <3>2. CASE pre_or_post = "PRE"
      <4>1. ptr[type] > ImageEnd /\ ptr[type] \in Nat
        BY <1>h, AllocationsApart DEF GetInv
      <4> QED
        BY <1>e, <1>g, <1>t, <2>3, <3>2, <4>1 DEF Overlaps
    <3> QED
      BY <1>m, <3>1, <3>2
  <2>6. base \in DOMAIN memory' /\ memory'[base] = grown
    BY <1>g, <2>5
  <2>7. /\ Current = memory[base] /\ Source("BASE_DTB")' = base /\ Current' = grown
        /\ SourceIsThere("BASE_DTB")'
    BY <1>g, <1>w, <1>z, <2>6 DEF Source, Current, SourceIsThere
  <2>8. ~Done(type) /\ Source(type) = ptr[type]
    <3>1. ~Done(type)
      BY <1>0, <1>b, <1>p DEF Done
    <3>2. ~Unread(type)
      BY <1>b, <1>p DEF Unread
    <3> QED
      BY <3>1, <3>2 DEF Source
  <2>9. ASSUME NEW t \in Overlays, ~Done(t)'
        PROVE  /\ SourceIsThere(t)' /\ memory'[Source(t)'] = memory[Source(t)]
               /\ memory'[Source(t)'].size = size'[t]
    <3>1. ~Done(t) /\ t # type /\ SourceIsThere(t) /\ memory[Source(t)].size = size[t]
      BY <1>u, <2>4, <2>9
    <3>2. Source(t)' = Source(t)
      BY <1>0, <1>b, <1>q, <1>u, <3>1 DEF Source
    <3>3. Source(t) \in DOMAIN memory /\ Source(t) # 0
      BY <3>1 DEF SourceIsThere
    <3>4. /\ Source(t) # base
          /\ ~Overlaps(base, ms, Source(t), memory[Source(t)].size)
          /\ ~Overlaps(Source(t), memory[Source(t)].size, ptr[type], size[type])
      <4>1. CASE Unread(t)
        <5>1. pre_or_post = "POST"
          BY <1>b, <1>m, <1>p, <4>1 DEF Unread
        <5>2. Source(t) \in Start..(ImageEnd - 1)
          BY <3>1, <4>1 DEF SourceIsThere
        <5>3. Source(t) + memory[Source(t)].size <= ImageEnd
          BY <1>e, <3>3, <5>1, <5>2, ImageIsWhole
        <5>4. base > ImageEnd /\ base \in Nat /\ ptr[type] > ImageEnd /\ ptr[type] \in Nat
          BY <1>h, <2>3, <5>1, AllocationsApart DEF GetInv
        <5> QED
          BY <1>b, <1>e, <1>g, <1>k, <1>t, <3>3, <5>2, <5>3, <5>4, SMTT(60) DEF Overlaps
      <4>2. CASE ~Unread(t)
        <5>1. Source(t) = ptr[t]
          BY <4>2 DEF Source
        <5>2. PICK z \in heap : z.addr = ptr[t] /\ z.size = size[t]
          BY <1>b, <3>3, <5>1 DEF GetInv, HeapIsOwned, Buffer
        <5>3. z.addr # overlay.addr /\ z.addr # base
          <6>1. ptr[t] # base
            BY <1>b, <3>3, <5>1 DEF GetInv, HeapIsOwned
          <6> QED
            BY <1>b, <1>h, <1>o, <3>1, <3>3, <5>1, <5>2, <6>1
        <5>4. ~Overlaps(Source(t), memory[Source(t)].size, ptr[type], size[type])
          BY <1>b, <1>h, <1>t, <3>1, <5>1, <5>2, <5>3, AllocationsApart DEF GetInv
        <5>5. CASE pre_or_post = "POST"
          <6>1. PICK y \in heap : y.addr = base /\ y.size = total_blob_size
            BY <2>3, <5>5
          <6>2. ~Overlaps(base, ms, Source(t), memory[Source(t)].size)
            BY <1>b, <1>g, <1>t, <2>3, <3>1, <5>1, <5>2, <5>3, <6>1, AllocationsApart DEF GetInv
          <6> QED
            BY <5>1, <5>2, <5>3, <5>4, <6>2
        <5>6. CASE pre_or_post = "PRE"
          <6>1. z.addr > ImageEnd /\ z.addr \in Nat /\ z.size \in Nat
            BY <5>2, AllocationsApart DEF GetInv
          <6>2. ~Overlaps(base, ms, Source(t), memory[Source(t)].size)
            BY <1>e, <1>g, <1>t, <2>3, <3>1, <5>1, <5>2, <5>6, <6>1 DEF Overlaps
          <6> QED
            BY <5>1, <5>2, <5>3, <5>4, <6>2
        <5> QED
          BY <1>m, <5>5, <5>6
      <4> QED
        BY <4>1, <4>2
    <3>5. Source(t) \in DOMAIN memory' /\ memory'[Source(t)] = memory[Source(t)]
      BY <1>g, <3>3, <3>4
    <3> QED
      BY <1>r, <1>u, <3>1, <3>2, <3>3, <3>5 DEF SourceIsThere
  <2>10. \A t \in Overlays : t # type => Pending(t)' = Pending(t)
    <3>1. SUFFICES ASSUME NEW t \in Overlays, t # type PROVE Pending(t)' = Pending(t)
      OBVIOUS
    <3>2. Done(t)' <=> Done(t)
      BY <1>u, <3>1
    <3>3. CASE Done(t)
      BY <3>2, <3>3, Zenon DEF Pending
    <3>4. CASE ~Done(t)
      <4>1. memory'[Source(t)'] = memory[Source(t)]
        BY <2>9, <3>2, <3>4
      <4> QED
        BY <3>2, <3>4, <4>1, Zenon DEF Pending
    <3> QED
      BY <3>3, <3>4
  <2>11. Pending(type)' = << >> /\ Pending(type) = <<memory[ptr[type]].origin>>
    <3>1. Done(type)'
      BY <1>u
    <3> QED
      BY <2>8, <3>1, Zenon DEF Pending
  <2>12. (Current'.parts \o Pending("SOC_DTBO")') \o Pending("PLATFORM_DTBO")'
            = (Current.parts \o Pending("SOC_DTBO")) \o Pending("PLATFORM_DTBO")
    <3> DEFINE p == Current.parts
               o == memory[ptr[type]].origin
    <3>1. p \in Seq(Nat) /\ o \in Nat /\ Current'.parts = Append(p, o)
      BY <1>g, <1>k, <2>7 DEF Blob
    <3> HIDE DEF p, o
    <3>2. /\ Append(p, o) = p \o <<o>> /\ p \o << >> = p /\ Append(p, o) \o << >> = Append(p, o)
      <4>1. Append(p, o) \in Seq(Nat)
        BY <3>1
      <4>2. p \o << >> = p /\ Append(p, o) \o << >> = Append(p, o)
        BY <3>1, <4>1, ConcatEmptySeq
      <4>3. Append(p, o) = p \o <<o>>
        BY <3>1, AppendIsConcat
      <4> QED
        BY <4>2, <4>3
    <3>3. CASE type = "SOC_DTBO"
      <4>1. Pending("PLATFORM_DTBO")' = Pending("PLATFORM_DTBO")
        BY <1>b, <2>10, <3>3
      <4>2. Pending("SOC_DTBO")' = << >> /\ Pending("SOC_DTBO") = <<o>>
        BY <2>11, <3>3 DEF o
      <4>3. Current'.parts \o Pending("SOC_DTBO")' = p \o Pending("SOC_DTBO")
        BY <3>1, <3>2, <4>2
      <4> QED
        BY <4>1, <4>3 DEF p
    <3>4. CASE type = "PLATFORM_DTBO"
      <4>1. Pending("SOC_DTBO")' = << >> /\ Pending("SOC_DTBO") = << >>
        <5>1. Done("SOC_DTBO")
          BY <1>u, <3>4
        <5>2. Done("SOC_DTBO")'
          BY <1>b, <1>u, <5>1
        <5> QED
          BY <5>1, <5>2, Zenon DEF Pending
      <4>2. Pending("PLATFORM_DTBO")' = << >> /\ Pending("PLATFORM_DTBO") = <<o>>
        BY <2>11, <3>4 DEF o
      <4>3. (Append(p, o) \o << >>) \o << >> = (p \o << >>) \o <<o>>
        BY <3>1, <3>2
      <4> QED
        BY <3>1, <4>1, <4>2, <4>3 DEF p
    <3> QED
      BY <1>b, <3>3, <3>4
  <2>13. wanted' = [type |-> Current'.type, size |-> total_blob_size', origin |-> Current'.origin,
                   parts |-> (Current'.parts \o Pending("SOC_DTBO")') \o Pending("PLATFORM_DTBO")']
    BY <1>0, <1>g, <2>4, <2>7, <2>12
  <2>14. /\ total_blob_size' = size'["BASE_DTB"] + size'["PLATFORM_DTBO"]
                                 + IF Done("SOC_DTBO")' THEN 0 ELSE size'["SOC_DTBO"]
         /\ Current'.size = IF pc' = "exit" THEN total_blob_size' ELSE size'["BASE_DTB"]
    <3>1. Current'.size = ms
      BY <1>g, <2>7
    <3>2. CASE type = "SOC_DTBO"
      <4>1. ~Done("SOC_DTBO") /\ Done("SOC_DTBO")' /\ pc' # "exit"
        BY <1>b, <1>p, <1>u, <2>8, <3>2
      <4>2. ms = size["BASE_DTB"] + size["SOC_DTBO"]
        BY <3>2 DEF MergeSize
      <4> QED
        BY <1>0, <1>b, <1>r, <1>t, <2>4, <3>1, <3>2, <4>1, <4>2
    <3>3. CASE type = "PLATFORM_DTBO"
      <4>1. Done("SOC_DTBO") /\ Done("SOC_DTBO")' /\ pc' = "exit"
        BY <1>b, <1>p, <1>u, <3>3
      <4>2. ms = total_blob_size
        BY <3>3 DEF MergeSize
      <4> QED
        BY <1>0, <1>b, <1>r, <1>t, <2>4, <3>1, <3>3, <4>1, <4>2
    <3> QED
      BY <1>b, <3>2, <3>3
  <2>15. pre_or_post' = "PRE" /\ selected'["BASE_DTB"] = Start => Start + total_blob_size' <= ImageEnd
    BY <1>0, <2>4
  <2>16. \A t \in Overlays : ~Done(t)' => SourceIsThere(t)' /\ memory'[Source(t)'].size = size'[t]
    BY <2>9
  <2> QED
    BY <2>7, <2>13, <2>14, <2>15, <2>16 DEF CallIsOnItsWay
<1>10. WriteIsInside
  <2>1. SUFFICES ASSUME pre_or_post = "POST" PROVE WriteIsInside
    BY DEF WriteIsInside
  <2>2. Unmoved
    BY <2>1 DEF Unmoved
  <2>3. ms <= total_blob_size
    BY <1>0, <2>2, MergeStaysInside
  <2>4. PICK y \in heap : y.addr = base /\ y.size = total_blob_size
    BY <1>g, <2>1 DEF GetInv, ModeDecides, Buffer
  <2>5. y.addr \in Nat /\ y.addr > ImageEnd /\ overlay.addr \in Nat /\ overlay.addr > ImageEnd
    BY <1>h, AllocationsApart DEF GetInv
  <2>6. grown.size = ms /\ InAllocation(heap \cup heap', base, grown.size)
    <3>1. grown.size = ms
      BY <1>g
    <3>2. y.addr <= base /\ base + ms <= y.addr + y.size
      BY <1>g, <1>t, <2>3, <2>4, <2>5
    <3> QED
      BY <2>4, <3>1, <3>2 DEF InAllocation
  <2>7. ASSUME NEW c \in DOMAIN memory, c < ImageEnd PROVE c \in DOMAIN memory'
    <3>1. c + memory[c].size <= ImageEnd
      BY <2>1, <2>7, ImageIsWhole
    <3>2. /\ c # base /\ ~Overlaps(base, ms, c, memory[c].size)
          /\ ~Overlaps(c, memory[c].size, ptr[type], size[type])
      BY <1>b, <1>e, <1>g, <1>h, <1>k, <1>t, <2>4, <2>5, <2>7, <3>1, SMTT(60) DEF Overlaps
    <3> QED
      BY <1>g, <3>2
  <2> QED
    BY <1>g, <2>6, <2>7 DEF WriteIsInside
<1> QED
  BY <1>1, <1>f, <1>3, <1>4, <1>5, <1>6, <1>7, <1>8, <1>9, <1>10 DEF GetInv

(* What is selected is in the image, apart from what else is selected.     *)
LEMMA ChosenIs ==
    ASSUME GetInv, pc = "open", NEW chosen \in [BlobType -> {0} \cup Reached],
           \A t \in BlobType : chosen[t] \in Selectable(t)
    PROVE  /\ \A t \in BlobType : chosen[t] \in Nat /\ SizeAt(chosen[t]) \in Nat
           /\ \A t \in BlobType : chosen[t] # 0 =>
                 /\ chosen[t] \in DOMAIN memory /\ chosen[t] \in Start..(ImageEnd - 1)
                 /\ memory[chosen[t]].type = t
                 /\ SizeAt(chosen[t]) = memory[chosen[t]].size
                 /\ memory[chosen[t]] \in Blob
           /\ \A t \in BlobType : SizeAt(chosen[t]) = 0 <=> chosen[t] = 0
           /\ chosen["BASE_DTB"] = Start =>
                 Start + (SizeAt(chosen["BASE_DTB"]) + SizeAt(chosen["SOC_DTBO"])
                             + SizeAt(chosen["PLATFORM_DTBO"])) <= ImageEnd
<1>b. BlobType = {"BASE_DTB", "SOC_DTBO", "PLATFORM_DTBO"}
  BY DEF BlobType
<1>e. ImageEnd \in Nat /\ Start \in Nat \ {0} /\ Start < ImageEnd
  BY ConstantsAreTyped
<1>k. \A c \in DOMAIN memory : c \in Nat /\ memory[c] \in Blob /\ memory[c].size \in Nat \ {0}
                               /\ c # ImageEnd
  BY DEF GetInv, TypeOK, Blob, ImageIsInside
<1>i. \A c \in DOMAIN memory : c < ImageEnd => c + memory[c].size <= ImageEnd
  BY ImageIsWhole
<1>1. ASSUME NEW t \in BlobType, chosen[t] # 0
      PROVE  /\ chosen[t] \in DOMAIN memory /\ chosen[t] \in Start..(ImageEnd - 1)
             /\ chosen[t] \in Reached /\ memory[chosen[t]].type = t
             /\ SizeAt(chosen[t]) = memory[chosen[t]].size
  <2>1. chosen[t] \in Reached \cap DOMAIN memory /\ memory[chosen[t]].type = t
    BY <1>1 DEF Selectable
  <2>2. chosen[t] \in Start..ImageEnd /\ chosen[t] # ImageEnd
    BY <1>k, <2>1, ReachedMeaning
  <2> QED
    BY <1>1, <1>e, <2>1, <2>2 DEF SizeAt
<1>2. \A t \in BlobType : chosen[t] = 0 => SizeAt(chosen[t]) = 0
  BY DEF SizeAt
<1>3. \A b, a \in Reached \cap DOMAIN memory : a < b => a + memory[a].size <= b
  BY <1>k, ReachedApart
<1>4. \A t, u \in BlobType : chosen[t] # 0 /\ chosen[u] # 0 /\ chosen[t] < chosen[u] =>
          chosen[t] + SizeAt(chosen[t]) <= chosen[u]
  BY <1>1, <1>3
<1>5. \A t \in BlobType : chosen[t] # 0 => chosen[t] + SizeAt(chosen[t]) <= ImageEnd
                                           /\ SizeAt(chosen[t]) \in Nat \ {0}
  BY <1>1, <1>e, <1>i, <1>k
<1>6. \A t, u \in BlobType : chosen[t] # 0 /\ chosen[u] # 0 /\ t # u => chosen[t] # chosen[u]
  BY <1>1
<1>7. \A t \in BlobType : chosen[t] \in Nat /\ SizeAt(chosen[t]) \in Nat
  BY <1>1, <1>2, <1>5, <1>e
<1>8. ASSUME chosen["BASE_DTB"] = Start
      PROVE  Start + (SizeAt(chosen["BASE_DTB"]) + SizeAt(chosen["SOC_DTBO"])
                         + SizeAt(chosen["PLATFORM_DTBO"])) <= ImageEnd
  <2> DEFINE b == chosen["BASE_DTB"]
             s == chosen["SOC_DTBO"]
             p == chosen["PLATFORM_DTBO"]
             bn == SizeAt(b)
             sn == SizeAt(s)
             pn == SizeAt(p)
  <2>1. /\ b = Start /\ b # 0 /\ s \in Nat /\ p \in Nat /\ bn \in Nat /\ sn \in Nat /\ pn \in Nat
        /\ s = 0 => sn = 0
        /\ p = 0 => pn = 0
        /\ b + bn <= ImageEnd
        /\ s # 0 => s + sn <= ImageEnd /\ s # b /\ s >= Start /\ (b < s => b + bn <= s)
        /\ p # 0 => p + pn <= ImageEnd /\ p # b /\ p >= Start /\ (b < p => b + bn <= p)
        /\ s # 0 /\ p # 0 => s # p /\ (s < p => s + sn <= p) /\ (p < s => p + pn <= s)
    BY <1>1, <1>2, <1>4, <1>5, <1>6, <1>7, <1>8, <1>b, <1>e
  <2> HIDE DEF b, s, p, bn, sn, pn
  <2>2. Start + (bn + sn + pn) <= ImageEnd
    BY <1>e, <2>1
  <2> QED
    BY <2>2 DEF b, s, p, bn, sn, pn
<1>9. \A t \in BlobType : chosen[t] # 0 => memory[chosen[t]] \in Blob
  BY <1>1, <1>k
<1> QED
  BY <1>1, <1>2, <1>5, <1>7, <1>8, <1>9

(* What the selection wants is what is to be merged. *)
LEMMA WantedIs ==
    ASSUME NEW b \in Blob, NEW n \in Nat, NEW s \in Seq(Nat), NEW p \in Seq(Nat)
    PROVE  /\ [b EXCEPT !.size = n, !.parts = @ \o s \o p]
                 = [type |-> b.type, size |-> n, origin |-> b.origin, parts |-> (b.parts \o s) \o p]
           /\ [type |-> b.type, size |-> n, origin |-> b.origin, parts |-> (b.parts \o s) \o p] \in Blob
<1>1. [b EXCEPT !.size = n, !.parts = @ \o s \o p] = [b EXCEPT !.size = n, !.parts = (b.parts \o s) \o p]
  OBVIOUS
<1>2. b.parts \in Seq(Nat) /\ b.type \in BlobType /\ b.origin \in Nat
  BY DEF Blob
<1>3. (b.parts \o s) \o p \in Seq(Nat)
  <2>1. b.parts \o s \in Seq(Nat)
    BY <1>2
  <2> QED
    BY <2>1
<1> QED
  BY <1>1, <1>2, <1>3, Regrown DEF Blob

LEMMA OpenSucceedsKeeps ==
    ASSUME GetInv, NEW chosen \in [BlobType -> {0} \cup Reached], NEW handle,
           OpenSucceeds(chosen, handle)
    PROVE  GetInv'
<1> DEFINE base == chosen["BASE_DTB"]
           total == SizeAt(chosen["BASE_DTB"]) + SizeAt(chosen["SOC_DTBO"])
                       + SizeAt(chosen["PLATFORM_DTBO"])
           want == [memory[base] EXCEPT
                       !.size = total,
                       !.parts = @ \o OriginAt(chosen["SOC_DTBO"]) \o OriginAt(chosen["PLATFORM_DTBO"])]
<1>b. /\ "BASE_DTB" \in BlobType /\ \A t \in Overlays : t \in BlobType
  BY DEF BlobType, Overlays
<1>B. /\ BlobType = {"BASE_DTB", "SOC_DTBO", "PLATFORM_DTBO"}
      /\ Overlays = {"SOC_DTBO", "PLATFORM_DTBO"}
  BY DEF BlobType, Overlays
<1>0. /\ pc = "open" /\ Malloc(HandleSize, handle) /\ heap' = Allocated(handle, HandleSize)
      /\ \A t \in BlobType : chosen[t] \in Selectable(t)
      /\ dt_select_handle' = handle /\ selected' = chosen
      /\ size' = [t \in BlobType |-> SizeAt(chosen[t])]
      /\ memory' = memory /\ target' = target /\ pre_or_post' = pre_or_post
      /\ dtbs_image_size' = dtbs_image_size /\ ptr' = ptr /\ held' = held /\ misfreed' = misfreed
  BY DEF OpenSucceeds, arguments
<1>c. \/ /\ base = 0 /\ pc' = "exit" /\ return_status' = "INVALID_BASE_DTB_SIZE"
         /\ total_blob_size' = total_blob_size /\ wanted' = wanted
      \/ /\ base # 0 /\ total_blob_size' = total /\ wanted' = want /\ Proceed
         /\ return_status' = return_status
  <2>1. CASE base = 0
    BY <2>1 DEF OpenSucceeds, Fail
  <2>2. CASE base # 0
    <3>1. total_blob_size' = total /\ Proceed /\ return_status' = return_status
      BY <2>2 DEF OpenSucceeds
    <3>2. wanted' = [memory[base] EXCEPT
                       !.size = total_blob_size',
                       !.parts = @ \o OriginAt(chosen["SOC_DTBO"]) \o OriginAt(chosen["PLATFORM_DTBO"])]
      BY <2>2 DEF OpenSucceeds
    <3>3. wanted' = want
      BY <3>1, <3>2, Zenon
    <3> QED
      BY <2>2, <3>1, <3>3
  <2> QED
    BY <2>1, <2>2
<1>m. /\ target \in {"XBL", "UEFI"} /\ pre_or_post \in {"PRE", "POST"}
      /\ base # 0 => pc' = "read_base"
  BY <1>0, <1>c, Modes, NextStep DEF GetInv
<1>s. return_status = "NONE" /\ dt_select_handle = 0 /\ \A t \in BlobType : ptr[t] = 0
  BY <1>0 DEF GetInv, StepDecides, Unread
<1>e. ImageEnd \in Nat /\ Start \in Nat \ {0} /\ Start < ImageEnd /\ HandleSize \in Nat \ {0}
  BY ConstantsAreTyped
<1>h. /\ handle \in HeapSlots /\ handle \in Nat /\ handle > ImageEnd
      /\ HeapIsApart' /\ heap' \subseteq [addr : HeapSlots, size : Nat]
      /\ heap \subseteq heap' /\ [addr |-> handle, size |-> HandleSize] \in heap'
      /\ \A x \in heap' : x.addr # handle => x \in heap
      /\ \A x \in heap : x.addr # handle
  BY <1>0, <1>e, MallocApart DEF GetInv
<1>k. /\ \A t \in BlobType : chosen[t] \in Nat /\ SizeAt(chosen[t]) \in Nat
      /\ \A t \in BlobType : chosen[t] # 0 =>
            /\ chosen[t] \in DOMAIN memory /\ chosen[t] \in Start..(ImageEnd - 1)
            /\ memory[chosen[t]].type = t
            /\ SizeAt(chosen[t]) = memory[chosen[t]].size
            /\ memory[chosen[t]] \in Blob
      /\ \A t \in BlobType : SizeAt(chosen[t]) = 0 <=> chosen[t] = 0
      /\ base = Start => Start + total <= ImageEnd
  BY <1>0, ChosenIs
<1>z. size' \in [BlobType -> Nat] /\ \A t \in BlobType : size'[t] = SizeAt(chosen[t])
  BY <1>0, <1>k
<1>y. total \in Nat
  BY <1>B, <1>k
<1>o. \A t \in Overlays : OriginAt(chosen[t]) \in Seq(Nat)
  <2>1. ASSUME NEW t \in Overlays PROVE OriginAt(chosen[t]) \in Seq(Nat)
    <3>1. CASE chosen[t] = 0
      <4>1. OriginAt(chosen[t]) = << >>
        BY <3>1 DEF OriginAt
      <4> QED
        BY <4>1, EmptySeq
    <3>2. CASE chosen[t] # 0
      <4>1. OriginAt(chosen[t]) = <<memory[chosen[t]].origin>>
        BY <3>2 DEF OriginAt
      <4>2. memory[chosen[t]].origin \in Nat
        BY <1>b, <1>k, <3>2 DEF Blob
      <4> QED
        BY <4>1, <4>2
    <3> QED
      BY <3>1, <3>2
  <2> QED
    BY <2>1
<1>w. base # 0 =>
         /\ want = [type |-> memory[base].type, size |-> total, origin |-> memory[base].origin,
                    parts |-> (memory[base].parts \o OriginAt(chosen["SOC_DTBO"]))
                                 \o OriginAt(chosen["PLATFORM_DTBO"])]
         /\ want \in Blob
  <2>1. SUFFICES ASSUME base # 0
                 PROVE  /\ want = [type |-> memory[base].type, size |-> total,
                                   origin |-> memory[base].origin,
                                   parts |-> (memory[base].parts \o OriginAt(chosen["SOC_DTBO"]))
                                                \o OriginAt(chosen["PLATFORM_DTBO"])]
                        /\ want \in Blob
    OBVIOUS
  <2>2. memory[base] \in Blob
    BY <1>b, <1>k, <2>1
  <2>3. OriginAt(chosen["SOC_DTBO"]) \in Seq(Nat) /\ OriginAt(chosen["PLATFORM_DTBO"]) \in Seq(Nat)
    BY <1>o, <1>B
  <2> HIDE DEF total, base
  <2>4. /\ want = [type |-> memory[base].type, size |-> total,
                   origin |-> memory[base].origin,
                   parts |-> (memory[base].parts \o OriginAt(chosen["SOC_DTBO"]))
                                \o OriginAt(chosen["PLATFORM_DTBO"])]
        /\ [type |-> memory[base].type, size |-> total,
            origin |-> memory[base].origin,
            parts |-> (memory[base].parts \o OriginAt(chosen["SOC_DTBO"]))
                                \o OriginAt(chosen["PLATFORM_DTBO"])] \in Blob
    BY <1>y, <2>2, <2>3, WantedIs
  <2> QED
    BY <2>4, Zenon
<1> HIDE DEF want
<1>1. TypeOK'
  <2>1. pc' \in {"idle"} \cup {Steps'[i] : i \in DOMAIN Steps'} /\ pc' # "idle"
    BY <1>0, <1>c, <1>m, StepTyped
  <2>2. total_blob_size' \in Nat /\ wanted' \in Blob
    BY <1>c, <1>w, <1>y DEF GetInv, TypeOK
  <2>3. selected' \in [BlobType -> Nat]
    <3>1. chosen = [t \in BlobType |-> chosen[t]]
      OBVIOUS
    <3> QED
      BY <1>0, <1>k, <3>1
  <2> QED
    BY <1>0, <1>h, <1>z, <2>1, <2>2, <2>3 DEF GetInv, TypeOK
<1>3. HeapIsOwned'
  <2>1. Handle' \subseteq heap'
    BY <1>0, <1>h DEF Handle
  <2>2. ASSUME NEW x \in heap' PROVE x.addr = handle \/ \E h \in held : x.addr = h.addr
    <3>1. CASE x.addr # handle
      <4>1. x \in heap /\ x.addr # 0
        BY <1>e, <1>h, <3>1, AllocationsApart DEF GetInv
      <4> QED
        BY <1>s, <4>1 DEF GetInv, HeapIsOwned
    <3> QED
      BY <3>1
  <2>3. \A h \in held : h.addr # handle
    <3>1. pre_or_post = "POST" => \A h \in held : [addr |-> h.addr, size |-> h.size] \in heap
      BY DEF GetInv, ModeDecides, ResultIsMalloced
    <3>2. pre_or_post = "PRE" => held = {}
      BY <1>0 DEF GetInv, ModeDecides
    <3> QED
      BY <1>h, <1>m, <3>1, <3>2
  <2>4. /\ \A h \in held : h.addr # 0 /\ h.size # 0
        /\ \A g, h \in held : g.addr = h.addr => g = h
    BY DEF GetInv, HeapIsOwned
  <2> QED
    BY <1>0, <1>b, <1>s, <2>1, <2>2, <2>3, <2>4 DEF HeapIsOwned
<1>4. ModeDecides'
  BY <1>0, <1>b, <1>h, <1>s DEF GetInv, ModeDecides, ResultIsMalloced
<1>5. StepDecides'
  <2>1. CASE base = 0
    BY <1>0, <1>b, <1>c, <1>s, <2>1 DEF StepDecides, Working
  <2>2. CASE base # 0
    BY <1>0, <1>b, <1>c, <1>m, <1>s, <2>2 DEF StepDecides, Working, Unread
  <2> QED
    BY <2>1, <2>2
<1>6. ImageIsInside'
  <2>1. \A c \in DOMAIN memory : c < ImageEnd => c + memory[c].size <= ImageEnd
    BY <1>0, ImageIsWhole
  <2> QED
    BY <1>0, <2>1 DEF GetInv, ImageIsInside
<1>7. CallIsOnItsWay'
  <2>1. CASE base = 0
    BY <1>c, <2>1 DEF CallIsOnItsWay, Working
  <2>2. CASE base # 0
    <3>1. /\ \A t \in BlobType : Unread(t)' /\ Source(t)' = chosen[t]
          /\ \A t \in Overlays : Done(t)' <=> chosen[t] = 0
      <4>1. \A t \in BlobType : Unread(t)' /\ Source(t)' = chosen[t]
        BY <1>0, <1>m, <2>2 DEF Unread, Source
      <4>2. \A t \in Overlays : Done(t)' <=> chosen[t] = 0
        BY <1>b, <1>k, <1>m, <1>z, <2>2 DEF Done
      <4> QED
        BY <4>1, <4>2
    <3>2. \A t \in BlobType : chosen[t] # 0 => SourceIsThere(t)' /\ memory'[Source(t)'].size = size'[t]
      BY <1>0, <1>k, <1>z, <3>1 DEF SourceIsThere
    <3>3. Current' = memory[base] /\ Current'.size = size'["BASE_DTB"]
      BY <1>0, <1>b, <1>k, <1>z, <2>2, <3>1 DEF Current
    <3>4. \A t \in Overlays : Pending(t)' = OriginAt(chosen[t])
      <4>1. SUFFICES ASSUME NEW t \in Overlays PROVE Pending(t)' = OriginAt(chosen[t])
        OBVIOUS
      <4>2. (Done(t)' <=> chosen[t] = 0) /\ memory'[Source(t)'] = memory[chosen[t]]
        BY <1>0, <1>b, <3>1
      <4> QED
        BY <4>2, Zenon DEF Pending, OriginAt
    <3>5. wanted' = [type |-> Current'.type, size |-> total_blob_size', origin |-> Current'.origin,
                   parts |-> (Current'.parts \o Pending("SOC_DTBO")') \o Pending("PLATFORM_DTBO")']
      <4>1. /\ Pending("SOC_DTBO")' = OriginAt(chosen["SOC_DTBO"])
            /\ Pending("PLATFORM_DTBO")' = OriginAt(chosen["PLATFORM_DTBO"])
        BY <1>B, <3>4
      <4> QED
        BY <1>c, <1>w, <2>2, <3>3, <4>1
    <3>6. total_blob_size' = size'["BASE_DTB"] + size'["PLATFORM_DTBO"]
                              + IF Done("SOC_DTBO")' THEN 0 ELSE size'["SOC_DTBO"]
      <4>1. Done("SOC_DTBO")' => size'["SOC_DTBO"] = 0
        BY <1>B, <1>k, <1>z, <3>1
      <4> QED
        BY <1>B, <1>c, <1>k, <1>z, <2>2, <4>1
    <3>7. selected'["BASE_DTB"] = Start => Start + total_blob_size' <= ImageEnd
      BY <1>0, <1>c, <1>k, <2>2
    <3>8. pc' # "exit"
      BY <1>m, <2>2
    <3>9. \A t \in Overlays : ~Done(t)' => SourceIsThere(t)' /\ memory'[Source(t)'].size = size'[t]
      BY <1>b, <3>1, <3>2
    <3>10. SourceIsThere("BASE_DTB")'
      BY <1>b, <2>2, <3>2
    <3> QED
      BY <3>3, <3>5, <3>6, <3>7, <3>8, <3>9, <3>10 DEF CallIsOnItsWay
  <2> QED
    BY <2>1, <2>2
<1>8. UnmovedIsMerged'
  BY <1>0 DEF GetInv, UnmovedIsMerged, IsIntact
<1>9. ReadsFindBlobs'
  BY <1>c, <1>s DEF ReadsFindBlobs
<1> QED
  BY <1>1, <1>h, <1>3, <1>4, <1>5, <1>6, <1>7, <1>8, <1>9 DEF GetInv

(* Every initial state has the invariant: the image is as it was given.    *)
LEMMA InitHasInv ==
    ASSUME Init
    PROVE  GetInv
<1>1. PICK m \in Images :
         memory = [a \in DOMAIN m |-> [type |-> m[a].type, size |-> m[a].size,
                                       origin |-> a, parts |-> << >>]]
  BY DEF Init
<1>0. /\ heap = {} /\ held = {} /\ pc = "idle" /\ return_status = "NONE"
      /\ dtbs_image_size = 0 /\ dt_select_handle = 0 /\ selected = Zeros /\ ptr = Zeros
      /\ size = Zeros /\ total_blob_size = 0 /\ wanted = Nothing /\ misfreed = FALSE
  BY DEF Init
<1>2. <<target, pre_or_post>> \in Builds
  <2>1. PICK build \in Builds : target = build[1] /\ pre_or_post = build[2]
    BY DEF Init
  <2>2. build = <<build[1], build[2]>>
    BY ConstantsAreTyped
  <2> QED
    BY <2>1, <2>2
<1>e. ImageEnd \in Nat /\ Start \in Nat \ {0} /\ Start < ImageEnd /\ HeaderSize \in Nat \ {0}
  BY ConstantsAreTyped
<1>3. \A a \in DOMAIN m : /\ a \in Start..(ImageEnd - 1) /\ a + m[a].size <= ImageEnd
                          /\ m[a].type \in BlobType /\ m[a].size \in Nat \ {0}
  <2>1. \A a \in DOMAIN m : /\ a \in Start..(ImageEnd - 1) /\ a + m[a].size <= ImageEnd
                            /\ m[a] \in [type : BlobType, size : {n \in Nat : n >= HeaderSize}]
    BY ConstantsAreTyped
  <2> QED
    BY <1>e, <2>1
<1>4. /\ \A a \in DOMAIN memory : /\ a \in Start..(ImageEnd - 1) /\ memory[a] \in Blob
                                  /\ a + memory[a].size <= ImageEnd /\ memory[a].size # 0
  <2>1. << >> \in Seq(Nat)
    BY EmptySeq
  <2>2. DOMAIN memory = DOMAIN m
    BY <1>1
  <2>3. \A a \in DOMAIN m :
           /\ memory[a] = [type |-> m[a].type, size |-> m[a].size, origin |-> a, parts |-> << >>]
           /\ memory[a].size = m[a].size
    BY <1>1
  <2>4. ASSUME NEW a \in DOMAIN m
        PROVE  memory[a] \in Blob /\ memory[a].size = m[a].size
    <3>1. a \in Nat
      BY <1>3, <1>e
    <3>2. [type |-> m[a].type, size |-> m[a].size, origin |-> a, parts |-> << >>] \in Blob
      BY <1>3, <2>1, <3>1 DEF Blob
    <3> QED
      BY <2>3, <3>2
  <2> QED
    BY <1>3, <2>2, <2>4
<1>a. Zeros \in [BlobType -> Nat] /\ \A t \in BlobType : Zeros[t] = 0
  BY DEF Zeros
<1>b. "BASE_DTB" \in BlobType /\ \A t \in Overlays : t \in BlobType
  BY DEF BlobType, Overlays
<1>5. TypeOK
  <2>1. Nothing \in Blob
    BY EmptySeq DEF Nothing, Blob, BlobType
  <2>2. \A a \in DOMAIN memory : a \in Nat
    BY <1>4, <1>e
  <2> QED
    BY <1>0, <1>2, <1>4, <1>a, <2>1, <2>2 DEF TypeOK
<1>6. HeapIsApart /\ UnmovedIsMerged /\ ReadsFindBlobs /\ CallIsOnItsWay
  BY <1>0 DEF HeapIsApart, UnmovedIsMerged, ReadsFindBlobs, CallIsOnItsWay, Working
<1>7. HeapIsOwned
  BY <1>0, <1>a, <1>b DEF HeapIsOwned, Handle
<1>8. ModeDecides
  BY <1>0, <1>a, <1>b DEF ModeDecides, ResultIsMalloced
<1>9. StepDecides
  BY <1>0, <1>a, <1>b DEF StepDecides, Working
<1>10. ImageIsInside
  BY <1>4, <1>e DEF ImageIsInside
<1> QED
  BY <1>5, <1>6, <1>7, <1>8, <1>9, <1>10 DEF GetInv

(* A step that leaves the memory alone writes nothing. *)
LEMMA NoWrite ==
    ASSUME memory' = memory \/ pre_or_post # "POST"
    PROVE  WriteIsInside
  BY DEF WriteIsInside

LEMMA StepKeepsInv ==
    ASSUME GetInv, [Next]_vars
    PROVE  GetInv' /\ WriteIsInside
<1>1. ASSUME NEW n \in ImageSizes, Call(n) PROVE GetInv' /\ WriteIsInside
  BY <1>1, CallKeeps, NoWrite DEF Call
<1>2. ASSUME OpenFails PROVE GetInv' /\ WriteIsInside
  BY <1>2, OpenFailsKeeps, NoWrite DEF OpenFails
<1>3. ASSUME NEW chosen \in [BlobType -> {0} \cup Reached], NEW a \in HeapSlots,
             OpenSucceeds(chosen, a)
      PROVE  GetInv' /\ WriteIsInside
  BY <1>3, OpenSucceedsKeeps, NoWrite DEF OpenSucceeds
<1>4. ASSUME NEW a \in HeapSlots, ReadBase(a) PROVE GetInv' /\ WriteIsInside
  BY <1>4, ReadBaseKeeps
<1>5. ASSUME FindBase PROVE GetInv' /\ WriteIsInside
  BY <1>5, FindBaseKeeps, NoWrite DEF FindBase
<1>6. ASSUME MoveBase PROVE GetInv' /\ WriteIsInside
  BY <1>6, MoveBaseKeeps, NoWrite DEF MoveBase
<1>7. ASSUME SkipStep PROVE GetInv' /\ WriteIsInside
  BY <1>7, SkipStepKeeps, NoWrite DEF SkipStep
<1>8. ASSUME NEW type \in Overlays, NEW a \in HeapSlots, ReadOverlay(type, a)
      PROVE  GetInv' /\ WriteIsInside
  BY <1>8, ReadOverlayKeeps
<1>9. ASSUME NEW at, at # "idle", ReadFails(at) PROVE GetInv' /\ WriteIsInside
  BY <1>9, ReadFailsKeeps, NoWrite DEF ReadFails
<1>10. \A type \in Overlays : ReadStep[type] # "idle"
  BY DEF ReadStep, Overlays, BlobType
<1>11. ASSUME NEW type \in Overlays, MergeRefused(type) PROVE GetInv' /\ WriteIsInside
  BY <1>11, MergeRefusedKeeps, NoWrite DEF MergeRefused
<1>12. ASSUME NEW type \in Overlays, MergeFails(type) PROVE GetInv' /\ WriteIsInside
  BY <1>12, MergeFailsKeeps
<1>13. ASSUME NEW type \in Overlays, Merge(type) PROVE GetInv' /\ WriteIsInside
  BY <1>13, MergeKeeps
<1>14. ASSUME ReturnError PROVE GetInv' /\ WriteIsInside
  BY <1>14, ReturnErrorKeeps
<1>15. ASSUME ReturnResult PROVE GetInv' /\ WriteIsInside
  BY <1>15, ReturnResultKeeps, NoWrite DEF ReturnResult
<1>16. ASSUME NEW h \in held, get_dt_free(h) PROVE GetInv' /\ WriteIsInside
  BY <1>16, get_dt_freeKeeps
<1>17. ASSUME UNCHANGED vars PROVE GetInv' /\ WriteIsInside
  <2>1. /\ memory' = memory /\ heap' = heap /\ pc' = pc /\ return_status' = return_status
        /\ target' = target /\ pre_or_post' = pre_or_post /\ dtbs_image_size' = dtbs_image_size
        /\ dt_select_handle' = dt_select_handle /\ selected' = selected
        /\ total_blob_size' = total_blob_size /\ wanted' = wanted
        /\ ptr' = ptr /\ size' = size /\ held' = held /\ misfreed' = misfreed
    BY <1>17 DEF vars, arguments, choice
  <2>2. TypeOK' /\ HeapIsApart' /\ UnmovedIsMerged' /\ ReadsFindBlobs'
    BY <2>1 DEF GetInv, TypeOK, Steps, Zeros, HeapIsApart, UnmovedIsMerged, IsIntact, ReadsFindBlobs
  <2>3. HeapIsOwned' /\ ModeDecides'
    BY <2>1 DEF GetInv, HeapIsOwned, Handle, Buffer, ModeDecides, ResultIsMalloced
  <2>4. StepDecides' /\ ImageIsInside'
    BY <2>1 DEF GetInv, StepDecides, Unread, Done, Working, ImageIsInside
  <2>5. CallIsOnItsWay'
    <3>1. \A t : (Unread(t)' <=> Unread(t)) /\ (Done(t)' <=> Done(t))
      BY <2>1 DEF Unread, Done
    <3>2. \A t : Source(t)' = Source(t)
      BY <2>1, <3>1 DEF Source
    <3>3. \A t : SourceIsThere(t)' <=> SourceIsThere(t)
      BY <2>1, <3>1, <3>2 DEF SourceIsThere
    <3>4. \A t : Pending(t)' = Pending(t)
      BY <2>1, <3>1, <3>2, Zenon DEF Pending
    <3>5. Current' = Current
      BY <2>1, <3>2 DEF Current
    <3>6. (Working' <=> Working) /\ (Unmoved' <=> Unmoved)
      BY <2>1 DEF Working, Unmoved
    <3> QED
      BY <2>1, <3>1, <3>2, <3>3, <3>4, <3>5, <3>6 DEF GetInv, CallIsOnItsWay
  <2> QED
    BY <2>1, <2>2, <2>3, <2>4, <2>5, NoWrite DEF GetInv
<1> QED
  BY <1>1, <1>2, <1>3, <1>4, <1>5, <1>6, <1>7, <1>8, <1>9, <1>10, <1>11, <1>12, <1>13,
     <1>14, <1>15, <1>16, <1>17, Zenon DEF Next

----------------------------------------------------------------------------
(* What FREE_WRAPPER releases twice: an invariant of its own, since it is  *)
(* about the buffers that are gone and none that are left.                 *)

LEMMA FreeReleasesOnce ==
    ASSUME TypeOK, OnlyPagesAreReleasedTwice, NEW buffers, Free(buffers), target' = target
    PROVE  OnlyPagesAreReleasedTwice'
<1>1. ASSUME NEW n \in refreed' PROVE target = "UEFI" /\ n >= PageSize
  <2>1. CASE n \in refreed
    BY <2>1 DEF OnlyPagesAreReleasedTwice
  <2>2. CASE n \notin refreed
    <3>1. PICK b \in buffers : n = b.size /\ Len(Releases(b.size)) > 1
      BY <1>1, <2>2 DEF Free
    <3>2. Len(Releases(n)) > 1
      BY <3>1
    <3>3. target # "XBL" /\ n >= PageSize
      BY <3>2 DEF Releases
    <3>4. target = "UEFI"
      BY <3>3, Modes
    <3> QED
      BY <3>3, <3>4
  <2> QED
    BY <2>1, <2>2
<1> QED
  BY <1>1 DEF OnlyPagesAreReleasedTwice

LEMMA StepReleasesOnce ==
    ASSUME TypeOK, OnlyPagesAreReleasedTwice, [Next]_vars
    PROVE  OnlyPagesAreReleasedTwice'
<1>1. ASSUME refreed' = refreed, target' = target PROVE OnlyPagesAreReleasedTwice'
  BY <1>1 DEF OnlyPagesAreReleasedTwice
<1>2. ASSUME NEW n \in ImageSizes, Call(n) PROVE OnlyPagesAreReleasedTwice'
  BY <1>1, <1>2 DEF Call
<1>3. ASSUME OpenFails PROVE OnlyPagesAreReleasedTwice'
  BY <1>1, <1>3 DEF OpenFails, arguments
<1>4. ASSUME NEW chosen, NEW a \in HeapSlots, OpenSucceeds(chosen, a)
      PROVE  OnlyPagesAreReleasedTwice'
  BY <1>1, <1>4 DEF OpenSucceeds, arguments
<1>5. ASSUME NEW a \in HeapSlots, ReadBase(a) PROVE OnlyPagesAreReleasedTwice'
  BY <1>1, <1>5 DEF ReadBase, ReadInto, arguments
<1>6. ASSUME FindBase \/ MoveBase \/ SkipStep PROVE OnlyPagesAreReleasedTwice'
  BY <1>1, <1>6 DEF FindBase, MoveBase, SkipStep, arguments
<1>7. ASSUME NEW type \in Overlays, NEW a \in HeapSlots, ReadOverlay(type, a)
      PROVE  OnlyPagesAreReleasedTwice'
  BY <1>1, <1>7 DEF ReadOverlay, ReadInto, arguments
<1>8. ASSUME NEW at, ReadFails(at) PROVE OnlyPagesAreReleasedTwice'
  BY <1>1, <1>8 DEF ReadFails, arguments
<1>9. ASSUME NEW type \in Overlays, MergeRefused(type) \/ MergeFails(type)
      PROVE  OnlyPagesAreReleasedTwice'
  BY <1>1, <1>9 DEF MergeRefused, MergeFails, arguments
<1>10. ASSUME NEW type \in Overlays, Merge(type) PROVE OnlyPagesAreReleasedTwice'
  <2>1. Free({Buffer(type)}) /\ target' = target
    BY <1>10 DEF Merge, arguments
  <2> QED
    BY <2>1, FreeReleasesOnce
<1>11. ASSUME ReturnError PROVE OnlyPagesAreReleasedTwice'
  <2>1. Free(Buffers \cup Handle) /\ target' = target
    BY <1>11 DEF ReturnError, arguments
  <2> QED
    BY <2>1, FreeReleasesOnce
<1>12. ASSUME ReturnResult PROVE OnlyPagesAreReleasedTwice'
  <2>1. Free(Handle) /\ target' = target
    BY <1>12 DEF ReturnResult, arguments
  <2> QED
    BY <2>1, FreeReleasesOnce
<1>13. ASSUME NEW h \in held, get_dt_free(h) PROVE OnlyPagesAreReleasedTwice'
  <2>1. Free({[addr |-> h.addr, size |-> h.size]}) /\ target' = target
    BY <1>13 DEF get_dt_free, arguments
  <2> QED
    BY <2>1, FreeReleasesOnce
<1>14. ASSUME UNCHANGED vars PROVE OnlyPagesAreReleasedTwice'
  BY <1>1, <1>14 DEF vars, arguments
<1> QED
  BY <1>2, <1>3, <1>4, <1>5, <1>6, <1>7, <1>8, <1>9, <1>10, <1>11, <1>12, <1>13, <1>14,
     Zenon DEF Next

----------------------------------------------------------------------------
(* The theorems *)

(* What the variables hold at every step of every call of get_dt, up to    *)
(* the pointers a call leaves behind when it returns (get_dt.c:63-247).    *)
THEOREM TypeCorrect == Spec => []TypeOK
<1>1. Init => GetInv
  BY InitHasInv
<1>2. GetInv /\ [Next]_vars => GetInv'
  BY StepKeepsInv
<1>3. GetInv => TypeOK
  BY DEF GetInv
<1> QED
  BY <1>1, <1>2, <1>3, PTL DEF Spec

(* Between the choice of a blob by dt_select and its dt_select_read_blob   *)
(* nothing writes over it: the second look at its header finds what the    *)
(* first one did, whatever is merged in between (get_dt.c:132-188).        *)
THEOREM ChosenBlobsAreRead == Spec => []ReadsFindBlobs
<1>1. Init => GetInv
  BY InitHasInv
<1>2. GetInv /\ [Next]_vars => GetInv'
  BY StepKeepsInv
<1>3. GetInv => ReadsFindBlobs
  BY DEF GetInv
<1> QED
  BY <1>1, <1>2, <1>3, PTL DEF Spec

(* What get_dt returned is, for as long as the caller holds it, the base   *)
(* DTB that was selected with its overlays merged in their order, and of   *)
(* the size get_dt said: in POST mode, and in PRE mode when the base DTB   *)
(* is the first blob of the image (get_dt.c:132-239).                      *)
THEOREM ResultsAreMerged == Spec => []UnmovedIsMerged
<1>1. Init => GetInv
  BY InitHasInv
<1>2. GetInv /\ [Next]_vars => GetInv'
  BY StepKeepsInv
<1>3. GetInv => UnmovedIsMerged
  BY DEF GetInv
<1> QED
  BY <1>1, <1>2, <1>3, PTL DEF Spec

(* Whatever fails, a call leaves no allocation but its result's behind; in *)
(* POST mode the result is one allocation of the size returned, and every  *)
(* FREE_WRAPPER is of a live allocation and with its number of pages       *)
(* (get_dt.c:201-202, :213-244, :446).  FREE_WRAPPER releases what it is   *)
(* given once, but for pages of the UEFI build, which are released twice   *)
(* (dt_select_env.c:140-149).                                              *)
THEOREM NothingIsLost == Spec => []BuffersAreGivenBack
<1>1. Init => GetInv /\ OnlyPagesAreReleasedTwice
  BY InitHasInv DEF Init, OnlyPagesAreReleasedTwice
<1>2. GetInv /\ OnlyPagesAreReleasedTwice /\ [Next]_vars =>
         GetInv' /\ OnlyPagesAreReleasedTwice'
  BY StepKeepsInv, StepReleasesOnce DEF GetInv
<1>3. ASSUME GetInv, OnlyPagesAreReleasedTwice PROVE BuffersAreGivenBack
  <2>1. ASSUME pc = "idle", NEW x \in heap PROVE \E h \in held : h.addr = x.addr
    <3>1. x.addr # 0
      BY <1>3, AllocationsApart, ConstantsAreTyped DEF GetInv
    <3>2. dt_select_handle = 0 /\ \A t \in BlobType : ptr[t] = 0
      BY <1>3, <2>1 DEF GetInv, TypeOK, Zeros
    <3> QED
      BY <3>1, <3>2, <1>3 DEF GetInv, HeapIsOwned
  <2> QED
    BY <1>3, <2>1 DEF BuffersAreGivenBack, NothingLeaks, GetInv, ModeDecides
<1> QED
  BY <1>1, <1>2, <1>3, PTL DEF Spec

(* In POST mode no step writes outside an allocation that is live, though  *)
(* the merges grow the base DTB in place, and no step takes a blob out of  *)
(* the image later calls select from (get_dt.c:108-126, :188, :207).       *)
THEOREM WritesAreInside == Spec => WritesStayInside
<1>1. Init => GetInv
  BY InitHasInv
<1>2. GetInv /\ [Next]_vars => GetInv' /\ WriteIsInside
  BY StepKeepsInv
<1>3. GetInv /\ [Next]_vars =>
         [pre_or_post = "POST" =>
          /\ \A a \in DOMAIN memory' :
                a \notin DOMAIN memory \/ memory'[a] # memory[a] =>
                    InAllocation(heap \cup heap', a, memory'[a].size)
          /\ \A a \in DOMAIN memory : a < ImageEnd => a \in DOMAIN memory']_vars
  BY <1>2 DEF WriteIsInside
<1> QED
  BY <1>1, <1>2, <1>3, PTL DEF Spec, WritesStayInside

=============================================================================
