--------------------------- MODULE DtSelect_proofs ---------------------------
(***************************************************************************)
(* Proofs about the selection: for every image, every device and every     *)
(* outcome of the allocations, what the walk holds is the best of what it  *)
(* has walked over.                                                        *)
(***************************************************************************)
EXTENDS DtSelect, TLAPS, WellFoundedInduction

(* The choices in lists: a nonempty set of naturals has a least element. *)
LEMMA LeastIndex ==
    ASSUME NEW T, T \subseteq Nat, T # {}
    PROVE  \E k \in T : \A j \in T : k <= j
<1>1. \E k \in T : \A j \in T : ~ (<<j, k>> \in OpToRel(<, Nat))
  BY NatLessThanWellFounded, WFMin, Zenon
<1>2. PICK k \in T : \A j \in T : ~ (<<j, k>> \in OpToRel(<, Nat))
  BY <1>1
<1>3. \A j \in T : k <= j
  <2>1. TAKE j \in T
  <2>2. j \in Nat /\ k \in Nat
    OBVIOUS
  <2>3. ~ (<<j, k>> \in OpToRel(<, Nat))
    BY <1>2
  <2>4. ~ (j < k)
    BY <2>2, <2>3 DEF OpToRel
  <2> QED
    BY <2>2, <2>4
<1> QED
  BY <1>3

(* The entry _is_chipinfo_family_match copies is one of the list, and of   *)
(* the device's family.                                                    *)
LEMMA ChipInfoSelected ==
    ASSUME NEW b \in Blob, NEW r \in Request, FamilyMatches(b, r)
    PROVE  DT_chipinfo_selected(b, r) \in ChipInfo
<1> DEFINE T == {k \in DOMAIN b.chip_info : b.chip_info[k].family = r.chip_family}
<1>1. b.chip_info \in Seq(ChipInfo)
  BY DEF FamilyMatches, Blob
<1>2. DOMAIN b.chip_info \subseteq Nat /\ \A k \in DOMAIN b.chip_info : b.chip_info[k] \in ChipInfo
  BY <1>1
<1>3. T \subseteq Nat /\ T # {}
  BY <1>2 DEF FamilyMatches
<1>4. \E k \in T : \A j \in T : k <= j
  BY <1>3, LeastIndex
<1>5. \E k \in DOMAIN b.chip_info :
         /\ b.chip_info[k].family = r.chip_family
         /\ \A j \in DOMAIN b.chip_info : b.chip_info[j].family = r.chip_family => k <= j
  BY <1>4
<1> QED
  BY <1>2, <1>5 DEF DT_chipinfo_selected

(* The same of the board-info entry of a blob taken for a platform DTBO. *)
LEMMA PlatInfoSelected ==
    ASSUME NEW b \in Blob, NEW r \in Request,
           BlobTypeIdentified(b, r), device_tree_type(b) = "PLATFORM_DTBO"
    PROVE  DT_platforminfo_selected(b, r) \in PlatInfo
<1> DEFINE T == {k \in DOMAIN b.board_info : b.board_info[k].type = r.platform_type}
<1>0. b.board_info \notin {Absent, Malformed} /\ PlatformTypeMatches(b, r)
  BY DEF BlobTypeIdentified, device_tree_type
<1>1. b.board_info \in Seq(PlatInfo)
  BY <1>0 DEF Blob
<1>2. DOMAIN b.board_info \subseteq Nat /\ \A k \in DOMAIN b.board_info : b.board_info[k] \in PlatInfo
  BY <1>1
<1>3. T \subseteq Nat /\ T # {}
  BY <1>0, <1>2 DEF PlatformTypeMatches
<1>4. \E k \in T : \A j \in T : k <= j
  BY <1>3, LeastIndex
<1>5. \E k \in DOMAIN b.board_info :
         /\ b.board_info[k].type = r.platform_type
         /\ \A j \in DOMAIN b.board_info : b.board_info[j].type = r.platform_type => k <= j
  BY <1>4
<1> QED
  BY <1>2, <1>5 DEF DT_platforminfo_selected

----------------------------------------------------------------------------
(* Scores *)

LEMMA VersionIsNat ==
    ASSUME NEW shift \in Nat \ {0}, NEW major \in 0..(shift - 1), NEW minor \in 0..(shift - 1)
    PROVE  VersionCalc(major, minor, shift) \in Nat
<1>1. major \in Nat /\ minor \in Nat
  OBVIOUS
<1>2. major * shift \in Nat
  BY <1>1
<1> QED
  BY <1>1, <1>2 DEF VersionCalc

(* The numbers compared order versions as their fields do, because a minor *)
(* version fits below the shift.                                           *)
LEMMA VersionOrder ==
    ASSUME NEW shift \in Nat \ {0},
           NEW M1 \in Nat, NEW m1 \in 0..(shift - 1),
           NEW M2 \in Nat, NEW m2 \in 0..(shift - 1)
    PROVE  /\ VersionCalc(M1, m1, shift) > VersionCalc(M2, m2, shift)
                <=> M1 > M2 \/ (M1 = M2 /\ m1 > m2)
           /\ VersionCalc(M1, m1, shift) = VersionCalc(M2, m2, shift)
                <=> M1 = M2 /\ m1 = m2
<1>1. ASSUME NEW a \in Nat, NEW b \in Nat, a > b PROVE a * shift >= b * shift + shift
  <2>1. PICK d \in Nat : a = b + 1 + d
    <3>1. a - b - 1 \in Nat /\ a = b + 1 + (a - b - 1)
      BY <1>1
    <3> QED
      BY <3>1
  <2>2. a * shift = b * shift + shift + d * shift
    BY <2>1
  <2>3. d * shift \in Nat /\ b * shift \in Nat
    OBVIOUS
  <2> QED
    BY <2>2, <2>3
<1>2. M1 * shift \in Nat /\ M2 * shift \in Nat
  OBVIOUS
<1>3. m1 \in Nat /\ m2 \in Nat /\ m1 < shift /\ m2 < shift
  OBVIOUS
<1>4. CASE M1 > M2
  <2>1. M1 * shift >= M2 * shift + shift
    BY <1>1, <1>4
  <2> DEFINE u == M1 * shift
             v == M2 * shift
  <2>2. u \in Nat /\ v \in Nat /\ u >= v + shift
    BY <1>2, <2>1
  <2> HIDE DEF u, v
  <2>3. u + m1 > v + m2
    BY <1>3, <2>2
  <2> QED
    BY <1>3, <1>4, <2>2, <2>3 DEF VersionCalc, u, v
<1>5. CASE M2 > M1
  <2>1. M2 * shift >= M1 * shift + shift
    BY <1>1, <1>5
  <2> DEFINE u == M1 * shift
             v == M2 * shift
  <2>2. u \in Nat /\ v \in Nat /\ v >= u + shift
    BY <1>2, <2>1
  <2> HIDE DEF u, v
  <2>3. u + m1 < v + m2 /\ u + m1 \in Nat /\ v + m2 \in Nat
    BY <1>3, <2>2
  <2>4. ~(u + m1 > v + m2) /\ u + m1 # v + m2
    BY <2>3
  <2> QED
    BY <1>3, <1>5, <2>4 DEF VersionCalc, u, v
<1>6. CASE M1 = M2
  <2> DEFINE u == M1 * shift
  <2>1. u \in Nat
    BY <1>2
  <2> HIDE DEF u
  <2>2. /\ u + m1 > u + m2 <=> m1 > m2
        /\ u + m1 = u + m2 <=> m1 = m2
    BY <1>3, <2>1
  <2> QED
    BY <1>3, <1>6, <2>2 DEF VersionCalc, u
<1> QED
  BY <1>4, <1>5, <1>6

(* A candidate's score for the SOC place lies in the table's range, so it  *)
(* beats the initial score of rank -1.                                     *)
LEMMA SocScoreTyped ==
    ASSUME NEW b \in Blob, NEW r \in Request, IsCandidate(b, r)
    PROVE  /\ SocScore(b, r) \in SocScores
           /\ SocScore(b, r).rank >= 0
<1>1. DT_chipinfo_selected(b, r) \in ChipInfo
  BY ChipInfoSelected DEF IsCandidate
<1>2. ChipVersion(b, r) \in Nat
  BY <1>1, VersionIsNat, ConstantsAreTyped DEF ChipVersion, ChipInfo
<1> QED
  BY <1>2 DEF SocScore, SocScores, NotMasked

LEMMA PlatScoreTyped ==
    ASSUME NEW b \in Blob, NEW r \in Request, IsCandidate(b, r),
           device_tree_type(b) = "PLATFORM_DTBO"
    PROVE  /\ PlatScore(b, r) \in PlatScores
           /\ PlatScore(b, r).rank >= 0
<1>1. DT_chipinfo_selected(b, r) \in ChipInfo
  BY ChipInfoSelected DEF IsCandidate
<1>2. DT_platforminfo_selected(b, r) \in PlatInfo
  BY PlatInfoSelected DEF IsCandidate
<1>3. ChipVersion(b, r) \in Nat
  BY <1>1, VersionIsNat, ConstantsAreTyped DEF ChipVersion, ChipInfo
<1>4. PlatVersion(b, r) \in Nat
  BY <1>2, VersionIsNat, ConstantsAreTyped DEF PlatVersion, PlatInfo
<1> QED
  BY <1>3, <1>4 DEF PlatScore, PlatScores, NotMasked

(* Comparing only with the best so far is enough because the orders are    *)
(* transitive through ties.                                                *)
LEMMA SocOrder ==
    ASSUME NEW x \in SocScores, NEW y \in SocScores, NEW z \in SocScores
    PROVE  /\ SocBeats(x, y) /\ SocBeats(y, z) => SocBeats(x, z)
           /\ SocBeats(x, y) /\ ~SocBeats(z, y) => SocBeats(x, z)
           /\ SocBeats(x, y) => ~SocBeats(y, x)
BY DEF SocBeats, SocScores

LEMMA PlatOrder ==
    ASSUME NEW x \in PlatScores, NEW y \in PlatScores, NEW z \in PlatScores
    PROVE  /\ PlatBeats(x, y) /\ PlatBeats(y, z) => PlatBeats(x, z)
           /\ PlatBeats(x, y) /\ ~PlatBeats(z, y) => PlatBeats(x, z)
           /\ PlatBeats(x, y) => ~PlatBeats(y, x)
BY DEF PlatBeats, PlatScores

(* The ranks and numbers the code computes decide as the ranking means. *)
LEMMA SocBeatsMeaning ==
    ASSUME request \in Request, NEW b \in Blob, NEW c \in Blob,
           IsCandidate(b, request), IsCandidate(c, request)
    PROVE  SocBeats(SocScore(b, request), SocScore(c, request)) <=> SocOutranks(b, c)
<1> DEFINE x == DT_chipinfo_selected(b, request)
           y == DT_chipinfo_selected(c, request)
<1>1. x \in ChipInfo /\ y \in ChipInfo
  BY ChipInfoSelected DEF IsCandidate
<1> HIDE DEF x, y
<1>2. ChipShift \in Nat \ {0}
  BY ConstantsAreTyped
<1>3. /\ x.major \in Nat /\ y.major \in Nat
      /\ x.minor \in 0..(ChipShift - 1) /\ y.minor \in 0..(ChipShift - 1)
      /\ x.id \in Nat /\ y.id \in Nat
  BY <1>1, <1>2 DEF ChipInfo
<1>4. VersionCalc(x.major, x.minor, ChipShift) > VersionCalc(y.major, y.minor, ChipShift)
        <=> Newer(x, y)
  BY <1>2, <1>3, VersionOrder DEF Newer
<1>5. SocBeats(SocScore(b, request), SocScore(c, request))
        <=> \/ NotMasked(x.id) > NotMasked(y.id)
            \/ NotMasked(x.id) = NotMasked(y.id) /\ Newer(x, y)
  BY <1>4 DEF SocBeats, SocScore, ChipVersion, x, y
<1>6. /\ NotMasked(x.id) > NotMasked(y.id) <=> MoreSpecific(x.id, y.id)
      /\ NotMasked(x.id) = NotMasked(y.id) <=> AsSpecific(x.id, y.id)
  BY <1>3 DEF NotMasked, MoreSpecific, AsSpecific
<1>7. SocOutranks(b, c) <=> \/ MoreSpecific(x.id, y.id)
                            \/ AsSpecific(x.id, y.id) /\ Newer(x, y)
  BY DEF SocOutranks, x, y
<1> QED
  BY <1>5, <1>6, <1>7

LEMMA PlatBeatsMeaning ==
    ASSUME request \in Request, NEW b \in Blob, NEW c \in Blob,
           IsCandidate(b, request), IsCandidate(c, request),
           device_tree_type(b) = "PLATFORM_DTBO", device_tree_type(c) = "PLATFORM_DTBO"
    PROVE  PlatBeats(PlatScore(b, request), PlatScore(c, request)) <=> PlatOutranks(b, c)
<1> DEFINE x == DT_chipinfo_selected(b, request)
           y == DT_chipinfo_selected(c, request)
           p == DT_platforminfo_selected(b, request)
           q == DT_platforminfo_selected(c, request)
<1>1. x \in ChipInfo /\ y \in ChipInfo /\ p \in PlatInfo /\ q \in PlatInfo
  BY ChipInfoSelected, PlatInfoSelected DEF IsCandidate
<1> HIDE DEF x, y, p, q
<1>2. ChipShift \in Nat \ {0} /\ PlatShift \in Nat \ {0}
  BY ConstantsAreTyped
<1>3. /\ x.major \in Nat /\ y.major \in Nat
      /\ x.minor \in 0..(ChipShift - 1) /\ y.minor \in 0..(ChipShift - 1)
      /\ x.id \in Nat /\ y.id \in Nat
  BY <1>1, <1>2 DEF ChipInfo
<1>4. /\ p.major \in Nat /\ q.major \in Nat
      /\ p.minor \in 0..(PlatShift - 1) /\ q.minor \in 0..(PlatShift - 1)
      /\ p.subtype \in Nat /\ q.subtype \in Nat
  BY <1>1, <1>2 DEF PlatInfo
<1>5. VersionCalc(x.major, x.minor, ChipShift) > VersionCalc(y.major, y.minor, ChipShift)
        <=> Newer(x, y)
  BY <1>2, <1>3, VersionOrder DEF Newer
<1>6. /\ VersionCalc(p.major, p.minor, PlatShift) > VersionCalc(q.major, q.minor, PlatShift)
           <=> Newer(p, q)
      /\ VersionCalc(p.major, p.minor, PlatShift) = VersionCalc(q.major, q.minor, PlatShift)
           <=> SameVersion(p, q)
  BY <1>2, <1>4, VersionOrder DEF Newer, SameVersion
<1> DEFINE u == 2 * NotMasked(p.subtype) + NotMasked(x.id)
           v == 2 * NotMasked(q.subtype) + NotMasked(y.id)
<1>7. PlatBeats(PlatScore(b, request), PlatScore(c, request))
        <=> \/ u > v
            \/ u = v /\ (Newer(p, q) \/ (SameVersion(p, q) /\ Newer(x, y)))
  BY <1>5, <1>6 DEF PlatBeats, PlatScore, ChipVersion, PlatVersion, x, y, p, q
<1>8. /\ u > v <=> \/ MoreSpecific(p.subtype, q.subtype)
                   \/ AsSpecific(p.subtype, q.subtype) /\ MoreSpecific(x.id, y.id)
      /\ u = v <=> AsSpecific(p.subtype, q.subtype) /\ AsSpecific(x.id, y.id)
  BY <1>3, <1>4 DEF NotMasked, MoreSpecific, AsSpecific
<1>9. PlatOutranks(b, c)
        <=> \/ MoreSpecific(p.subtype, q.subtype)
            \/ /\ AsSpecific(p.subtype, q.subtype)
               /\ \/ MoreSpecific(x.id, y.id)
                  \/ /\ AsSpecific(x.id, y.id)
                     /\ \/ Newer(p, q)
                        \/ SameVersion(p, q) /\ Newer(x, y)
  BY DEF PlatOutranks, x, y, p, q
<1> QED
  BY <1>7, <1>8, <1>9

----------------------------------------------------------------------------
(* Type correctness *)

LEMMA CurrentTyped ==
    ASSUME TypeOK, AtBlob
    PROVE  /\ fdtheader \in DOMAIN memory
           /\ memory[fdtheader] \notin {BadMagic, BadHeader}
           /\ Current \in Blob
           /\ handle \in Handles
           /\ fdtheader + Current.size \in Nat
           /\ fdtheader + Current.size > fdtheader
<1>1. fdt_check_header(memory, fdtheader) = "SUCCESS"
  BY DEF AtBlob, AtHeader, HeaderStatus
<1>2. /\ Contents(memory, fdtheader) # BadMagic
      /\ Contents(memory, fdtheader) # BadHeader
  BY <1>1 DEF fdt_check_header
<1>3. fdtheader \in DOMAIN memory /\ memory[fdtheader] \notin {BadMagic, BadHeader}
  BY <1>2 DEF Contents
<1>4. Current \in Blob
  BY <1>3 DEF TypeOK, Current
<1>5. fdtheader \in Nat /\ Current.size \in Nat \ {0}
  BY <1>4 DEF TypeOK, Address, Blob
<1> QED
  BY <1>3, <1>4, <1>5 DEF TypeOK, AtBlob, AtHeader

(* TypeOK holds in every state: the ranks keep to the tables of the source *)
(* and a call under way always has its handle.                             *)
LEMMA TypeInit == Init => TypeOK
BY ConstantsAreTyped DEF Init, TypeOK, Address, NoSocScore, NoPlatScore, SocScores, PlatScores

LEMMA TypeStep == TypeOK /\ [Next]_vars => TypeOK'
<1> SUFFICES ASSUME TypeOK, [Next]_vars PROVE TypeOK'
  OBVIOUS
<1> USE DEF Address
<1>0. \A a \in DOMAIN memory : a \in Nat /\ memory[a] \in {BadMagic, BadHeader} \cup Blob
  BY DEF TypeOK
<1>e. EmptyHandle \in Handles
  BY DEF EmptyHandle, Handles
<1>a. ASSUME NEW error, Abort(error) PROVE TypeOK'
  BY <1>a DEF TypeOK, Abort, inputs
<1>n. ASSUME AtBlob, NextEntry PROVE
        /\ fdtheader' \in Nat
        /\ examined' \subseteq {a \in DOMAIN memory : memory[a] \notin {BadMagic, BadHeader}}
        /\ passed_over \subseteq examined'
        /\ examined \subseteq examined' /\ fdtheader \in examined'
        /\ memory' = memory /\ request' = request /\ dtbs_image_size' = dtbs_image_size
        /\ pc' = pc
  BY <1>n, CurrentTyped DEF TypeOK, NextEntry, inputs
<1>h. ASSUME AtBlob, NEW p \in Nat, NEW s \in Nat PROVE
        /\ [handle EXCEPT !.base_dtb_ptr = p, !.base_dtb_size = s] \in Handles
        /\ [handle EXCEPT !.soc_dtbo_ptr = p, !.soc_dtbo_size = s] \in Handles
        /\ [handle EXCEPT !.plat_dtbo_ptr = p, !.plat_dtbo_size = s] \in Handles
        /\ handle \in Handles
  BY <1>h, CurrentTyped DEF Handles
<1>s. AtBlob => fdtheader \in Nat /\ Current.size \in Nat
  BY CurrentTyped DEF TypeOK, Blob
<1>1. CASE Open
  BY <1>1, <1>e, ConstantsAreTyped DEF TypeOK, Open, inputs, NoSocScore, NoPlatScore, SocScores, PlatScores
<1>2. CASE OpenRefused
  BY <1>2 DEF TypeOK, OpenRefused, inputs
<1>3. CASE HeaderRejected
  BY <1>3, <1>a DEF HeaderRejected
<1>4. CASE NoBoardId
  BY <1>4, <1>a DEF NoBoardId
<1>5. CASE CandidacyMallocFails
  BY <1>5, <1>a DEF CandidacyMallocFails
<1>6. CASE SkipEntry
  BY <1>6, <1>n DEF TypeOK, SkipEntry
<1>7. CASE ValidateBaseDtb
  <2>1. handle' \in Handles
    BY <1>7, <1>h, <1>s DEF ValidateBaseDtb, AtCandidate
  <2> QED
    BY <1>7, <1>n, <2>1 DEF TypeOK, ValidateBaseDtb, AtCandidate
<1>8. CASE ValidateSocDtbo
  <2>1. handle' \in Handles
    BY <1>8, <1>h, <1>s DEF ValidateSocDtbo, AtCandidate
  <2>2. SocScore(Current, request) \in SocScores
    BY <1>8, CurrentTyped, SocScoreTyped DEF ValidateSocDtbo, AtCandidate, TypeOK
  <2> QED
    BY <1>8, <1>n, <2>1, <2>2 DEF TypeOK, ValidateSocDtbo, AtCandidate
<1>9. CASE ValidatePlatformDtbo
  <2>1. handle' \in Handles
    BY <1>9, <1>h, <1>s DEF ValidatePlatformDtbo, AtCandidate
  <2>2. PlatScore(Current, request) \in PlatScores
    BY <1>9, CurrentTyped, PlatScoreTyped DEF ValidatePlatformDtbo, AtCandidate, TypeOK
  <2> QED
    BY <1>9, <1>n, <2>1, <2>2 DEF TypeOK, ValidatePlatformDtbo, AtCandidate
<1>10. CASE OemMallocFails
  BY <1>10, <1>n DEF TypeOK, OemMallocFails, AtCandidate
<1>11. CASE Finish
  BY <1>11 DEF TypeOK, Finish, AtEnd, inputs
<1>12. CASE FinishFails
  BY <1>12, <1>a DEF FinishFails
<1>13. CASE Close
  BY <1>13 DEF TypeOK, Close, inputs
<1>14. CASE CallWithoutHandle
  BY <1>14 DEF TypeOK, CallWithoutHandle, inputs
<1>15. ASSUME NEW type, NEW size, ReadBlob(type, size) PROVE TypeOK'
  BY <1>15 DEF TypeOK, ReadBlob, inputs
<1>16. CASE UNCHANGED vars
  BY <1>16 DEF TypeOK, vars
<1> QED
  BY <1>1, <1>2, <1>3, <1>4, <1>5, <1>6, <1>7, <1>8, <1>9, <1>10, <1>11, <1>12,
     <1>13, <1>14, <1>15, <1>16 DEF Next, Walk, Call

THEOREM TypeCorrect == Spec => []TypeOK
<1> QED
  BY TypeInit, TypeStep, PTL DEF Spec

----------------------------------------------------------------------------
(* The inductive invariant *)

(* The walk only moves on: what it has examined lies behind it.  An entry  *)
(* it is about to examine is new, and no entry has the address 0, which    *)
(* stands for "nothing selected".                                          *)
Behind ==
    pc # "closed" =>
        /\ Start <= fdtheader
        /\ \A a \in examined : Start <= a /\ a < fdtheader

(* What is held is the best only because the score it is compared by is    *)
(* its own, and only counts as the first because the walk moves on.        *)
SelectionInv ==
    /\ TypeOK
    /\ Behind
    /\ ScoresMatch
    /\ BaseIsFirst
    /\ SocIsBest
    /\ PlatIsBest

(* A step that leaves the selection, and what it is made of, alone. *)
Held ==
    /\ pc # "closed"
    /\ UNCHANGED <<memory, request, fdtheader, handle, soc_dtbo_selected,
                   platform_dtbo_selected, examined, passed_over>>

(* The steps that matter to the selection. *)
LEMMA StepCases ==
    ASSUME [Next]_vars
    PROVE  \/ pc' = "closed" \/ Open \/ Held
           \/ SkipEntry \/ ValidateBaseDtb \/ ValidateSocDtbo
           \/ ValidatePlatformDtbo \/ OemMallocFails
<1>1. CASE OpenRefused
  BY <1>1 DEF OpenRefused
<1>2. CASE HeaderRejected \/ NoBoardId \/ CandidacyMallocFails \/ FinishFails
  BY <1>2 DEF HeaderRejected, NoBoardId, CandidacyMallocFails, FinishFails, Abort
<1>3. CASE Finish
  BY <1>3 DEF Finish, AtEnd, Held, inputs
<1>4. CASE Close \/ CallWithoutHandle
  BY <1>4 DEF Close, CallWithoutHandle
<1>5. ASSUME NEW type, NEW size, ReadBlob(type, size) PROVE Held
  BY <1>5 DEF ReadBlob, Held, inputs
<1>6. CASE UNCHANGED vars
  BY <1>6 DEF vars, Held
<1> QED
  BY <1>1, <1>2, <1>3, <1>4, <1>5, <1>6 DEF Next, Walk, Call

(* Every step of the walk over a blob is over one that is new to it. *)
LEMMA NextIsNew ==
    ASSUME TypeOK, Behind, AtBlob, NextEntry
    PROVE  /\ fdtheader # 0
           /\ fdtheader \notin examined
           /\ fdtheader \in Nat
           /\ examined \subseteq Nat
           /\ 0 \notin examined
           /\ examined' = examined \cup {fdtheader}
           /\ memory' = memory /\ request' = request
           /\ pc = "walking" /\ pc' = "walking"
           /\ fdtheader' = fdtheader + Current.size
           /\ \A a \in examined : memory[a] \in Blob /\ a < fdtheader
<1>1. Start \in Nat \ {0}
  BY ConstantsAreTyped
<1>2. pc = "walking"
  BY DEF AtBlob, AtHeader
<1>3. Start <= fdtheader /\ \A a \in examined : Start <= a /\ a < fdtheader
  BY <1>2 DEF Behind
<1>4. fdtheader \in Nat
  BY DEF TypeOK, Address
<1>5. \A a \in examined : a \in Nat /\ memory[a] \in Blob
  BY DEF TypeOK
<1>6. /\ examined' = examined \cup {fdtheader}
      /\ memory' = memory /\ request' = request
      /\ fdtheader' = fdtheader + Current.size /\ pc' = pc
  BY DEF NextEntry, inputs
<1> QED
  BY <1>1, <1>2, <1>3, <1>4, <1>5, <1>6

LEMMA BehindStep ==
    ASSUME TypeOK, Behind, [Next]_vars
    PROVE  Behind'
<1>1. CASE pc' = "closed"
  BY <1>1 DEF Behind
<1>2. CASE Open
  BY <1>2, ConstantsAreTyped DEF Open, Behind
<1>3. CASE Held
  BY <1>3 DEF Held, Behind
<1>4. ASSUME AtBlob, NextEntry PROVE Behind'
  <2>1. /\ Start <= fdtheader /\ \A a \in examined : Start <= a
        /\ Start \in Nat
    BY <1>4, ConstantsAreTyped DEF Behind, AtBlob, AtHeader
  <2> QED
    BY <1>4, <2>1, NextIsNew, CurrentTyped DEF Behind
<1> QED
  BY <1>1, <1>2, <1>3, <1>4, StepCases DEF SkipEntry, ValidateBaseDtb,
     ValidateSocDtbo, ValidatePlatformDtbo, OemMallocFails, AtCandidate

----------------------------------------------------------------------------
(* What a step over a blob adds to the choices *)

LEMMA ChoicesStep ==
    ASSUME TypeOK, Behind, AtBlob, NextEntry
    PROVE  /\ BaseChoices' = BaseChoices \cup
                {a \in {fdtheader} : /\ IsCandidate(Current, request)
                                     /\ device_tree_type(Current) = "BASE_DTB"
                                     /\ BaseIsEligible(Current, request)}
           /\ SocChoices' = SocChoices \cup
                {a \in {fdtheader} : /\ IsCandidate(Current, request)
                                     /\ device_tree_type(Current) = "SOC_DTBO"
                                     /\ SocIsEligible(Current, request)}
           /\ PlatChoices' = PlatChoices \cup
                {a \in {fdtheader} : /\ IsCandidate(Current, request)
                                     /\ device_tree_type(Current) = "PLATFORM_DTBO"
                                     /\ PlatIsEligible(Current, request)}
<1>1. /\ examined' = examined \cup {fdtheader}
      /\ memory' = memory /\ request' = request
  BY NextIsNew
<1>2. BaseChoices' = BaseChoices \cup
                {a \in {fdtheader} : /\ IsCandidate(Current, request)
                                     /\ device_tree_type(Current) = "BASE_DTB"
                                     /\ BaseIsEligible(Current, request)}
  BY <1>1 DEF BaseChoices, CandidatesOfType, Current
<1>3. SocChoices' = SocChoices \cup
                {a \in {fdtheader} : /\ IsCandidate(Current, request)
                                     /\ device_tree_type(Current) = "SOC_DTBO"
                                     /\ SocIsEligible(Current, request)}
  BY <1>1 DEF SocChoices, CandidatesOfType, Current
<1>4. PlatChoices' = PlatChoices \cup
                {a \in {fdtheader} : /\ IsCandidate(Current, request)
                                     /\ device_tree_type(Current) = "PLATFORM_DTBO"
                                     /\ PlatIsEligible(Current, request)}
  BY <1>1 DEF PlatChoices, CandidatesOfType, Current
<1> QED
  BY <1>2, <1>3, <1>4

(* A choice's score is typed and beats the empty place. *)
LEMMA SocChoiceScored ==
    ASSUME TypeOK, NEW a \in SocChoices
    PROVE  SocScoreAt(a) \in SocScores /\ SocScoreAt(a).rank >= 0
<1>1. memory[a] \in Blob /\ IsCandidate(memory[a], request)
  BY DEF TypeOK, SocChoices, CandidatesOfType
<1>2. request \in Request
  BY DEF TypeOK
<1> QED
  BY <1>1, <1>2, SocScoreTyped DEF SocScoreAt

LEMMA PlatChoiceScored ==
    ASSUME TypeOK, NEW a \in PlatChoices
    PROVE  PlatScoreAt(a) \in PlatScores /\ PlatScoreAt(a).rank >= 0
<1>1. /\ memory[a] \in Blob /\ IsCandidate(memory[a], request)
      /\ device_tree_type(memory[a]) = "PLATFORM_DTBO"
  BY DEF TypeOK, PlatChoices, CandidatesOfType
<1>2. request \in Request
  BY DEF TypeOK
<1> QED
  BY <1>1, <1>2, PlatScoreTyped DEF PlatScoreAt

(* Preference by meaning is preference by score. *)
LEMMA SocChoiceOrder ==
    ASSUME TypeOK, NEW a, NEW b, memory[a] \in Blob, memory[b] \in Blob,
           IsCandidate(memory[a], request), IsCandidate(memory[b], request)
    PROVE  /\ SocOutranks(memory[a], memory[b]) <=> SocBeats(SocScoreAt(a), SocScoreAt(b))
           /\ SocOutranks(memory[b], memory[a]) <=> SocBeats(SocScoreAt(b), SocScoreAt(a))
<1>1. request \in Request
  BY DEF TypeOK
<1> QED
  BY <1>1, SocBeatsMeaning DEF SocScoreAt

LEMMA PlatChoiceOrder ==
    ASSUME TypeOK, NEW a, NEW b, memory[a] \in Blob, memory[b] \in Blob,
           IsCandidate(memory[a], request), IsCandidate(memory[b], request),
           device_tree_type(memory[a]) = "PLATFORM_DTBO",
           device_tree_type(memory[b]) = "PLATFORM_DTBO"
    PROVE  /\ PlatOutranks(memory[a], memory[b]) <=> PlatBeats(PlatScoreAt(a), PlatScoreAt(b))
           /\ PlatOutranks(memory[b], memory[a]) <=> PlatBeats(PlatScoreAt(b), PlatScoreAt(a))
<1>1. request \in Request
  BY DEF TypeOK
<1> QED
  BY <1>1, PlatBeatsMeaning DEF PlatScoreAt

(* Storing the blob under the walk changes its own two fields only. *)
LEMMA StoreFields ==
    ASSUME NEW h \in Handles, NEW p \in Nat, NEW s \in Nat
    PROVE  LET b == [h EXCEPT !.base_dtb_ptr = p, !.base_dtb_size = s]
               c == [h EXCEPT !.soc_dtbo_ptr = p, !.soc_dtbo_size = s]
               d == [h EXCEPT !.plat_dtbo_ptr = p, !.plat_dtbo_size = s]
           IN  /\ b.base_dtb_ptr = p /\ b.base_dtb_size = s
               /\ b.soc_dtbo_ptr = h.soc_dtbo_ptr /\ b.soc_dtbo_size = h.soc_dtbo_size
               /\ b.plat_dtbo_ptr = h.plat_dtbo_ptr /\ b.plat_dtbo_size = h.plat_dtbo_size
               /\ c.soc_dtbo_ptr = p /\ c.soc_dtbo_size = s
               /\ c.base_dtb_ptr = h.base_dtb_ptr /\ c.base_dtb_size = h.base_dtb_size
               /\ c.plat_dtbo_ptr = h.plat_dtbo_ptr /\ c.plat_dtbo_size = h.plat_dtbo_size
               /\ d.plat_dtbo_ptr = p /\ d.plat_dtbo_size = s
               /\ d.base_dtb_ptr = h.base_dtb_ptr /\ d.base_dtb_size = h.base_dtb_size
               /\ d.soc_dtbo_ptr = h.soc_dtbo_ptr /\ d.soc_dtbo_size = h.soc_dtbo_size
BY DEF Handles

(* An overlay selected leaves the other two places alone. *)
LEMMA SocStores ==
    ASSUME handle \in Handles, fdtheader \in Nat, Current.size \in Nat, ValidateSocDtbo
    PROVE  /\ handle'.base_dtb_ptr = handle.base_dtb_ptr
           /\ handle'.base_dtb_size = handle.base_dtb_size
           /\ handle'.plat_dtbo_ptr = handle.plat_dtbo_ptr
           /\ handle'.plat_dtbo_size = handle.plat_dtbo_size
           /\ SocIsBetter => handle'.soc_dtbo_ptr = fdtheader
<1>1. CASE SocIsBetter
  <2>1. handle' = [handle EXCEPT !.soc_dtbo_ptr = fdtheader, !.soc_dtbo_size = Current.size]
    BY <1>1 DEF ValidateSocDtbo
  <2> QED
    BY <2>1, StoreFields
<1>2. CASE ~SocIsBetter
  BY <1>2 DEF ValidateSocDtbo
<1> QED
  BY <1>1, <1>2

LEMMA PlatStores ==
    ASSUME handle \in Handles, fdtheader \in Nat, Current.size \in Nat,
           ValidatePlatformDtbo
    PROVE  /\ handle'.base_dtb_ptr = handle.base_dtb_ptr
           /\ handle'.base_dtb_size = handle.base_dtb_size
           /\ handle'.soc_dtbo_ptr = handle.soc_dtbo_ptr
           /\ handle'.soc_dtbo_size = handle.soc_dtbo_size
           /\ PlatIsBetter => handle'.plat_dtbo_ptr = fdtheader
<1>1. CASE PlatIsBetter
  <2>1. handle' = [handle EXCEPT !.plat_dtbo_ptr = fdtheader, !.plat_dtbo_size = Current.size]
    BY <1>1 DEF ValidatePlatformDtbo
  <2> QED
    BY <2>1, StoreFields
<1>2. CASE ~PlatIsBetter
  BY <1>2 DEF ValidatePlatformDtbo
<1> QED
  BY <1>1, <1>2

(* A step over a blob that leaves the SOC place alone, and adds no choice  *)
(* for it, keeps it; so of the other two places.                           *)
LEMMA SocPlaceHeld ==
    ASSUME memory' = memory, request' = request, SocChoices' = SocChoices,
           handle'.soc_dtbo_ptr = handle.soc_dtbo_ptr,
           handle'.soc_dtbo_size = handle.soc_dtbo_size,
           BestSoc(SocChoices)
    PROVE  BestSoc(SocChoices)'
BY DEF BestSoc, SocPreferred, SocOutranks

LEMMA PlatPlaceHeld ==
    ASSUME memory' = memory, request' = request,
           PlatChoices' \ passed_over' = PlatChoices \ passed_over,
           handle'.plat_dtbo_ptr = handle.plat_dtbo_ptr,
           handle'.plat_dtbo_size = handle.plat_dtbo_size,
           BestPlat(PlatChoices \ passed_over)
    PROVE  BestPlat(PlatChoices \ passed_over)'
BY DEF BestPlat, PlatPreferred, PlatOutranks

LEMMA BasePlaceHeld ==
    ASSUME memory' = memory, BaseChoices' = BaseChoices,
           handle'.base_dtb_ptr = handle.base_dtb_ptr,
           handle'.base_dtb_size = handle.base_dtb_size,
           BestBase(BaseChoices)
    PROVE  BestBase(BaseChoices)'
BY DEF BestBase

(* The SOC step of the argument: comparing the new entry with the held one *)
(* alone decides against all the entries before.                           *)
LEMMA SocStep ==
    ASSUME SelectionInv, ValidateSocDtbo
    PROVE  BestSoc(SocChoices)'
<1>1. /\ AtBlob /\ NextEntry /\ TypeOK /\ Behind
      /\ IsCandidate(Current, request) /\ device_tree_type(Current) = "SOC_DTBO"
  BY DEF SelectionInv, ValidateSocDtbo, AtCandidate
<1>2. /\ fdtheader # 0 /\ fdtheader \notin examined /\ 0 \notin examined
      /\ memory' = memory /\ request' = request /\ pc = "walking"
      /\ fdtheader \in Nat /\ examined \subseteq Nat
      /\ \A a \in examined : a < fdtheader
  BY <1>1, NextIsNew
<1>3. SocChoices \subseteq examined
  BY DEF SocChoices, CandidatesOfType
<1>4. handle \in Handles /\ Current.size \in Nat
  BY <1>1, CurrentTyped DEF Blob
<1>5. /\ BestSoc(SocChoices)
      /\ soc_dtbo_selected = IF handle.soc_dtbo_ptr = 0 THEN NoSocScore
                             ELSE SocScoreAt(handle.soc_dtbo_ptr)
  BY <1>2 DEF SelectionInv, SocIsBest, ScoresMatch
<1>6. /\ handle.soc_dtbo_ptr = 0 <=> SocChoices = {}
      /\ handle.soc_dtbo_ptr # 0 =>
            /\ handle.soc_dtbo_ptr \in SocChoices
            /\ soc_dtbo_selected = SocScoreAt(handle.soc_dtbo_ptr)
            /\ handle.soc_dtbo_size = memory[handle.soc_dtbo_ptr].size
            /\ \A a \in SocChoices \ {handle.soc_dtbo_ptr} :
                  SocPreferred(handle.soc_dtbo_ptr, a)
      /\ handle.soc_dtbo_ptr = 0 => soc_dtbo_selected = NoSocScore
  BY <1>2, <1>3, <1>5 DEF BestSoc
<1>7. SocScoreAt(fdtheader) = SocScore(Current, request)
  BY DEF SocScoreAt, Current
<1>8. /\ SocScoreAt(fdtheader) \in SocScores /\ SocScoreAt(fdtheader).rank >= 0
  BY <1>1, <1>7, CurrentTyped, SocScoreTyped DEF TypeOK
<1>9. /\ BestSoc(SocChoices)' <=> 
           IF SocChoices' = {} THEN handle'.soc_dtbo_ptr = 0
           ELSE /\ handle'.soc_dtbo_ptr \in SocChoices'
                /\ handle'.soc_dtbo_size = memory[handle'.soc_dtbo_ptr].size
                /\ \A a \in SocChoices' \ {handle'.soc_dtbo_ptr} :
                      SocPreferred(handle'.soc_dtbo_ptr, a)
  BY <1>2 DEF BestSoc, SocPreferred, SocOutranks
<1>12. \A a \in SocChoices \cup {fdtheader} :
          /\ memory[a] \in Blob /\ IsCandidate(memory[a], request)
          /\ device_tree_type(memory[a]) = "SOC_DTBO"
  BY <1>1, CurrentTyped DEF TypeOK, SocChoices, CandidatesOfType, Current
<1>10. CASE ~SocIsEligible(Current, request)
  <2>1. SocChoices' = SocChoices
    BY <1>1, <1>10, ChoicesStep
  <2>2. handle' = handle
    BY <1>10 DEF ValidateSocDtbo, SocIsBetter
  <2> QED
    BY <2>1, <2>2, <1>2, <1>5, SocPlaceHeld
<1>11. CASE SocIsEligible(Current, request)
  <2>1. SocChoices' = SocChoices \cup {fdtheader}
    BY <1>1, <1>11, ChoicesStep
  <2>2. CASE SocBeats(SocScoreAt(fdtheader), soc_dtbo_selected)
    <3>1. handle' = [handle EXCEPT !.soc_dtbo_ptr = fdtheader, !.soc_dtbo_size = Current.size]
      BY <1>7, <1>11, <2>2 DEF ValidateSocDtbo, SocIsBetter
    <3>2. handle'.soc_dtbo_ptr = fdtheader /\ handle'.soc_dtbo_size = Current.size
      BY <1>2, <1>4, <3>1, StoreFields
    <3>3. ASSUME NEW a \in SocChoices PROVE SocBeats(SocScoreAt(fdtheader), SocScoreAt(a))
      <4> DEFINE p == handle.soc_dtbo_ptr
      <4>1. p \in SocChoices /\ soc_dtbo_selected = SocScoreAt(p)
        BY <1>6, <3>3
      <4>2. SocScoreAt(a) \in SocScores /\ SocScoreAt(p) \in SocScores
        BY <1>1, <4>1, SocChoiceScored
      <4>3. a # p => SocBeats(SocScoreAt(p), SocScoreAt(a))
                     \/ ~SocBeats(SocScoreAt(a), SocScoreAt(p))
        BY <1>1, <1>6, <1>12, <4>1, SocChoiceOrder DEF SocPreferred
      <4> QED
        BY <1>8, <2>2, <4>1, <4>2, <4>3, SocOrder
    <3> QED
      <4>1. \A a \in SocChoices : SocPreferred(fdtheader, a)
        BY <1>1, <1>12, <3>3, SocChoiceOrder DEF SocPreferred
      <4> QED
        BY <1>9, <2>1, <3>2, <4>1 DEF Current
  <2>3. CASE ~SocBeats(SocScoreAt(fdtheader), soc_dtbo_selected)
    <3>1. handle' = handle
      BY <1>7, <2>3 DEF ValidateSocDtbo, SocIsBetter
    <3>2. handle.soc_dtbo_ptr # 0
      BY <1>6, <1>8, <2>3 DEF SocBeats, NoSocScore, SocScores
    <3>3. SocPreferred(handle.soc_dtbo_ptr, fdtheader)
      <4> DEFINE p == handle.soc_dtbo_ptr
      <4>1. p \in SocChoices /\ soc_dtbo_selected = SocScoreAt(p) /\ p < fdtheader
        BY <1>2, <1>3, <1>6, <3>2
      <4>2. ~SocOutranks(memory[fdtheader], memory[p])
        BY <1>1, <1>12, <2>3, <4>1, SocChoiceOrder
      <4> QED
        BY <4>1, <4>2 DEF SocPreferred
    <3> QED
      BY <1>6, <1>9, <2>1, <3>1, <3>2, <3>3
  <2> QED
    BY <2>2, <2>3
<1> QED
  BY <1>10, <1>11

(* The same step for the platform DTBO. *)
LEMMA PlatStep ==
    ASSUME SelectionInv, ValidatePlatformDtbo
    PROVE  BestPlat(PlatChoices \ passed_over)'
<1> DEFINE choices == PlatChoices \ passed_over
<1>1. /\ AtBlob /\ NextEntry /\ TypeOK /\ Behind
      /\ IsCandidate(Current, request) /\ device_tree_type(Current) = "PLATFORM_DTBO"
  BY DEF SelectionInv, ValidatePlatformDtbo, AtCandidate
<1>2. /\ fdtheader # 0 /\ fdtheader \notin examined /\ 0 \notin examined
      /\ memory' = memory /\ request' = request /\ pc = "walking"
      /\ fdtheader \in Nat /\ examined \subseteq Nat
      /\ \A a \in examined : a < fdtheader
  BY <1>1, NextIsNew
<1>3. /\ choices \subseteq examined
      /\ passed_over' = passed_over /\ fdtheader \notin passed_over
  BY <1>1, <1>2 DEF PlatChoices, CandidatesOfType, ValidatePlatformDtbo, TypeOK
<1>4. handle \in Handles /\ Current.size \in Nat
  BY <1>1, CurrentTyped DEF Blob
<1>5. /\ BestPlat(choices)
      /\ platform_dtbo_selected = IF handle.plat_dtbo_ptr = 0 THEN NoPlatScore
                                  ELSE PlatScoreAt(handle.plat_dtbo_ptr)
  BY <1>2 DEF SelectionInv, PlatIsBest, ScoresMatch
<1>6. /\ handle.plat_dtbo_ptr = 0 <=> choices = {}
      /\ handle.plat_dtbo_ptr # 0 =>
            /\ handle.plat_dtbo_ptr \in choices
            /\ platform_dtbo_selected = PlatScoreAt(handle.plat_dtbo_ptr)
            /\ handle.plat_dtbo_size = memory[handle.plat_dtbo_ptr].size
            /\ \A a \in choices \ {handle.plat_dtbo_ptr} :
                  PlatPreferred(handle.plat_dtbo_ptr, a)
      /\ handle.plat_dtbo_ptr = 0 => platform_dtbo_selected = NoPlatScore
  BY <1>2, <1>3, <1>5 DEF BestPlat
<1>7. PlatScoreAt(fdtheader) = PlatScore(Current, request)
  BY DEF PlatScoreAt, Current
<1>8. /\ PlatScoreAt(fdtheader) \in PlatScores /\ PlatScoreAt(fdtheader).rank >= 0
  BY <1>1, <1>7, CurrentTyped, PlatScoreTyped DEF TypeOK
<1>9. /\ BestPlat(choices)' <=>
           IF choices' = {} THEN handle'.plat_dtbo_ptr = 0
           ELSE /\ handle'.plat_dtbo_ptr \in choices'
                /\ handle'.plat_dtbo_size = memory[handle'.plat_dtbo_ptr].size
                /\ \A a \in choices' \ {handle'.plat_dtbo_ptr} :
                      PlatPreferred(handle'.plat_dtbo_ptr, a)
  BY <1>2 DEF BestPlat, PlatPreferred, PlatOutranks
<1>12. \A a \in choices \cup {fdtheader} :
          /\ memory[a] \in Blob /\ IsCandidate(memory[a], request)
          /\ device_tree_type(memory[a]) = "PLATFORM_DTBO"
  BY <1>1, CurrentTyped DEF TypeOK, PlatChoices, CandidatesOfType, Current
<1>10. CASE ~PlatIsEligible(Current, request)
  <2>1. PlatChoices' = PlatChoices
    BY <1>1, <1>10, ChoicesStep
  <2>2. handle' = handle
    BY <1>10 DEF ValidatePlatformDtbo, PlatIsBetter
  <2> QED
    BY <2>1, <2>2, <1>2, <1>3, <1>5, PlatPlaceHeld
<1>11. CASE PlatIsEligible(Current, request)
  <2>1. choices' = choices \cup {fdtheader}
    <3>1. PlatChoices' = PlatChoices \cup {fdtheader}
      BY <1>1, <1>11, ChoicesStep
    <3> QED
      BY <1>3, <3>1
  <2>2. CASE PlatBeats(PlatScoreAt(fdtheader), platform_dtbo_selected)
    <3>1. handle' = [handle EXCEPT !.plat_dtbo_ptr = fdtheader, !.plat_dtbo_size = Current.size]
      BY <1>7, <1>11, <2>2 DEF ValidatePlatformDtbo, PlatIsBetter
    <3>2. handle'.plat_dtbo_ptr = fdtheader /\ handle'.plat_dtbo_size = Current.size
      BY <1>2, <1>4, <3>1, StoreFields
    <3>3. ASSUME NEW a \in choices PROVE PlatBeats(PlatScoreAt(fdtheader), PlatScoreAt(a))
      <4> DEFINE p == handle.plat_dtbo_ptr
      <4>1. p \in choices /\ platform_dtbo_selected = PlatScoreAt(p)
        BY <1>6, <3>3
      <4>2. PlatScoreAt(a) \in PlatScores /\ PlatScoreAt(p) \in PlatScores
        BY <1>1, <4>1, PlatChoiceScored
      <4>3. a # p => PlatBeats(PlatScoreAt(p), PlatScoreAt(a))
                     \/ ~PlatBeats(PlatScoreAt(a), PlatScoreAt(p))
        BY <1>1, <1>6, <1>12, <4>1, PlatChoiceOrder DEF PlatPreferred
      <4> QED
        BY <1>8, <2>2, <4>1, <4>2, <4>3, PlatOrder
    <3> QED
      <4>1. \A a \in choices : PlatPreferred(fdtheader, a)
        BY <1>1, <1>12, <3>3, PlatChoiceOrder DEF PlatPreferred
      <4> QED
        BY <1>9, <2>1, <3>2, <4>1 DEF Current
  <2>3. CASE ~PlatBeats(PlatScoreAt(fdtheader), platform_dtbo_selected)
    <3>1. handle' = handle
      BY <1>7, <2>3 DEF ValidatePlatformDtbo, PlatIsBetter
    <3>2. handle.plat_dtbo_ptr # 0
      BY <1>6, <1>8, <2>3 DEF PlatBeats, NoPlatScore, PlatScores
    <3>3. PlatPreferred(handle.plat_dtbo_ptr, fdtheader)
      <4> DEFINE p == handle.plat_dtbo_ptr
      <4>1. p \in choices /\ platform_dtbo_selected = PlatScoreAt(p) /\ p < fdtheader
        BY <1>2, <1>3, <1>6, <3>2
      <4>2. ~PlatOutranks(memory[fdtheader], memory[p])
        BY <1>1, <1>12, <2>3, <4>1, PlatChoiceOrder
      <4> QED
        BY <4>1, <4>2 DEF PlatPreferred
    <3> QED
      BY <1>6, <1>9, <2>1, <3>1, <3>2, <3>3
  <2> QED
    BY <2>2, <2>3
<1> QED
  BY <1>10, <1>11

(* The first eligible base DTB stays: those to come lie further on. *)
LEMMA BaseStep ==
    ASSUME SelectionInv, ValidateBaseDtb
    PROVE  BestBase(BaseChoices)'
<1>1. /\ AtBlob /\ NextEntry /\ TypeOK /\ Behind
      /\ IsCandidate(Current, request) /\ device_tree_type(Current) = "BASE_DTB"
  BY DEF SelectionInv, ValidateBaseDtb, AtCandidate
<1>2. /\ fdtheader # 0 /\ fdtheader \notin examined /\ 0 \notin examined
      /\ memory' = memory /\ pc = "walking"
      /\ fdtheader \in Nat /\ examined \subseteq Nat
      /\ \A a \in examined : a < fdtheader
  BY <1>1, NextIsNew
<1>3. BaseChoices \subseteq examined
  BY DEF BaseChoices, CandidatesOfType
<1>4. handle \in Handles /\ Current.size \in Nat
  BY <1>1, CurrentTyped DEF Blob
<1>5. BestBase(BaseChoices)
  BY <1>2 DEF SelectionInv, BaseIsFirst
<1>6. handle.base_dtb_ptr = 0 <=> BaseChoices = {}
  BY <1>2, <1>3, <1>5 DEF BestBase
<1>7. CASE ~BaseIsEligible(Current, request)
  <2>1. BaseChoices' = BaseChoices
    BY <1>1, <1>7, ChoicesStep
  <2>2. handle' = handle
    BY <1>7 DEF ValidateBaseDtb
  <2> QED
    BY <2>1, <2>2, <1>2, <1>5, BasePlaceHeld
<1>8. CASE BaseIsEligible(Current, request)
  <2>1. BaseChoices' = BaseChoices \cup {fdtheader}
    BY <1>1, <1>8, ChoicesStep
  <2>2. CASE handle.base_dtb_ptr = 0
    <3>1. handle' = [handle EXCEPT !.base_dtb_ptr = fdtheader, !.base_dtb_size = Current.size]
      BY <1>8, <2>2 DEF ValidateBaseDtb
    <3>2. handle'.base_dtb_ptr = fdtheader /\ handle'.base_dtb_size = Current.size
      BY <1>2, <1>4, <3>1, StoreFields
    <3>3. BaseChoices' = {fdtheader}
      BY <1>6, <2>1, <2>2
    <3> QED
      BY <1>2, <3>2, <3>3 DEF BestBase, Current
  <2>3. CASE handle.base_dtb_ptr # 0
    <3>1. handle' = handle
      BY <2>3 DEF ValidateBaseDtb
    <3>2. /\ handle.base_dtb_ptr \in BaseChoices
          /\ handle.base_dtb_size = memory[handle.base_dtb_ptr].size
          /\ \A a \in BaseChoices : handle.base_dtb_ptr <= a
      BY <1>5, <1>6, <2>3 DEF BestBase
    <3>3. handle.base_dtb_ptr <= fdtheader
      <4>1. handle.base_dtb_ptr \in examined
        BY <1>3, <3>2
      <4>2. handle.base_dtb_ptr \in Nat /\ handle.base_dtb_ptr < fdtheader
        BY <1>2, <4>1
      <4> QED
        BY <1>2, <4>2
    <3> QED
      BY <1>2, <2>1, <3>1, <3>2, <3>3 DEF BestBase
  <2> QED
    BY <2>2, <2>3
<1> QED
  BY <1>7, <1>8

(* Handle and score are written together. *)
LEMMA ScoresStep ==
    ASSUME SelectionInv, [Next]_vars
    PROVE  ScoresMatch'
<1>0. TypeOK /\ Behind /\ ScoresMatch
  BY DEF SelectionInv
<1>n. ASSUME AtBlob, NextEntry
      PROVE  /\ memory' = memory /\ request' = request /\ pc # "closed"
             /\ fdtheader # 0 /\ fdtheader \in Nat /\ handle \in Handles
             /\ Current.size \in Nat
  BY <1>0, <1>n, NextIsNew, CurrentTyped DEF Blob
<1>1. CASE pc' = "closed"
  BY <1>1 DEF ScoresMatch
<1>2. CASE Open
  BY <1>2 DEF Open, ScoresMatch, EmptyHandle
<1>3. CASE Held
  BY <1>0, <1>3 DEF Held, ScoresMatch, SocScoreAt, PlatScoreAt
<1>4. CASE SkipEntry \/ OemMallocFails
  BY <1>0, <1>4, <1>n DEF SkipEntry, OemMallocFails, AtCandidate, ScoresMatch,
     SocScoreAt, PlatScoreAt
<1>5. CASE ValidateBaseDtb
  <2>1. /\ handle'.soc_dtbo_ptr = handle.soc_dtbo_ptr
        /\ handle'.plat_dtbo_ptr = handle.plat_dtbo_ptr
    BY <1>5, <1>n, StoreFields DEF ValidateBaseDtb, AtCandidate
  <2> QED
    BY <1>0, <1>5, <1>n, <2>1 DEF ValidateBaseDtb, AtCandidate, ScoresMatch,
       SocScoreAt, PlatScoreAt
<1>6. CASE ValidateSocDtbo
  <2>1. AtBlob /\ NextEntry
    BY <1>6 DEF ValidateSocDtbo, AtCandidate
  <2>2. /\ handle'.plat_dtbo_ptr = handle.plat_dtbo_ptr
        /\ SocIsBetter => handle'.soc_dtbo_ptr = fdtheader
    BY <1>6, <1>n, <2>1, SocStores
  <2> QED
    BY <1>0, <1>6, <1>n, <2>1, <2>2 DEF ValidateSocDtbo, AtCandidate, ScoresMatch,
       SocScoreAt, PlatScoreAt, Current
<1>7. CASE ValidatePlatformDtbo
  <2>1. AtBlob /\ NextEntry
    BY <1>7 DEF ValidatePlatformDtbo, AtCandidate
  <2>2. /\ handle'.soc_dtbo_ptr = handle.soc_dtbo_ptr
        /\ PlatIsBetter => handle'.plat_dtbo_ptr = fdtheader
    BY <1>7, <1>n, <2>1, PlatStores
  <2> QED
    BY <1>0, <1>7, <1>n, <2>1, <2>2 DEF ValidatePlatformDtbo, AtCandidate, ScoresMatch,
       SocScoreAt, PlatScoreAt, Current
<1> QED
  BY <1>1, <1>2, <1>3, <1>4, <1>5, <1>6, <1>7, StepCases

----------------------------------------------------------------------------
(* The selection is right *)

LEMMA SelectionInit == Init => SelectionInv
<1> SUFFICES ASSUME Init PROVE SelectionInv
  OBVIOUS
<1>1. TypeOK
  BY TypeInit
<1>2. pc = "closed"
  BY DEF Init
<1> QED
  BY <1>1, <1>2 DEF SelectionInv, Behind, ScoresMatch, BaseIsFirst, SocIsBest, PlatIsBest

LEMMA SelectionStep == SelectionInv /\ [Next]_vars => SelectionInv'
<1> SUFFICES ASSUME SelectionInv, [Next]_vars PROVE SelectionInv'
  OBVIOUS
<1>0. TypeOK /\ Behind /\ BaseIsFirst /\ SocIsBest /\ PlatIsBest
  BY DEF SelectionInv
<1>1. TypeOK' /\ Behind' /\ ScoresMatch'
  BY <1>0, TypeStep, BehindStep, ScoresStep
<1>2. ASSUME BestBase(BaseChoices)', BestSoc(SocChoices)', BestPlat(PlatChoices \ passed_over)'
      PROVE  SelectionInv'
  BY <1>1, <1>2 DEF SelectionInv, BaseIsFirst, SocIsBest, PlatIsBest
<1>3. ASSUME AtBlob, NextEntry
      PROVE  /\ memory' = memory /\ request' = request
             /\ fdtheader \in Nat /\ handle \in Handles /\ Current.size \in Nat
             /\ BestBase(BaseChoices) /\ BestSoc(SocChoices)
             /\ BestPlat(PlatChoices \ passed_over)
             /\ fdtheader \notin passed_over
  BY <1>0, <1>3, NextIsNew, CurrentTyped
     DEF Blob, BaseIsFirst, SocIsBest, PlatIsBest, TypeOK
<1>4. CASE pc' = "closed"
  BY <1>1, <1>4 DEF SelectionInv, BaseIsFirst, SocIsBest, PlatIsBest
<1>5. CASE Open
  <2>1. BaseChoices' = {} /\ SocChoices' = {} /\ PlatChoices' = {}
    BY <1>5 DEF Open, BaseChoices, SocChoices, PlatChoices, CandidatesOfType
  <2>2. /\ handle'.base_dtb_ptr = 0 /\ handle'.soc_dtbo_ptr = 0
        /\ handle'.plat_dtbo_ptr = 0
    BY <1>5 DEF Open, EmptyHandle
  <2> QED
    BY <1>2, <2>1, <2>2 DEF BestBase, BestSoc, BestPlat
<1>6. CASE Held
  <2>1. /\ BaseChoices' = BaseChoices /\ SocChoices' = SocChoices
        /\ PlatChoices' = PlatChoices
    BY <1>6 DEF Held, BaseChoices, SocChoices, PlatChoices, CandidatesOfType
  <2>2. /\ BestBase(BaseChoices) /\ BestSoc(SocChoices)
        /\ BestPlat(PlatChoices \ passed_over)
    BY <1>0, <1>6 DEF Held, BaseIsFirst, SocIsBest, PlatIsBest
  <2>3. /\ memory' = memory /\ request' = request /\ handle' = handle
        /\ passed_over' = passed_over
    BY <1>6 DEF Held
  <2> QED
    BY <1>2, <2>1, <2>2, <2>3, BasePlaceHeld, SocPlaceHeld, PlatPlaceHeld
<1>7. CASE SkipEntry
  <2>1. /\ AtBlob /\ NextEntry /\ ~IsCandidate(Current, request)
        /\ handle' = handle /\ passed_over' = passed_over
    BY <1>7 DEF SkipEntry
  <2>2. /\ BaseChoices' = BaseChoices /\ SocChoices' = SocChoices
        /\ PlatChoices' = PlatChoices
    BY <1>0, <2>1, ChoicesStep
  <2> QED
    BY <1>2, <1>3, <2>1, <2>2, BasePlaceHeld, SocPlaceHeld, PlatPlaceHeld
<1>8. CASE ValidateBaseDtb
  <2>1. /\ AtBlob /\ NextEntry /\ device_tree_type(Current) = "BASE_DTB"
        /\ passed_over' = passed_over
    BY <1>8 DEF ValidateBaseDtb, AtCandidate
  <2>2. SocChoices' = SocChoices /\ PlatChoices' = PlatChoices
    BY <1>0, <2>1, ChoicesStep
  <2>3. /\ handle'.soc_dtbo_ptr = handle.soc_dtbo_ptr
        /\ handle'.soc_dtbo_size = handle.soc_dtbo_size
        /\ handle'.plat_dtbo_ptr = handle.plat_dtbo_ptr
        /\ handle'.plat_dtbo_size = handle.plat_dtbo_size
    BY <1>3, <1>8, <2>1, StoreFields DEF ValidateBaseDtb
  <2> QED
    BY <1>2, <1>3, <1>8, <2>1, <2>2, <2>3, BaseStep, SocPlaceHeld, PlatPlaceHeld
<1>9. CASE ValidateSocDtbo
  <2>1. /\ AtBlob /\ NextEntry /\ device_tree_type(Current) = "SOC_DTBO"
        /\ passed_over' = passed_over
    BY <1>9 DEF ValidateSocDtbo, AtCandidate
  <2>2. BaseChoices' = BaseChoices /\ PlatChoices' = PlatChoices
    BY <1>0, <2>1, ChoicesStep
  <2>3. /\ handle'.base_dtb_ptr = handle.base_dtb_ptr
        /\ handle'.base_dtb_size = handle.base_dtb_size
        /\ handle'.plat_dtbo_ptr = handle.plat_dtbo_ptr
        /\ handle'.plat_dtbo_size = handle.plat_dtbo_size
    BY <1>3, <1>9, <2>1, SocStores
  <2> QED
    BY <1>2, <1>3, <1>9, <2>1, <2>2, <2>3, SocStep, BasePlaceHeld, PlatPlaceHeld
<1>10. CASE ValidatePlatformDtbo
  <2>1. /\ AtBlob /\ NextEntry /\ device_tree_type(Current) = "PLATFORM_DTBO"
    BY <1>10 DEF ValidatePlatformDtbo, AtCandidate
  <2>2. BaseChoices' = BaseChoices /\ SocChoices' = SocChoices
    BY <1>0, <2>1, ChoicesStep
  <2>3. /\ handle'.base_dtb_ptr = handle.base_dtb_ptr
        /\ handle'.base_dtb_size = handle.base_dtb_size
        /\ handle'.soc_dtbo_ptr = handle.soc_dtbo_ptr
        /\ handle'.soc_dtbo_size = handle.soc_dtbo_size
    BY <1>3, <1>10, <2>1, PlatStores
  <2> QED
    BY <1>2, <1>3, <1>10, <2>1, <2>2, <2>3, PlatStep, BasePlaceHeld, SocPlaceHeld
<1>11. CASE OemMallocFails
  <2>1. /\ AtBlob /\ NextEntry /\ device_tree_type(Current) = "PLATFORM_DTBO"
        /\ handle' = handle /\ passed_over' = passed_over \cup {fdtheader}
    BY <1>11 DEF OemMallocFails, AtCandidate
  <2>2. /\ BaseChoices' = BaseChoices /\ SocChoices' = SocChoices
        /\ PlatChoices' \subseteq PlatChoices \cup {fdtheader}
        /\ PlatChoices \subseteq PlatChoices'
    BY <1>0, <2>1, ChoicesStep
  <2>3. fdtheader \notin PlatChoices
    BY <1>0, <2>1, NextIsNew DEF PlatChoices, CandidatesOfType
  <2>4. PlatChoices' \ passed_over' = PlatChoices \ passed_over
    BY <2>1, <2>2, <2>3
  <2> QED
    BY <1>2, <1>3, <2>1, <2>2, <2>4, BasePlaceHeld, SocPlaceHeld, PlatPlaceHeld
<1> QED
  BY <1>4, <1>5, <1>6, <1>7, <1>8, <1>9, <1>10, <1>11, StepCases

LEMMA SelectionInvariant == Spec => []SelectionInv
<1> QED
  BY SelectionInit, SelectionStep, PTL DEF Spec

(* The base DTB held is the first eligible one walked over. *)
THEOREM BaseSelectionIsFirst == Spec => []BaseIsFirst
<1>1. SelectionInv => BaseIsFirst
  BY DEF SelectionInv
<1> QED
  BY <1>1, SelectionInvariant, PTL

(* The SOC DTBO held is the best of all the eligible ones walked over, for *)
(* every image, although each was compared with one other only.            *)
THEOREM SocSelectionIsBest == Spec => []SocIsBest
<1>1. SelectionInv => SocIsBest
  BY DEF SelectionInv
<1> QED
  BY <1>1, SelectionInvariant, PTL

(* The same of the platform DTBO, whose order has three levels, of the     *)
(* entries that no failed allocation hid.                                  *)
THEOREM PlatSelectionIsBest == Spec => []PlatIsBest
<1>1. SelectionInv => PlatIsBest
  BY DEF SelectionInv
<1> QED
  BY <1>1, SelectionInvariant, PTL

(* The score an entry is compared with is that of the blob held. *)
THEOREM ScoresBelongToHeld == Spec => []ScoresMatch
<1>1. SelectionInv => ScoresMatch
  BY DEF SelectionInv
<1> QED
  BY <1>1, SelectionInvariant, PTL

(* What the walk holds is only replaced by a blob that outranks it. *)
THEOREM WalkNeverDowngrades == Spec => NeverDowngrades
<1> DEFINE Upgrade ==
      pc = "walking" /\ pc' = "walking" =>
          /\ handle.base_dtb_ptr # 0 => handle'.base_dtb_ptr = handle.base_dtb_ptr
          /\ handle.soc_dtbo_ptr \notin {0, handle'.soc_dtbo_ptr} =>
                SocOutranks(memory[handle'.soc_dtbo_ptr], memory[handle.soc_dtbo_ptr])
          /\ handle.plat_dtbo_ptr \notin {0, handle'.plat_dtbo_ptr} =>
                PlatOutranks(memory[handle'.plat_dtbo_ptr], memory[handle.plat_dtbo_ptr])
<1>1. ASSUME SelectionInv, [Next]_vars PROVE [Upgrade]_vars
  <2>0. TypeOK /\ Behind
    BY <1>1 DEF SelectionInv
  <2>n. ASSUME AtBlob PROVE
          /\ fdtheader \in Nat /\ Current.size \in Nat /\ handle \in Handles
          /\ memory[fdtheader] \in Blob
    BY <2>0, <2>n, CurrentTyped DEF Blob, Current, TypeOK, Address
  <2>1. CASE pc' = "closed" \/ Open \/ Held
    BY <2>1 DEF Open, Held
  <2>2. CASE SkipEntry \/ OemMallocFails
    BY <2>2 DEF SkipEntry, OemMallocFails
  <2>3. CASE ValidateBaseDtb
    <3>1. /\ handle'.soc_dtbo_ptr = handle.soc_dtbo_ptr
          /\ handle'.plat_dtbo_ptr = handle.plat_dtbo_ptr
          /\ handle.base_dtb_ptr # 0 => handle' = handle
      BY <2>n, <2>3, StoreFields DEF ValidateBaseDtb, AtCandidate
    <3> QED
      BY <3>1
  <2>4. CASE ValidateSocDtbo
    <3>1. AtBlob /\ IsCandidate(memory[fdtheader], request) /\ pc # "closed"
      BY <2>4 DEF ValidateSocDtbo, AtCandidate, AtBlob, AtHeader, Current
    <3>2. /\ handle'.base_dtb_ptr = handle.base_dtb_ptr
          /\ handle'.plat_dtbo_ptr = handle.plat_dtbo_ptr
          /\ SocIsBetter => handle'.soc_dtbo_ptr = fdtheader
      BY <2>n, <2>4, <3>1, SocStores
    <3>3. ~SocIsBetter => handle' = handle
      BY <2>4 DEF ValidateSocDtbo
    <3>4. ASSUME SocIsBetter, handle.soc_dtbo_ptr # 0
          PROVE  SocOutranks(memory[fdtheader], memory[handle.soc_dtbo_ptr])
      <4> DEFINE p == handle.soc_dtbo_ptr
      <4>1. BestSoc(SocChoices) /\ soc_dtbo_selected = SocScoreAt(p)
        BY <1>1, <3>1, <3>4 DEF SelectionInv, SocIsBest, ScoresMatch
      <4>2. p \in SocChoices
        BY <3>4, <4>1 DEF BestSoc
      <4>3. memory[p] \in Blob /\ IsCandidate(memory[p], request)
        BY <2>0, <4>2 DEF TypeOK, SocChoices, CandidatesOfType
      <4>4. SocBeats(SocScoreAt(fdtheader), SocScoreAt(p))
        BY <3>4, <4>1 DEF SocIsBetter, SocScoreAt, Current
      <4> QED
        BY <2>0, <2>n, <3>1, <4>3, <4>4, SocChoiceOrder
    <3> QED
      BY <3>2, <3>3, <3>4
  <2>5. CASE ValidatePlatformDtbo
    <3>1. /\ AtBlob /\ IsCandidate(memory[fdtheader], request) /\ pc # "closed"
          /\ device_tree_type(memory[fdtheader]) = "PLATFORM_DTBO"
      BY <2>5 DEF ValidatePlatformDtbo, AtCandidate, AtBlob, AtHeader, Current
    <3>2. /\ handle'.base_dtb_ptr = handle.base_dtb_ptr
          /\ handle'.soc_dtbo_ptr = handle.soc_dtbo_ptr
          /\ PlatIsBetter => handle'.plat_dtbo_ptr = fdtheader
      BY <2>n, <2>5, <3>1, PlatStores
    <3>3. ~PlatIsBetter => handle' = handle
      BY <2>5 DEF ValidatePlatformDtbo
    <3>4. ASSUME PlatIsBetter, handle.plat_dtbo_ptr # 0
          PROVE  PlatOutranks(memory[fdtheader], memory[handle.plat_dtbo_ptr])
      <4> DEFINE p == handle.plat_dtbo_ptr
      <4>1. BestPlat(PlatChoices \ passed_over) /\ platform_dtbo_selected = PlatScoreAt(p)
        BY <1>1, <3>1, <3>4 DEF SelectionInv, PlatIsBest, ScoresMatch
      <4>2. p \in PlatChoices
        BY <3>4, <4>1 DEF BestPlat
      <4>3. /\ memory[p] \in Blob /\ IsCandidate(memory[p], request)
            /\ device_tree_type(memory[p]) = "PLATFORM_DTBO"
        BY <2>0, <4>2 DEF TypeOK, PlatChoices, CandidatesOfType
      <4>4. PlatBeats(PlatScoreAt(fdtheader), PlatScoreAt(p))
        BY <3>4, <4>1 DEF PlatIsBetter, PlatScoreAt, Current
      <4> QED
        BY <2>0, <2>n, <3>1, <4>3, <4>4, PlatChoiceOrder
    <3> QED
      BY <3>2, <3>3, <3>4
  <2> QED
    BY <1>1, <2>1, <2>2, <2>3, <2>4, <2>5, StepCases
<1> QED
  BY <1>1, SelectionInvariant, PTL DEF Spec, NeverDowngrades

----------------------------------------------------------------------------
(* The entries walked over *)

(* WalkKeepsToEntries is inductive together with the types: the check of   *)
(* the last byte is made before an entry counts, and the walk moves on by  *)
(* the size that was checked.                                              *)
LEMMA EntriesStep ==
    ASSUME TypeOK, Behind, WalkKeepsToEntries, AtBlob, NextEntry
    PROVE  WalkKeepsToEntries'
<1> DEFINE end == fdtheader + Current.size
<1>1. /\ fdtheader \in Nat /\ examined' = examined \cup {fdtheader}
      /\ memory' = memory /\ fdtheader' = end /\ pc # "closed"
      /\ \A a \in examined : a \in Nat /\ memory[a] \in Blob
      /\ dtbs_image_size' = dtbs_image_size /\ dtbs_image_size \in Nat
      /\ Start \in Nat /\ Start <= fdtheader
  BY NextIsNew, ConstantsAreTyped DEF TypeOK, Behind, NextEntry, inputs
<1>2. Current = memory[fdtheader] /\ Current.size \in Nat \ {0}
  BY CurrentTyped DEF Current, Blob
<1>3. \A a \in examined : memory[a].size \in Nat \ {0}
  BY <1>1 DEF Blob
<1>4. /\ \A a \in examined : Start <= a /\ a + memory[a].size <= fdtheader
      /\ \A a \in (examined \cup {fdtheader}) \ {Start} :
            \E b \in examined : b + memory[b].size = a
      /\ \A a, b \in examined : a < b => a + memory[a].size <= b
  BY <1>1 DEF WalkKeepsToEntries, EntriesTile
<1>5. WithinImage'
  <2>1. dtbs_image_size # 0 => end <= Start + dtbs_image_size
    <3>1. dtbs_image_size # 0 => InImage(fdtheader + memory[fdtheader].size - 1, dtbs_image_size)
      BY DEF AtBlob, AtHeader, HeaderStatus
    <3> QED
      BY <1>1, <1>2, <3>1 DEF InImage
  <2> QED
    BY <1>1, <1>2, <2>1 DEF WalkKeepsToEntries, WithinImage
<1>6. EntriesTile'
  <2>1. \A a \in examined' : Start <= a /\ a + memory[a].size <= end
    BY <1>1, <1>2, <1>3, <1>4
  <2>2. \A a \in (examined' \cup {end}) \ {Start} : \E b \in examined' : b + memory[b].size = a
    BY <1>1, <1>2, <1>4
  <2>3. \A a, b \in examined' : a < b => a + memory[a].size <= b
    <3>1. SUFFICES ASSUME NEW a \in examined', NEW b \in examined', a < b
                   PROVE  a + memory[a].size <= b
      OBVIOUS
    <3>2. a # fdtheader
      BY <1>1, <1>3, <1>4, <3>1
    <3> QED
      BY <1>1, <1>4, <3>1, <3>2
  <2> QED
    BY <1>1, <2>1, <2>2, <2>3 DEF EntriesTile
<1> QED
  BY <1>5, <1>6 DEF WalkKeepsToEntries

(* The walk keeps to the entries of the image: those taken into account    *)
(* tile it from its start, and where its size is known none reaches beyond *)
(* it, whatever the headers say (dt_select.c:1610-1672, :1924).            *)
THEOREM WalkStaysInside == Spec => []WalkKeepsToEntries
<1>1. Init => WalkKeepsToEntries
  BY DEF Init, WalkKeepsToEntries, WithinImage, EntriesTile
<1>2. ASSUME TypeOK, Behind, WalkKeepsToEntries, [Next]_vars
      PROVE  WalkKeepsToEntries'
  <2>1. CASE UNCHANGED <<memory, dtbs_image_size, examined>> /\ pc' = "closed"
    BY <1>2, <2>1 DEF WalkKeepsToEntries, WithinImage, EntriesTile
  <2>2. CASE /\ UNCHANGED <<memory, dtbs_image_size, examined, fdtheader>>
             /\ pc # "closed"
    BY <1>2, <2>2 DEF WalkKeepsToEntries, WithinImage, EntriesTile
  <2>3. CASE AtBlob /\ NextEntry
    BY <1>2, <2>3, EntriesStep
  <2>4. CASE Open
    BY <2>4, ConstantsAreTyped DEF Open, WalkKeepsToEntries, WithinImage, EntriesTile
  <2>5. CASE OpenRefused \/ Close \/ CallWithoutHandle
    BY <2>1, <2>5 DEF OpenRefused, Close, CallWithoutHandle, inputs
  <2>6. CASE HeaderRejected \/ NoBoardId \/ CandidacyMallocFails \/ FinishFails
    BY <2>1, <2>6 DEF HeaderRejected, NoBoardId, CandidacyMallocFails, FinishFails, Abort, inputs
  <2>7. CASE Finish
    BY <2>2, <2>7 DEF Finish, AtEnd, inputs
  <2>8. CASE SkipEntry \/ ValidateBaseDtb \/ ValidateSocDtbo \/ ValidatePlatformDtbo
             \/ OemMallocFails
    BY <2>3, <2>8 DEF SkipEntry, ValidateBaseDtb, ValidateSocDtbo, ValidatePlatformDtbo,
       OemMallocFails, AtCandidate
  <2>9. ASSUME pc = "open", NEW type, NEW size, ReadBlob(type, size)
        PROVE  WalkKeepsToEntries'
    BY <2>2, <2>9 DEF ReadBlob, inputs
  <2>10. CASE UNCHANGED vars
    BY <1>2, <2>10 DEF vars, WalkKeepsToEntries, WithinImage, EntriesTile
  <2> QED
    BY <1>2, <2>4, <2>5, <2>6, <2>7, <2>8, <2>9, <2>10 DEF Next, Walk, Call
<1>3. SelectionInv => TypeOK /\ Behind
  BY DEF SelectionInv
<1> QED
  BY <1>1, <1>2, <1>3, SelectionInvariant, PTL DEF Spec

----------------------------------------------------------------------------
(* What a read hands out *)

(* A type for which nothing is selected has the size 0, which no read      *)
(* accepts; and what was handed out was of the handle that is still open.  *)
SizeTellsSelected ==
    pc # "closed" =>
        /\ handle.base_dtb_ptr = 0 => handle.base_dtb_size = 0
        /\ handle.soc_dtbo_ptr = 0 => handle.soc_dtbo_size = 0
        /\ handle.plat_dtbo_ptr = 0 => handle.plat_dtbo_size = 0

DeliveredInv ==
    /\ SizeTellsSelected
    /\ delivered # NULL => pc = "open"
    /\ ReadDeliversType

LEMMA SizeStep ==
    ASSUME SelectionInv, SizeTellsSelected, [Next]_vars
    PROVE  SizeTellsSelected'
<1>0. TypeOK /\ Behind
  BY DEF SelectionInv
<1>n. ASSUME AtBlob, NextEntry
      PROVE  /\ fdtheader # 0 /\ fdtheader \in Nat /\ Current.size \in Nat
             /\ handle \in Handles /\ pc # "closed" /\ pc' = pc
  BY <1>0, <1>n, NextIsNew, CurrentTyped DEF Blob
<1>1. CASE pc' = "closed"
  BY <1>1 DEF SizeTellsSelected
<1>2. CASE Open
  BY <1>2 DEF Open, EmptyHandle, SizeTellsSelected
<1>3. CASE Held \/ SkipEntry \/ OemMallocFails
  BY <1>3, <1>n DEF Held, SkipEntry, OemMallocFails, AtCandidate, SizeTellsSelected
<1>4. CASE ValidateBaseDtb
  <2>1. AtBlob /\ NextEntry
    BY <1>4 DEF ValidateBaseDtb, AtCandidate
  <2>2. \/ handle' = handle
        \/ handle' = [handle EXCEPT !.base_dtb_ptr = fdtheader, !.base_dtb_size = Current.size]
    BY <1>4 DEF ValidateBaseDtb
  <2>3. CASE handle' = handle
    BY <1>n, <2>1, <2>3 DEF SizeTellsSelected
  <2>4. CASE handle' # handle
    <3>1. handle' = [handle EXCEPT !.base_dtb_ptr = fdtheader, !.base_dtb_size = Current.size]
      BY <2>2, <2>4
    <3>2. /\ handle'.base_dtb_ptr = fdtheader
          /\ handle'.soc_dtbo_ptr = handle.soc_dtbo_ptr /\ handle'.soc_dtbo_size = handle.soc_dtbo_size
          /\ handle'.plat_dtbo_ptr = handle.plat_dtbo_ptr /\ handle'.plat_dtbo_size = handle.plat_dtbo_size
      BY <1>n, <2>1, <3>1, StoreFields
    <3> QED
      BY <1>n, <2>1, <3>2 DEF SizeTellsSelected
  <2> QED
    BY <2>3, <2>4
<1>5. CASE ValidateSocDtbo
  <2>1. AtBlob /\ NextEntry
    BY <1>5 DEF ValidateSocDtbo, AtCandidate
  <2>2. \/ handle' = handle
        \/ handle' = [handle EXCEPT !.soc_dtbo_ptr = fdtheader, !.soc_dtbo_size = Current.size]
    BY <1>5 DEF ValidateSocDtbo
  <2>3. CASE handle' = handle
    BY <1>n, <2>1, <2>3 DEF SizeTellsSelected
  <2>4. CASE handle' # handle
    <3>1. handle' = [handle EXCEPT !.soc_dtbo_ptr = fdtheader, !.soc_dtbo_size = Current.size]
      BY <2>2, <2>4
    <3>2. /\ handle'.soc_dtbo_ptr = fdtheader
          /\ handle'.base_dtb_ptr = handle.base_dtb_ptr /\ handle'.base_dtb_size = handle.base_dtb_size
          /\ handle'.plat_dtbo_ptr = handle.plat_dtbo_ptr /\ handle'.plat_dtbo_size = handle.plat_dtbo_size
      BY <1>n, <2>1, <3>1, StoreFields
    <3> QED
      BY <1>n, <2>1, <3>2 DEF SizeTellsSelected
  <2> QED
    BY <2>3, <2>4
<1>6. CASE ValidatePlatformDtbo
  <2>1. AtBlob /\ NextEntry
    BY <1>6 DEF ValidatePlatformDtbo, AtCandidate
  <2>2. \/ handle' = handle
        \/ handle' = [handle EXCEPT !.plat_dtbo_ptr = fdtheader, !.plat_dtbo_size = Current.size]
    BY <1>6 DEF ValidatePlatformDtbo
  <2>3. CASE handle' = handle
    BY <1>n, <2>1, <2>3 DEF SizeTellsSelected
  <2>4. CASE handle' # handle
    <3>1. handle' = [handle EXCEPT !.plat_dtbo_ptr = fdtheader, !.plat_dtbo_size = Current.size]
      BY <2>2, <2>4
    <3>2. /\ handle'.plat_dtbo_ptr = fdtheader
          /\ handle'.base_dtb_ptr = handle.base_dtb_ptr /\ handle'.base_dtb_size = handle.base_dtb_size
          /\ handle'.soc_dtbo_ptr = handle.soc_dtbo_ptr /\ handle'.soc_dtbo_size = handle.soc_dtbo_size
      BY <1>n, <2>1, <3>1, StoreFields
    <3> QED
      BY <1>n, <2>1, <3>2 DEF SizeTellsSelected
  <2> QED
    BY <2>3, <2>4
<1> QED
  BY <1>1, <1>2, <1>3, <1>4, <1>5, <1>6, StepCases

(* Every blob held is one the selection accepted, of its own type. *)
LEMMA SelectedIsChoice ==
    ASSUME SelectionInv, SizeTellsSelected, pc = "open",
           NEW type \in BlobType, Selected(handle, type).size # 0
    PROVE  /\ Selected(handle, type).ptr \in BaseChoices \cup SocChoices \cup PlatChoices
           /\ device_tree_type(memory[Selected(handle, type).ptr]) = type
<1>1. BestBase(BaseChoices) /\ BestSoc(SocChoices) /\ BestPlat(PlatChoices \ passed_over)
  BY DEF SelectionInv, BaseIsFirst, SocIsBest, PlatIsBest
<1>2. CASE type = "BASE_DTB"
  <2>1. Selected(handle, type) = [ptr |-> handle.base_dtb_ptr, size |-> handle.base_dtb_size]
    BY <1>2 DEF Selected
  <2>2. handle.base_dtb_ptr \in BaseChoices
    BY <1>1, <2>1 DEF BestBase, SizeTellsSelected
  <2> QED
    BY <1>2, <2>1, <2>2 DEF BaseChoices, CandidatesOfType
<1>3. CASE type = "SOC_DTBO"
  <2>1. Selected(handle, type) = [ptr |-> handle.soc_dtbo_ptr, size |-> handle.soc_dtbo_size]
    BY <1>3 DEF Selected
  <2>2. handle.soc_dtbo_ptr \in SocChoices
    BY <1>1, <2>1 DEF BestSoc, SizeTellsSelected
  <2> QED
    BY <1>3, <2>1, <2>2 DEF SocChoices, CandidatesOfType
<1>4. CASE type = "PLATFORM_DTBO"
  <2>1. Selected(handle, type) = [ptr |-> handle.plat_dtbo_ptr, size |-> handle.plat_dtbo_size]
    BY <1>4 DEF Selected
  <2>2. handle.plat_dtbo_ptr \in PlatChoices
    BY <1>1, <2>1 DEF BestPlat, SizeTellsSelected
  <2> QED
    BY <1>4, <2>1, <2>2 DEF PlatChoices, CandidatesOfType
<1> QED
  BY <1>2, <1>3, <1>4 DEF BlobType

(* A read that succeeds hands out a blob of the type asked for, one that   *)
(* the selection accepted for this device: dt_select_read_blob compares    *)
(* sizes only, and that is enough (dt_select.c:2543-2589).                 *)
THEOREM ReadsDeliverType == Spec => []ReadDeliversType
<1>1. Init => DeliveredInv
  BY DEF Init, DeliveredInv, SizeTellsSelected, ReadDeliversType
<1>2. ASSUME SelectionInv, DeliveredInv, [Next]_vars
      PROVE  DeliveredInv'
  <2>1. SizeTellsSelected'
    BY <1>2, SizeStep DEF DeliveredInv
  <2>2. CASE delivered' = NULL
    BY <2>1, <2>2 DEF DeliveredInv, ReadDeliversType
  <2>3. CASE pc # "open" /\ delivered' = delivered
    BY <1>2, <2>1, <2>3 DEF DeliveredInv, ReadDeliversType
  <2>4. CASE Open \/ OpenRefused \/ Close \/ CallWithoutHandle
    BY <2>2, <2>4 DEF Open, OpenRefused, Close, CallWithoutHandle
  <2>5. CASE Walk
    BY <2>3, <2>5 DEF Walk, HeaderRejected, NoBoardId, CandidacyMallocFails, SkipEntry,
       ValidateBaseDtb, ValidateSocDtbo, ValidatePlatformDtbo, OemMallocFails, Finish,
       FinishFails, Abort, NextEntry, AtCandidate, AtBlob, AtHeader, AtEnd
  <2>6. ASSUME pc = "open", NEW type, NEW size, ReadBlob(type, size)
        PROVE  DeliveredInv'
    <3>1. CASE ReadStatus(type, size) = "SUCCESS"
      <4>1. type \in BlobType /\ Selected(handle, type).size # 0
        BY <3>1 DEF ReadStatus
      <4>2. delivered' = [type |-> type, blob |-> Selected(handle, type).ptr]
        BY <2>6, <3>1 DEF ReadBlob
      <4>3. /\ Selected(handle, type).ptr \in BaseChoices \cup SocChoices \cup PlatChoices
            /\ device_tree_type(memory[Selected(handle, type).ptr]) = type
        BY <1>2, <2>6, <4>1, SelectedIsChoice DEF DeliveredInv
      <4>4. /\ memory' = memory /\ pc' = "open"
            /\ BaseChoices' = BaseChoices /\ SocChoices' = SocChoices /\ PlatChoices' = PlatChoices
        BY <2>6 DEF ReadBlob, inputs, BaseChoices, SocChoices, PlatChoices, CandidatesOfType
      <4> QED
        BY <2>1, <4>2, <4>3, <4>4 DEF DeliveredInv, ReadDeliversType
    <3>2. CASE ReadStatus(type, size) # "SUCCESS"
      BY <2>2, <2>6, <3>2 DEF ReadBlob
    <3> QED
      BY <3>1, <3>2
  <2>7. CASE UNCHANGED vars
    <3>1. /\ memory' = memory /\ pc' = pc /\ delivered' = delivered
          /\ BaseChoices' = BaseChoices /\ SocChoices' = SocChoices /\ PlatChoices' = PlatChoices
      BY <2>7 DEF vars, BaseChoices, SocChoices, PlatChoices, CandidatesOfType
    <3> QED
      BY <1>2, <2>1, <3>1 DEF DeliveredInv, ReadDeliversType
  <2> QED
    BY <1>2, <2>4, <2>5, <2>6, <2>7 DEF Next, Call
<1>3. DeliveredInv => ReadDeliversType
  BY DEF DeliveredInv
<1> QED
  BY <1>1, <1>2, <1>3, SelectionInvariant, PTL DEF Spec
=============================================================================
