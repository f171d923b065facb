-------------------------- MODULE GptLoader_proofs --------------------------
(***************************************************************************)
(* Proofs about the autonomous boot chain, for any medium and any size of  *)
(* the memory set aside for a part.                                        *)
(*                                                                         *)
(* The search is a loop, so what it returns rests on what it has passed    *)
(* over (SearchInv); what is copied then fits, because in the boot ROM     *)
(* every range the search leaves behind does, and in the loader only that  *)
(* of a match is used (RangeInv).                                          *)
(***************************************************************************)
EXTENDS GptLoader, TLAPS

GptType ==
  /\ disk \in Disks /\ autonomous \in BOOLEAN /\ failed \in BOOLEAN
  /\ part \in Parts /\ p \in Nat
  /\ lba_begin \in Nat /\ lba_end \in Nat /\ part_idx \in Int
  /\ pc \in {"sig", "header", "entry", "type", "found", "copy", "next_stage", "zsl"} \cup Ended
  /\ DOMAIN memory = Parts

(* The range is that of entry i, or within the first one from its start.   *)
RangeIs(i) == lba_begin = disk.entries[i].lba_begin /\ lba_end = disk.entries[i].lba_end
FirstTaken == count > 0 => /\ lba_begin = disk.entries[1].lba_begin
                           /\ lba_end <= disk.entries[1].lba_end

(* No entry passed over matches; the one found does.                       *)
SearchInv ==
  /\ pc \in {"entry", "type"} =>
       /\ p < count /\ part_idx = -1 /\ \A i \in Matches : p < i
       /\ p > 0 \/ pc = "type" => FirstTaken
  /\ pc = "type" => ~ TooLarge(dim)
  /\ pc = "found" =>
       \/ part_idx = -1 /\ Matches = {} /\ FirstTaken
       \/ /\ part_idx + 1 \in Matches /\ \A i \in Matches : part_idx + 1 <= i
          /\ RangeIs(part_idx + 1)

RangeInv ==
  /\ Rom \/ pc = "copy" => lba_end - lba_begin + 1 \in 1 .. max_lbas
  /\ pc = "copy" /\ ~ Rom => \E i \in DOMAIN disk.entries :
                               disk.entries[i].type = part /\ RangeIs(i)
  /\ LoadsFit
  /\ RightParts

(* The boot ROM stops at its first failure; its steps are not the loader's.*)
FailureInv ==
  /\ Rom /\ failed => pc = "exit"
  /\ pc \in {"sig", "next_stage", "zsl", "other", "exit"} => Rom

GptInv == GptType /\ SearchInv /\ RangeInv /\ FailureInv
---------------------------------------------------------------------------
(* A least member of a set of integers is its minimum.                     *)
LEMMA MinIs ==
  ASSUME NEW S \in SUBSET Int, NEW m \in S, \A x \in S : m <= x
  PROVE  Min(S) = m
<1>1. \A y \in S : (\A x \in S : y <= x) => y = m
  OBVIOUS
<1> QED
  BY <1>1 DEF Min

(* The end of the first partition: within it, and never past what fits.    *)
LEMMA FirstEndFacts ==
  ASSUME NEW e, e.lba_begin \in Nat, e.lba_end \in Nat, e.lba_begin <= e.lba_end,
         max_lbas \in Nat \ {0}
  PROVE  /\ FirstEnd(e) \in Nat /\ FirstEnd(e) <= e.lba_end
         /\ FirstEnd(e) - e.lba_begin + 1 \in 1 .. max_lbas
<1> DEFINE last == e.lba_begin + max_lbas - 1
           ends == {e.lba_end, last}
<1>1. ends \in SUBSET Int /\ FirstEnd(e) = Min(ends)
  BY DEF FirstEnd
<1>2. CASE e.lba_end <= last
  <2>1. e.lba_end \in ends /\ \A x \in ends : e.lba_end <= x
    BY <1>2
  <2>2. Min(ends) = e.lba_end
    BY <1>1, <2>1, MinIs
  <2> QED
    BY <1>1, <1>2, <2>2
<1>3. CASE last < e.lba_end
  <2>1. last \in ends /\ \A x \in ends : last <= x
    BY <1>3
  <2>2. Min(ends) = last
    BY <1>1, <2>1, MinIs
  <2> QED
    BY <1>1, <1>3, <2>2
<1> QED
  BY <1>2, <1>3

(* What the table of a disk holds: as many entries as are counted, each    *)
(* with a range that is not empty.                                         *)
LEMMA DiskFacts ==
  ASSUME disk \in Disks
  PROVE  /\ count \in Nat /\ DOMAIN disk.entries = 1 .. count
         /\ \A i \in 1 .. count : /\ disk.entries[i].lba_begin \in Nat
                                 /\ disk.entries[i].lba_end \in Nat
                                 /\ disk.entries[i].lba_begin <= disk.entries[i].lba_end
<1>1. /\ disk.entries \in Seq(Entry)
      /\ \A i \in DOMAIN disk.entries : IsEntry(disk.entries[i])
  BY DisksAssumption
<1>2. count \in Nat /\ DOMAIN disk.entries = 1 .. count
  BY <1>1 DEF count
<1>3. \A i \in 1 .. count : disk.entries[i] \in Entry
  BY <1>1, <1>2
<1> QED
  BY <1>1, <1>2, <1>3 DEF Entry, IsEntry

(* The inductive invariant of the boot chain.                              *)
THEOREM ChainState == Spec => []GptInv
<1> USE MaxLbasAssumption DEF GptInv, Rom, max_lbas, Parts, Ended
<1>1. Init => GptInv
  <2> SUFFICES ASSUME Init PROVE GptInv
    OBVIOUS
  <2> USE DEF Init
  <2>1. GptType
    <3>1. MaxLbas["zsl"] - 1 \in Nat
      OBVIOUS
    <3>2. DOMAIN memory = Parts
      OBVIOUS
    <3>3. disk \in Disks /\ autonomous \in BOOLEAN /\ failed \in BOOLEAN
      OBVIOUS
    <3>4. pc \in {"sig", "zsl"} /\ part \in Parts /\ p \in Nat /\ part_idx \in Int
      OBVIOUS
    <3>5. lba_begin \in Nat /\ lba_end \in Nat
      BY <3>1
    <3> QED
      BY <3>2, <3>3, <3>4, <3>5 DEF GptType
  <2>2. SearchInv /\ FailureInv
    BY DEF SearchInv, FailureInv
  <2>3. RangeInv
    BY DEF RangeInv, LoadsFit, RightParts
  <2> QED
    BY <2>1, <2>2, <2>3
<1>2. GptInv /\ [Next]_vars => GptInv'
  <2> SUFFICES ASSUME GptInv, [Next]_vars PROVE GptInv'
    OBVIOUS
  <2>1. CASE ReadEntry
    <3>1. /\ pc = "entry" /\ UNCHANGED <<disk, part, part_idx, autonomous, memory, failed>>
          /\ p = 0 => lba_begin' = dim.lba_begin /\ lba_end' = FirstEnd(dim)
          /\ p # 0 => UNCHANGED <<lba_begin, lba_end>>
          /\ \/ TooLarge(dim) /\ p' = p + 1 /\ pc' = IF p + 1 < count THEN "entry" ELSE "found"
             \/ ~ TooLarge(dim) /\ p' = p /\ pc' = "type"
      BY <2>1 DEF ReadEntry, NextEntry
    <3>2. /\ count \in Nat /\ Matches \subseteq 1 .. count /\ p \in Nat /\ p < count
          /\ part_idx = -1 /\ (\A i \in Matches : p < i) /\ (p > 0 => FirstTaken)
      BY <3>1, DiskFacts DEF GptType, SearchInv, Matches
    <3>3. /\ Matches' = Matches /\ count' = count
          /\ (p' = p => dim' = dim /\ (TooLarge(dim)' <=> TooLarge(dim)))
      BY <3>1 DEF Matches, count, dim, TooLarge
    <3>4. /\ dim.lba_begin \in Nat /\ dim.lba_end \in Nat /\ dim.lba_begin <= dim.lba_end
          /\ dim = disk.entries[p + 1] /\ max_lbas \in Nat \ {0}
      BY <3>2, DiskFacts DEF dim, GptType
    <3>5. /\ FirstEnd(dim) \in Nat /\ FirstEnd(dim) <= dim.lba_end
          /\ FirstEnd(dim) - dim.lba_begin + 1 \in 1 .. max_lbas
      BY <3>4, FirstEndFacts
    <3>6. TooLarge(dim) => p + 1 \notin Matches
      BY <3>4 DEF TooLarge, Matches
    <3>7. FirstTaken'
      <4>1. CASE p = 0
        BY <3>1, <3>3, <3>4, <3>5, <4>1 DEF FirstTaken
      <4>2. CASE p # 0
        BY <3>1, <3>2, <3>3, <4>2 DEF FirstTaken
      <4> QED
        BY <4>1, <4>2
    <3>8. lba_begin' \in Nat /\ lba_end' \in Nat
      BY <3>1, <3>4, <3>5 DEF GptType
    <3>9. GptType'
      BY <3>1, <3>8 DEF GptType
    <3>10. SearchInv'
      <4>1. CASE ~ TooLarge(dim) /\ p' = p /\ pc' = "type"
        BY <3>1, <3>2, <3>3, <3>7, <4>1 DEF SearchInv
      <4>2. CASE TooLarge(dim) /\ p' = p + 1 /\ p + 1 < count /\ pc' = "entry"
        BY <3>1, <3>2, <3>3, <3>6, <3>7, <4>2 DEF SearchInv
      <4>3. CASE TooLarge(dim) /\ ~ (p + 1 < count) /\ pc' = "found"
        <5>1. Matches = {}
          BY <3>2, <3>6, <4>3
        <5> QED
          BY <3>1, <3>2, <3>3, <3>7, <4>3, <5>1 DEF SearchInv
      <4> QED
        BY <3>1, <4>1, <4>2, <4>3
    <3>11. RangeInv'
      <4>1. LoadsFit' /\ RightParts' /\ pc' # "copy"
        BY <3>1 DEF RangeInv, LoadsFit, RightParts
      <4>2. Rom' => lba_end' - lba_begin' + 1 \in 1 .. max_lbas'
        BY <3>1, <3>5 DEF RangeInv
      <4> QED
        BY <4>1, <4>2 DEF RangeInv
    <3>12. FailureInv'
      BY <3>1 DEF FailureInv
    <3> QED
      BY <3>9, <3>10, <3>11, <3>12
  <2>2. CASE ReadType
    <3>1. /\ pc = "type" /\ UNCHANGED <<disk, part, autonomous, memory, failed>>
          /\ \/ /\ dim.type = part /\ part_idx' = p /\ p' = p /\ pc' = "found"
                /\ lba_begin' = dim.lba_begin /\ lba_end' = dim.lba_end
             \/ /\ dim.type # part /\ UNCHANGED <<part_idx, lba_begin, lba_end>>
                /\ p' = p + 1 /\ pc' = IF p + 1 < count THEN "entry" ELSE "found"
      BY <2>2 DEF ReadType, NextEntry
    <3>2. /\ count \in Nat /\ Matches \subseteq 1 .. count /\ p \in Nat /\ p < count
          /\ part_idx = -1 /\ (\A i \in Matches : p < i) /\ FirstTaken
          /\ ~ TooLarge(dim)
      BY <3>1, DiskFacts DEF GptType, SearchInv, Matches
    <3>3. Matches' = Matches /\ count' = count /\ max_lbas' = max_lbas
      BY <3>1 DEF Matches, count
    <3>4. /\ dim.lba_begin \in Nat /\ dim.lba_end \in Nat /\ dim.lba_begin <= dim.lba_end
          /\ dim = disk.entries[p + 1] /\ max_lbas \in Nat \ {0}
      BY <3>2, DiskFacts DEF dim, GptType
    <3>5. dim.lba_end - dim.lba_begin + 1 \in 1 .. max_lbas
      BY <3>2, <3>4 DEF TooLarge
    <3>6. dim.type = part <=> p + 1 \in Matches
      BY <3>2, <3>4, <3>5, DiskFacts DEF Matches, GptType
    <3>7. CASE dim.type = part /\ pc' = "found" /\ part_idx' = p /\ p' = p
      <4>1. lba_begin' = dim.lba_begin /\ lba_end' = dim.lba_end
        BY <3>1, <3>2, <3>7
      <4>2. GptType'
        BY <3>1, <3>2, <3>4, <3>7, <4>1 DEF GptType
      <4>3. SearchInv'
        BY <3>1, <3>2, <3>3, <3>4, <3>6, <3>7, <4>1 DEF SearchInv, RangeIs
      <4>4. RangeInv'
        BY <3>1, <3>3, <3>5, <3>7, <4>1 DEF RangeInv, LoadsFit, RightParts
      <4>5. FailureInv'
        BY <3>1, <3>7 DEF FailureInv
      <4> QED
        BY <4>2, <4>3, <4>4, <4>5
    <3>8. CASE /\ dim.type # part /\ UNCHANGED <<part_idx, lba_begin, lba_end>>
               /\ p' = p + 1 /\ pc' = IF p + 1 < count THEN "entry" ELSE "found"
      <4>1. FirstTaken' /\ pc' # "copy"
        BY <3>1, <3>2, <3>3, <3>8 DEF FirstTaken
      <4>2. GptType'
        BY <3>1, <3>2, <3>8 DEF GptType
      <4>3. SearchInv'
        <5>1. CASE p + 1 < count /\ pc' = "entry"
          BY <3>1, <3>2, <3>3, <3>6, <3>8, <4>1, <5>1 DEF SearchInv
        <5>2. CASE ~ (p + 1 < count) /\ pc' = "found"
          <6>1. Matches = {}
            BY <3>2, <3>6, <3>8, <5>2
          <6> QED
            BY <3>1, <3>2, <3>3, <3>8, <4>1, <5>2, <6>1 DEF SearchInv
        <5> QED
          BY <3>8, <5>1, <5>2
      <4>4. RangeInv'
        BY <3>1, <3>3, <3>8, <4>1 DEF RangeInv, LoadsFit, RightParts
      <4>5. FailureInv'
        BY <3>1, <3>8, <4>1 DEF FailureInv
      <4> QED
        BY <4>2, <4>3, <4>4, <4>5
    <3> QED
      BY <3>1, <3>7, <3>8
  <2> USE DiskFacts DEF GptType, SearchInv, RangeInv, FailureInv, LoadsFit, RightParts, search,
          FirstTaken, RangeIs
  <2>3. CASE CheckSignature
    BY <2>3 DEF CheckSignature
  <2>4. CASE ReadHeader
    <3>1. Matches' = Matches /\ Matches \subseteq 1 .. count
      BY <2>4 DEF ReadHeader, Matches
    <3> QED
      BY <2>4, <3>1 DEF ReadHeader, count
  <2>5. CASE Found
    <3>1. FailureInv' /\ LoadsFit' /\ RightParts' /\ GptType' /\ SearchInv'
      BY <2>5 DEF Found
    <3>2. pc' = "copy" /\ ~ Rom =>
            /\ disk.entries[part_idx + 1].type = part /\ part_idx + 1 \in DOMAIN disk.entries
            /\ RangeIs(part_idx + 1)
            /\ lba_end - lba_begin + 1 \in 1 .. max_lbas
      BY <2>5 DEF Found, Matches
    <3>3. RangeInv'
      BY <2>5, <3>1, <3>2 DEF Found
    <3> QED
      BY <3>1, <3>3
  <2>6. CASE Copy
    BY <2>6 DEF Copy, AfterCopy
  <2>7. CASE CopyFails
    BY <2>7 DEF CopyFails, AfterCopy
  <2>8. CASE NextStage
    BY <2>8 DEF NextStage
  <2>9. CASE ZslMain
    BY <2>9 DEF ZslMain
  <2>10. ASSUME NEW l \in {"header", "entry", "type"}, ReadFails(l) PROVE GptInv'
    BY <2>10 DEF ReadFails
  <2>11. CASE UNCHANGED vars
    BY <2>11 DEF vars, Matches, count, dim, TooLarge
  <2> QED
    BY <2>1, <2>2, <2>3, <2>4, <2>5, <2>6, <2>7, <2>8, <2>9, <2>10, <2>11 DEF Next
<1> QED
  BY <1>1, <1>2, PTL DEF Spec
---------------------------------------------------------------------------
(* What the search promises: the first partition that fits and matches, or *)
(* else the beginning of the first one.                                    *)
THEOREM SearchIsRight == Spec => []FirstFit
<1>1. GptInv => FirstFit
  <2> SUFFICES ASSUME GptInv, pc = "found" PROVE FirstFit
    BY DEF FirstFit
  <2>1. disk \in Disks /\ Matches \in SUBSET Int
    BY DiskFacts DEF GptInv, GptType, Matches
  <2>2. CASE part_idx = -1 /\ Matches = {} /\ FirstTaken
    BY <2>2 DEF FirstFit, FirstTaken
  <2>3. CASE /\ part_idx + 1 \in Matches /\ \A i \in Matches : part_idx + 1 <= i
             /\ RangeIs(part_idx + 1)
    <3>1. Min(Matches) = part_idx + 1
      BY <2>1, <2>3, MinIs
    <3> QED
      BY <2>3, <3>1 DEF FirstFit, RangeIs, GptInv, GptType
  <2> QED
    BY <2>2, <2>3 DEF GptInv, SearchInv
<1> QED
  BY <1>1, ChainState, PTL

(* No load exceeds the memory set aside for it.                            *)
THEOREM EveryLoadFits == Spec => []LoadsFit
<1>1. GptInv => LoadsFit
  BY DEF GptInv, RangeInv
<1> QED
  BY <1>1, ChainState, PTL

(* Device trees and firmware are those of partitions of their type.        *)
THEOREM PartsAreRight == Spec => []RightParts
<1>1. GptInv => RightParts
  BY DEF GptInv, RangeInv
<1> QED
  BY <1>1, ChainState, PTL

(* The boot ROM enters no code after a failure.                            *)
THEOREM FailureStopsRom == Spec => []NoEntryAfterFailure
<1>1. GptInv => NoEntryAfterFailure
  BY DEF GptInv, FailureInv, NoEntryAfterFailure
<1> QED
  BY <1>1, ChainState, PTL
===========================================================================
