--------------------------- MODULE SmpBoot_proofs ---------------------------
(***************************************************************************)
(* Proofs about the boot ROM's hand-over, for every number of harts and    *)
(* every set of entry points.                                              *)
(***************************************************************************)
EXTENDS SmpBoot, TLAPS

(* The boot hart is a hart, and None is neither a word nor an entry point. *)
LEMMA ConstantFacts == /\ NONSMP_HART \in Harts
                       /\ None \notin Words
                       /\ None \notin Addrs
  BY NumHartsAssumption, NonSmpHartAssumption, NoneAssumption DEF Harts, Addrs

(* Every variable keeps its type, and a loop cursor stays inside the CLINT *)
(* while the loop uses it.                                                 *)
THEOREM Typing == Spec => []TypeOK
<1>1. Init => TypeOK
  BY ConstantFacts, NumHartsAssumption DEF Init, TypeOK, Locs, Harts
<1>2. TypeOK /\ [Next]_vars => TypeOK'
  <2> SUFFICES ASSUME TypeOK, [Next]_vars PROVE TypeOK'
    OBVIOUS
  <2> USE NumHartsAssumption, ConstantFacts DEF TypeOK, Locs, Goto
  <2>1. ASSUME NEW h \in Harts, SmpPause(h) PROVE TypeOK'
    BY <2>1 DEF SmpPause
  <2>2. ASSUME NEW h \in Harts, NEW a \in Addrs, CallNextStage(h, a) PROVE TypeOK'
    BY <2>2 DEF CallNextStage
  <2>3. ASSUME NEW h \in Harts, Exit(h) PROVE TypeOK'
    BY <2>3 DEF Exit
  <2>4. ASSUME NEW h \in Harts, StoreLow(h) PROVE TypeOK'
    BY <2>4 DEF StoreLow, Addrs
  <2>5. ASSUME NEW h \in Harts, StoreHigh(h) PROVE TypeOK'
    BY <2>5 DEF StoreHigh, Addrs, Harts
  <2>6. ASSUME NEW h \in Harts, Notify(h) PROVE TypeOK'
    <3>1. cursor[h] \in Harts /\ cursor[h] + 1 \in 0 .. NUM_INT_HARTS
      <4>1. cursor[h] \in Harts
        BY <2>6 DEF Notify
      <4> QED BY ONLY <4>1, NumHartsAssumption DEF Harts
    <3>2. msip' \in [Harts -> {0, 1}] /\ pc' \in [Harts -> Locs]
      BY <2>6 DEF Notify
    <3>3. cursor' \in [Harts -> 0 .. NUM_INT_HARTS]
      BY ONLY TypeOK, <2>6, <3>1, SMTT(30) DEF TypeOK, Notify
    <3>4. ASSUME NEW g \in Harts, pc'[g] \in {"notify", "scan"}
          PROVE  cursor'[g] \in Harts
      <4>1. CASE g = h
        <5>1. cursor'[h] = cursor[h] + 1
          BY <2>6 DEF Notify
        <5>2. cursor[h] + 1 < NUM_INT_HARTS
          BY <2>6, <3>4, <4>1 DEF Notify
        <5> QED BY ONLY <3>1, <4>1, <5>1, <5>2, NumHartsAssumption DEF Harts
      <4>2. CASE g # h
        BY <2>6, <3>4, <4>2 DEF Notify
      <4> QED BY <4>1, <4>2
    <3>5. ASSUME NEW g \in Harts, pc'[g] \in {"sw_low", "sw_high"}
          PROVE  entry'[g] \in Addrs
      BY <2>6, <3>5 DEF Notify
    <3> QED BY <2>6, <3>2, <3>3, <3>4, <3>5 DEF Notify
  <2>7. ASSUME NEW h \in Harts, Wakeup(h) PROVE TypeOK'
    BY <2>7 DEF Wakeup
  <2>8. ASSUME NEW h \in Harts, ClearOwn(h) PROVE TypeOK'
    BY <2>8 DEF ClearOwn, Harts
  <2>9. ASSUME NEW h \in Harts, Scan(h) PROVE TypeOK'
    BY <2>9, SMTT(30) DEF Scan, Harts
  <2>10. ASSUME NEW h \in Harts, LoadHigh(h) PROVE TypeOK'
    BY <2>10 DEF LoadHigh
  <2>11. ASSUME NEW h \in Harts, LoadLowAndJump(h) PROVE TypeOK'
    BY <2>11 DEF LoadLowAndJump
  <2>12. ASSUME NEW h \in Harts, NextStageReturns(h) PROVE TypeOK'
    BY <2>12 DEF NextStageReturns
  <2>13. ASSUME NEW h \in Harts, NEW g \in Harts, NextStageIpi(h, g) PROVE TypeOK'
    BY <2>13 DEF NextStageIpi
  <2>14. CASE UNCHANGED vars
    BY <2>14 DEF vars
  <2> QED
    BY <2>1, <2>2, <2>3, <2>4, <2>5, <2>6, <2>7, <2>8, <2>9, <2>10, <2>11,
       <2>12, <2>13, <2>14 DEF Next, Quiet, Rom
<1> QED
  BY <1>1, <1>2, PTL DEF Spec

(* The hand-over invariant: bits tell who has acknowledged, scanning harts *)
(* have only passed harts that did, and the scratch registers hold the     *)
(* entry point from the store on.                                          *)
THEOREM HandOver == Spec => []HandOverInv
<1>1. Init => HandOverInv
  BY ConstantFacts DEF Init, HandOverInv, OneBootHart, BitTellsAck, ScanPrefix,
     Barrier, ScratchHoldsEntry, EntryAgreement, Notified, BootHart, Parked, Left
<1>2. TypeOK /\ HandOverInv /\ [Next]_vars => HandOverInv'
  <2> SUFFICES ASSUME TypeOK, HandOverInv, [Next]_vars PROVE HandOverInv'
    OBVIOUS
  <2> USE ConstantFacts, NonSmpHartAssumption, NumHartsAssumption
      DEF TypeOK, HandOverInv, Goto, BootHart, Parked, Left, Locs
  <2>1. ASSUME NEW h \in Harts, SmpPause(h) PROVE HandOverInv'
    BY <2>1 DEF SmpPause, OneBootHart, BitTellsAck, ScanPrefix, Barrier, ScratchHoldsEntry, EntryAgreement, Notified, Harts, Addrs
  <2>2. ASSUME NEW h \in Harts, NEW a \in Addrs, CallNextStage(h, a) PROVE HandOverInv'
    BY <2>2 DEF CallNextStage, OneBootHart, BitTellsAck, ScanPrefix, Barrier, ScratchHoldsEntry, EntryAgreement, Notified, Harts, Addrs
  <2>3. ASSUME NEW h \in Harts, Exit(h) PROVE HandOverInv'
    BY <2>3 DEF Exit, OneBootHart, BitTellsAck, ScanPrefix, Barrier, ScratchHoldsEntry, EntryAgreement, Notified, Harts, Addrs
  <2>4. ASSUME NEW h \in Harts, StoreLow(h) PROVE HandOverInv'
    BY <2>4 DEF StoreLow, OneBootHart, BitTellsAck, ScanPrefix, Barrier, ScratchHoldsEntry, EntryAgreement, Notified, Harts, Addrs
  <2>5. ASSUME NEW h \in Harts, StoreHigh(h) PROVE HandOverInv'
    BY <2>5 DEF StoreHigh, OneBootHart, BitTellsAck, ScanPrefix, Barrier, ScratchHoldsEntry, EntryAgreement, Notified, Harts, Addrs
  <2>6. ASSUME NEW h \in Harts, Notify(h) PROVE HandOverInv'
    <3>1. /\ h = NONSMP_HART /\ pc[h] = "notify"
          /\ \A g \in Harts : Notified(g)' <=> Notified(g) \/ g = cursor[h]
      BY <2>6 DEF Notify, OneBootHart, Notified, Harts
    <3>2. OneBootHart'
      BY <2>6, <3>1 DEF Notify, OneBootHart
    <3>3. BitTellsAck'
      <4> SUFFICES ASSUME NEW g \in Harts
                   PROVE  IF Notified(g)' THEN pc'[g] \in Parked => msip'[g] = 1
                          ELSE msip'[g] = 0 /\ pc'[g] \in Parked \ {"clear"}
        BY DEF BitTellsAck
      <4>1. CASE g = cursor[h]
        BY <2>6, <3>1, <4>1 DEF Notify
      <4>2. CASE g # cursor[h]
        <5>1. msip'[g] = msip[g]
          BY <2>6, <4>2 DEF Notify
        <5>2. Notified(g)' <=> Notified(g)
          BY <3>1, <4>2
        <5>3. /\ pc[g] \in Parked <=> pc'[g] \in Parked
              /\ pc'[g] = "clear" => pc[g] = "clear"
          BY <2>6 DEF Notify
        <5> QED
          BY <5>1, <5>2, <5>3 DEF BitTellsAck
      <4> QED
        BY <4>1, <4>2
    <3>4. ScanPrefix' /\ Barrier'
      BY <2>6, <3>1 DEF Notify, BitTellsAck, ScanPrefix, Barrier
    <3>5. ScratchHoldsEntry' /\ EntryAgreement'
      BY <2>6, <3>1 DEF Notify, ScratchHoldsEntry, EntryAgreement
    <3> QED
      BY <3>2, <3>3, <3>4, <3>5
  <2>7. ASSUME NEW h \in Harts, Wakeup(h) PROVE HandOverInv'
    BY <2>7, SMTT(30) DEF Wakeup, OneBootHart, BitTellsAck, ScanPrefix, Barrier, ScratchHoldsEntry, EntryAgreement, Notified, Harts, Addrs
  <2>8. ASSUME NEW h \in Harts, ClearOwn(h) PROVE HandOverInv'
    BY <2>8, SMTT(30) DEF ClearOwn, OneBootHart, BitTellsAck, ScanPrefix, Barrier, ScratchHoldsEntry, EntryAgreement, Notified, Harts, Addrs
  <2>9. ASSUME NEW h \in Harts, Scan(h) PROVE HandOverInv'
    <3> DEFINE c == cursor[h]
    <3>1. /\ pc[h] = "scan" /\ c \in Harts /\ msip[c] = 0
          /\ pc' = [pc EXCEPT ![h] = IF c + 1 < NUM_INT_HARTS THEN "scan" ELSE "lw_high"]
          /\ cursor' = [cursor EXCEPT ![h] = c + 1]
          /\ UNCHANGED <<msip, entry, scratch4, scratch5, t1, jumped>>
      BY <2>9 DEF Scan
    <3>2. pc[NONSMP_HART] \notin Parked
      <4>1. Notified(h)
        BY <3>1 DEF BitTellsAck
      <4>2. Notified(NONSMP_HART)
        BY <4>1 DEF Notified, Harts
      <4>3. CASE c = 0
        BY <3>1, <4>2, <4>3 DEF BitTellsAck
      <4>4. CASE c # 0
        <5>1. NONSMP_HART < cursor[h]
          BY <3>1, <4>4 DEF Harts
        <5> QED
          BY <3>1, <5>1 DEF ScanPrefix
      <4> QED
        BY <4>3, <4>4
    <3>3. pc[c] \notin Parked
      BY <3>1, <3>2 DEF BitTellsAck, Notified
    <3>4. \A g \in Harts : g < c + 1 => pc[g] \notin Parked
      BY <3>1, <3>3 DEF ScanPrefix, Harts
    <3>5. OneBootHart'
      BY <3>1 DEF OneBootHart
    <3>6. BitTellsAck'
      BY <3>1, <3>2 DEF BitTellsAck, Notified
    <3>7. ScanPrefix' /\ Barrier'
      BY <3>1, <3>4 DEF ScanPrefix, Barrier, Harts
    <3>8. ScratchHoldsEntry' /\ EntryAgreement'
      BY <3>1, <3>2 DEF ScratchHoldsEntry, EntryAgreement
    <3> QED
      BY <3>5, <3>6, <3>7, <3>8
  <2>10. ASSUME NEW h \in Harts, LoadHigh(h) PROVE HandOverInv'
    BY <2>10 DEF LoadHigh, OneBootHart, BitTellsAck, ScanPrefix, Barrier, ScratchHoldsEntry, EntryAgreement, Notified, Harts, Addrs
  <2>11. ASSUME NEW h \in Harts, LoadLowAndJump(h) PROVE HandOverInv'
    BY <2>11 DEF LoadLowAndJump, OneBootHart, BitTellsAck, ScanPrefix, Barrier, ScratchHoldsEntry, EntryAgreement, Notified, Harts, Addrs
  <2>12. ASSUME NEW h \in Harts, NextStageReturns(h) PROVE HandOverInv'
    BY <2>12 DEF NextStageReturns, OneBootHart, BitTellsAck, ScanPrefix, Barrier, ScratchHoldsEntry, EntryAgreement, Notified, Harts, Addrs
  <2>13. ASSUME NEW h \in Harts, NEW g \in Harts, NextStageIpi(h, g) PROVE HandOverInv'
    BY <2>13 DEF NextStageIpi, OneBootHart, BitTellsAck, ScanPrefix, Barrier, ScratchHoldsEntry, EntryAgreement, Notified, Harts, Addrs
  <2>14. CASE UNCHANGED vars
    BY <2>14 DEF vars, OneBootHart, BitTellsAck, ScanPrefix, Barrier, ScratchHoldsEntry, EntryAgreement, Notified
  <2> QED
    BY <2>1, <2>2, <2>3, <2>4, <2>5, <2>6, <2>7, <2>8, <2>9, <2>10, <2>11,
       <2>12, <2>13, <2>14 DEF Next, Quiet, Rom
<1> QED
  BY <1>1, <1>2, Typing, PTL DEF Spec

(* No hart leaves smp_resume before every hart has acknowledged its        *)
(* wake-up, for any number of harts and although the next stage already    *)
(* running elsewhere may raise software interrupts.                        *)
THEOREM BarrierHolds == Spec => []Barrier
<1>1. HandOverInv => Barrier
  BY DEF HandOverInv
<1> QED
  BY <1>1, HandOver, PTL

(* Every hart jumps to both words of the one entry point handed over.      *)
THEOREM EntryAgreementHolds == Spec => []EntryAgreement
<1>1. HandOverInv => EntryAgreement
  BY DEF HandOverInv
<1> QED
  BY <1>1, HandOver, PTL

(* A hart still in its wfi loop once the boot hart has finished waking     *)
(* finds its bit set.                                                      *)
THEOREM NoLostWakeupHolds == Spec => []NoLostWakeup
<1>1. HandOverInv => NoLostWakeup
  <2> SUFFICES ASSUME HandOverInv, NEW h \in Harts, pc[h] = "wfi",
                      pc[NONSMP_HART] \notin Parked
               PROVE  msip[h] = 1
    BY DEF NoLostWakeup
  <2>1. ~ Notified(h) => msip[NONSMP_HART] = 0 /\ pc[NONSMP_HART] \in Parked
    <3>1. ~ Notified(h) => ~ Notified(NONSMP_HART)
      BY DEF Notified, BootHart, Parked
    <3> QED
      BY <3>1, ConstantFacts DEF HandOverInv, BitTellsAck
  <2> QED
    BY <2>1 DEF HandOverInv, BitTellsAck, Parked
<1> QED
  BY <1>1, HandOver, PTL

(* The assembly implements the abstract barrier: publishing is the call of *)
(* boot_next_stage, waking the clear of the own bit, leaving the jump.     *)
THEOREM Refinement == Spec => RefinesBarrier
<1> USE DEF SB!avars
<1>1. Init => SB!AInit
  BY ConstantFacts DEF Init, SB!AInit, PhaseOf, Parked
<1>2. TypeOK /\ HandOverInv /\ [Next]_vars => [SB!ANext]_(SB!avars)
  <2> SUFFICES ASSUME TypeOK, HandOverInv, [Next]_vars
               PROVE  [SB!ANext]_(SB!avars)
    OBVIOUS
  <2> USE ConstantFacts DEF TypeOK, Goto, PhaseOf, Parked
  <2>1. ASSUME NEW h \in Harts, SmpPause(h) PROVE UNCHANGED SB!avars
    BY <2>1 DEF SmpPause
  <2>2. ASSUME NEW h \in Harts, NEW a \in Addrs, CallNextStage(h, a)
        PROVE  SB!Publish(a)
    <3>1. h = NONSMP_HART
      BY <2>2 DEF CallNextStage, HandOverInv, OneBootHart
    <3>2. entry[h] = None
      BY <2>2, <3>1 DEF CallNextStage, HandOverInv, ScratchHoldsEntry, BootHart
    <3> QED
      BY <2>2, <3>1, <3>2 DEF CallNextStage, SB!Publish
  <2>3. ASSUME NEW h \in Harts, Exit(h) PROVE UNCHANGED SB!avars
    BY <2>3 DEF Exit
  <2>4. ASSUME NEW h \in Harts, StoreLow(h) PROVE UNCHANGED SB!avars
    BY <2>4 DEF StoreLow
  <2>5. ASSUME NEW h \in Harts, StoreHigh(h) PROVE UNCHANGED SB!avars
    BY <2>5 DEF StoreHigh
  <2>6. ASSUME NEW h \in Harts, Notify(h) PROVE UNCHANGED SB!avars
    BY <2>6 DEF Notify
  <2>7. ASSUME NEW h \in Harts, Wakeup(h) PROVE UNCHANGED SB!avars
    BY <2>7 DEF Wakeup
  <2>8. ASSUME NEW h \in Harts, ClearOwn(h) PROVE SB!Wake(h)
    <3>1. Notified(h)
      BY <2>8 DEF ClearOwn, HandOverInv, BitTellsAck
    <3>2. entry[NONSMP_HART] # None
      BY <3>1 DEF Notified, HandOverInv, ScratchHoldsEntry, BootHart, Left
    <3> QED
      BY <2>8, <3>2 DEF ClearOwn, SB!Wake
  <2>9. ASSUME NEW h \in Harts, Scan(h) PROVE UNCHANGED SB!avars
    BY <2>9 DEF Scan
  <2>10. ASSUME NEW h \in Harts, LoadHigh(h) PROVE UNCHANGED SB!avars
    BY <2>10 DEF LoadHigh
  <2>11. ASSUME NEW h \in Harts, LoadLowAndJump(h) PROVE SB!Leave(h)
    <3>1. \A g \in Harts : pc[g] \notin Parked
      BY <2>11 DEF LoadLowAndJump, HandOverInv, Barrier, Left
    <3>2. <<scratch4, t1[h]>> = entry[NONSMP_HART]
      <4>1. /\ entry[NONSMP_HART] \in Addrs
            /\ scratch4 = entry[NONSMP_HART][1]
        BY <3>1 DEF HandOverInv, ScratchHoldsEntry, BootHart
      <4>2. t1[h] = entry[NONSMP_HART][2]
        BY <2>11 DEF LoadLowAndJump, HandOverInv, ScratchHoldsEntry
      <4> QED
        BY <4>1, <4>2 DEF Addrs
    <3> QED
      BY <2>11, <3>1, <3>2 DEF LoadLowAndJump, SB!Leave
  <2>12. ASSUME NEW h \in Harts, NextStageReturns(h) PROVE UNCHANGED SB!avars
    BY <2>12 DEF NextStageReturns
  <2>13. ASSUME NEW h \in Harts, NEW g \in Harts, NextStageIpi(h, g)
         PROVE  UNCHANGED SB!avars
    BY <2>13 DEF NextStageIpi
  <2>14. CASE UNCHANGED vars
    BY <2>14 DEF vars
  <2> QED
    BY <2>1, <2>2, <2>3, <2>4, <2>5, <2>6, <2>7, <2>8, <2>9, <2>10, <2>11,
       <2>12, <2>13, <2>14 DEF Next, Quiet, Rom, SB!ANext
<1> QED
  BY <1>1, <1>2, Typing, HandOver, PTL DEF Spec, RefinesBarrier, SB!ASpec
=============================================================================
