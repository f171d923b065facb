------------------------------ MODULE SmpBoot ------------------------------
(***************************************************************************)
(* The multi-hart hand-over of the boot ROM: smp_pause and smp_resume of   *)
(* sw/include/smp.h, as boot_next_stage of hw/bootrom/cheshire_bootrom.S   *)
(* uses them.  One action is one load or store to the CLINT or to the SoC  *)
(* registers, the only state the harts share; register arithmetic between  *)
(* two of them belongs to the action that uses its result.                 *)
(*                                                                         *)
(* A 64-bit entry point crosses the two 32-bit scratch registers 4 and 5,  *)
(* so it is a pair <<low, high>> of members of Words.                      *)
(***************************************************************************)
EXTENDS Integers

CONSTANTS NUM_INT_HARTS,   \* regs.NUM_INT_HARTS, the number of CVA6 cores
          NONSMP_HART,     \* the hart that runs the boot code alone
          Words,           \* 32-bit halves of entry points
          None             \* not a word and not a pair of words

(* NONSMP_HART is 0 unless a build overrides it, and the wake-up order of  *)
(* smp_resume (ascending from msip[0]) is a barrier only in that case.     *)
ASSUME NumHartsAssumption == NUM_INT_HARTS \in Nat \ {0}
ASSUME NonSmpHartAssumption == NONSMP_HART = 0
ASSUME NoneAssumption == None \notin Words \cup (Words \X Words)

Harts == 0 .. NUM_INT_HARTS - 1
Addrs == Words \X Words

VARIABLES pc,        \* per hart: the labelled point of the ROM it has reached
          msip,      \* per hart: its CLINT software-interrupt pending bit
          cursor,    \* per hart: the CLINT word reg1 points at in a loop
          entry,     \* per hart: a0 on entry to boot_next_stage, or None
          scratch4,  \* SoC scratch register 4: low word of the entry point
          scratch5,  \* SoC scratch register 5: high word
          t1,        \* per hart: register t1, the high word once loaded
          jumped     \* per hart: the address it jumped to, or None

vars == <<pc, msip, cursor, entry, scratch4, scratch5, t1, jumped>>

Locs == {"reset", "boot", "exit", "sw_low", "sw_high", "notify", "wfi",
         "clear", "scan", "lw_high", "lw_low", "next_stage", "stuck"}

Init == /\ pc = [h \in Harts |-> "reset"]
        /\ msip = [h \in Harts |-> 0]
        /\ cursor = [h \in Harts |-> 0]
        /\ entry = [h \in Harts |-> None]
        /\ scratch4 = None
        /\ scratch5 = None
        /\ t1 = [h \in Harts |-> None]
        /\ jumped = [h \in Harts |-> None]

Goto(h, l) == pc' = [pc EXCEPT ![h] = l]

---------------------------------------------------------------------------
(* Faults: wrong variants of the steps below, none of them part of Next.   *)

(* The high word is stored without the shift.                              *)
StoreHighUnshifted(h) ==
  /\ pc[h] = "sw_high"
  /\ scratch5' = entry[h][1]
  /\ cursor' = [cursor EXCEPT ![h] = 0]
  /\ Goto(h, "notify")
  /\ UNCHANGED <<msip, entry, scratch4, t1, jumped>>

(* The hart index is not added to the CLINT base: msip[0] is cleared.      *)
ClearFirst(h) ==
  /\ pc[h] = "clear"
  /\ msip' = [msip EXCEPT ![0] = 0]
  /\ cursor' = [cursor EXCEPT ![h] = 0]
  /\ Goto(h, "scan")
  /\ UNCHANGED <<entry, scratch4, scratch5, t1, jumped>>

(* The scan skips the words it does not find cleared.                      *)
ScanNoSpin(h) ==
  /\ pc[h] = "scan"
  /\ cursor' = [cursor EXCEPT ![h] = @ + 1]
  /\ IF cursor[h] + 1 < NUM_INT_HARTS THEN UNCHANGED pc ELSE Goto(h, "lw_high")
  /\ UNCHANGED <<msip, entry, scratch4, scratch5, t1, jumped>>

(* ble instead of blt: the scan runs one word past the last hart.          *)
ScanOnePast(h) ==
  /\ pc[h] = "scan"
  /\ msip[cursor[h]] = 0
  /\ cursor' = [cursor EXCEPT ![h] = @ + 1]
  /\ IF cursor[h] + 1 <= NUM_INT_HARTS THEN UNCHANGED pc ELSE Goto(h, "lw_high")
  /\ UNCHANGED <<msip, entry, scratch4, scratch5, t1, jumped>>

(* The scan stops one hart early.                                          *)
ScanOneShort(h) ==
  /\ pc[h] = "scan"
  /\ msip[cursor[h]] = 0
  /\ cursor' = [cursor EXCEPT ![h] = @ + 1]
  /\ IF cursor[h] + 2 < NUM_INT_HARTS THEN UNCHANGED pc ELSE Goto(h, "lw_high")
  /\ UNCHANGED <<msip, entry, scratch4, scratch5, t1, jumped>>

---------------------------------------------------------------------------
(* smp_pause: enable the software interrupt, then every hart but the boot  *)
(* hart branches into the wfi loop of smp_resume (label 2).                *)
SmpPause(h) ==
  /\ pc[h] = "reset"
  /\ Goto(h, IF h = NONSMP_HART THEN "boot" ELSE "wfi")
  /\ UNCHANGED <<msip, cursor, entry, scratch4, scratch5, t1, jumped>>

(* The boot code finds an entry point and calls boot_next_stage(a).        *)
CallNextStage(h, a) ==
  /\ pc[h] = "boot"
  /\ entry' = [entry EXCEPT ![h] = a]
  /\ Goto(h, "sw_low")
  /\ UNCHANGED <<msip, cursor, scratch4, scratch5, t1, jumped>>

(* main returns without a next stage: _exit parks the boot hart for good.  *)
Exit(h) ==
  /\ pc[h] = "boot"
  /\ Goto(h, "exit")
  /\ UNCHANGED <<msip, cursor, entry, scratch4, scratch5, t1, jumped>>

(* sw a0, 16(t0) *)
StoreLow(h) ==
  /\ pc[h] = "sw_low"
  /\ scratch4' = entry[h][1]
  /\ Goto(h, "sw_high")
  /\ UNCHANGED <<msip, cursor, entry, scratch5, t1, jumped>>

(* srli a0, a0, 32; sw a0, 20(t0); fence; smp_resume: la reg1, __base_clint *)
StoreHigh(h) ==
  /\ pc[h] = "sw_high"
  /\ scratch5' = entry[h][2]
  /\ cursor' = [cursor EXCEPT ![h] = 0]
  /\ Goto(h, "notify")
  /\ UNCHANGED <<msip, entry, scratch4, t1, jumped>>

(* Label 1: raise msip of the hart under the cursor and advance.           *)
Notify(h) ==
  /\ pc[h] = "notify"
  /\ msip' = [msip EXCEPT ![cursor[h]] = 1]
  /\ cursor' = [cursor EXCEPT ![h] = @ + 1]
  /\ IF cursor[h] + 1 < NUM_INT_HARTS THEN UNCHANGED pc ELSE Goto(h, "wfi")
  /\ UNCHANGED <<entry, scratch4, scratch5, t1, jumped>>

(* Label 2: wfi, then read mip; fall through only when mip.MSIP is set.    *)
Wakeup(h) ==
  /\ pc[h] = "wfi"
  /\ msip[h] = 1
  /\ Goto(h, "clear")
  /\ UNCHANGED <<msip, cursor, entry, scratch4, scratch5, t1, jumped>>

(* sw zero to the own msip word; reg1 is back at the CLINT base.           *)
ClearOwn(h) ==
  /\ pc[h] = "clear"
  /\ msip' = [msip EXCEPT ![h] = 0]
  /\ cursor' = [cursor EXCEPT ![h] = 0]
  /\ Goto(h, "scan")
  /\ UNCHANGED <<entry, scratch4, scratch5, t1, jumped>>

(* Label 3: spin on the word under the cursor until it reads zero.         *)
Scan(h) ==
  /\ pc[h] = "scan"
  /\ msip[cursor[h]] = 0
  /\ cursor' = [cursor EXCEPT ![h] = @ + 1]
  /\ IF cursor[h] + 1 < NUM_INT_HARTS THEN UNCHANGED pc ELSE Goto(h, "lw_high")
  /\ UNCHANGED <<msip, entry, scratch4, scratch5, t1, jumped>>

(* lwu t1, 20(t0) *)
LoadHigh(h) ==
  /\ pc[h] = "lw_high"
  /\ t1' = [t1 EXCEPT ![h] = scratch5]
  /\ Goto(h, "lw_low")
  /\ UNCHANGED <<msip, cursor, entry, scratch4, scratch5, jumped>>

(* lwu t0, 16(t0); or t0, t0, t1; csrr a0, mhartid; jalr ra, 0(t0)         *)
LoadLowAndJump(h) ==
  /\ pc[h] = "lw_low"
  /\ jumped' = [jumped EXCEPT ![h] = <<scratch4, t1[h]>>]
  /\ Goto(h, "next_stage")
  /\ UNCHANGED <<msip, cursor, entry, scratch4, scratch5, t1>>

(* A next stage that returns lands on the ret after the jalr, which points *)
(* at itself: the hart never leaves it.                                    *)
NextStageReturns(h) ==
  /\ pc[h] = "next_stage"
  /\ Goto(h, "stuck")
  /\ UNCHANGED <<msip, cursor, entry, scratch4, scratch5, t1, jumped>>

(* The next stage, on a hart that already runs it, interrupts another hart.*)
NextStageIpi(h, g) ==
  /\ pc[h] = "next_stage"
  /\ msip[g] = 0
  /\ msip' = [msip EXCEPT ![g] = 1]
  /\ UNCHANGED <<pc, cursor, entry, scratch4, scratch5, t1, jumped>>

Rom(h) == \/ SmpPause(h) \/ StoreLow(h) \/ StoreHigh(h) \/ Notify(h)
          \/ Wakeup(h) \/ ClearOwn(h) \/ Scan(h)
          \/ LoadHigh(h) \/ LoadLowAndJump(h)

Quiet == \E h \in Harts : \/ Rom(h) \/ Exit(h) \/ NextStageReturns(h)
                          \/ \E a \in Addrs : CallNextStage(h, a)

Next == Quiet \/ \E h, g \in Harts : NextStageIpi(h, g)

Spec == Init /\ [][Next]_vars

(* Every hart keeps fetching instructions while it is in the ROM.  Nothing *)
(* is promised about the boot code, which may wait for an input forever.   *)
LiveSpec == Spec /\ \A h \in Harts : WF_vars(Rom(h))

---------------------------------------------------------------------------
(* Types of the variables, and the bounds that keep the instance finite.    *)
TypeOK ==
  /\ pc \in [Harts -> Locs]
  /\ msip \in [Harts -> {0, 1}]
  /\ cursor \in [Harts -> 0 .. NUM_INT_HARTS]
  /\ \A h \in Harts : pc[h] \in {"notify", "scan"} => cursor[h] \in Harts
  /\ entry \in [Harts -> Addrs \cup {None}]
  /\ \A h \in Harts : pc[h] \in {"sw_low", "sw_high"} => entry[h] \in Addrs
  /\ scratch4 \in Words \cup {None}
  /\ scratch5 \in Words \cup {None}
  /\ t1 \in [Harts -> Words \cup {None}]
  /\ jumped \in [Harts -> (Words \cup {None}) \X (Words \cup {None}) \cup {None}]

(* Program points before and after a hart has answered its wake-up.        *)
Parked == {"reset", "boot", "exit", "sw_low", "sw_high", "notify", "wfi", "clear"}
Left == {"lw_high", "lw_low", "next_stage", "stuck"}

(* smp_resume is a barrier: a hart past the scan of label 3 knows that     *)
(* every hart has been woken and has acknowledged it (smp.h:31-49).        *)
Barrier == \A h, g \in Harts : pc[h] \in Left => pc[g] \notin Parked

(* Every hart jumps to the entry point the boot hart was called with, both *)
(* words of it, although they cross two registers (cheshire_bootrom.S:92). *)
EntryAgreement ==
  \A h \in Harts : jumped[h] # None => jumped[h] = entry[NONSMP_HART]

(* The wake-up of a parked hart is never lost: from the store of the boot  *)
(* hart to the hart's own clear its msip bit stays set, whatever the harts *)
(* that are ahead of it do (smp.h:28,40).                                  *)
NoLostWakeup ==
  \A h \in Harts : pc[h] = "wfi" /\ pc[NONSMP_HART] \notin Parked => msip[h] = 1

(* An interrupt of the next stage, already running on one hart, holds      *)
(* another one in the scan of label 3.                                     *)
HeldByIpi == /\ \E h \in Harts : jumped[h] # None
             /\ \E h \in Harts : pc[h] = "scan" /\ msip[cursor[h]] = 1

(* Once the boot hart calls boot_next_stage, every hart reaches the next   *)
(* stage: the loops of smp_resume end for all of them, unless a hart that  *)
(* is there raises a bit that another hart still waits for (smp.h:45-47).  *)
AllHartsJump ==
  pc[NONSMP_HART] = "sw_low" ~> HeldByIpi \/ \A h \in Harts : jumped[h] # None

---------------------------------------------------------------------------
(* The inductive invariant behind Barrier and EntryAgreement.              *)

BootHart == pc[NONSMP_HART]

(* The boot hart has executed the wake-up store for h.                     *)
Notified(h) == \/ BootHart = "notify" /\ h < cursor[NONSMP_HART]
               \/ BootHart \in {"wfi", "clear", "scan"} \cup Left

(* Only the boot hart runs the code before smp_resume.                     *)
OneBootHart ==
  \A h \in Harts \ {NONSMP_HART} :
    pc[h] \notin {"boot", "exit", "sw_low", "sw_high", "notify"}

(* Before its wake-up a hart is still parked and its bit is clear; from    *)
(* then until its own clear the bit is set.                                *)
BitTellsAck ==
  \A h \in Harts : IF Notified(h)
                    THEN pc[h] \in Parked => msip[h] = 1
                    ELSE msip[h] = 0 /\ pc[h] \in Parked \ {"clear"}

(* What a scanning hart has passed has acknowledged.                       *)
ScanPrefix ==
  \A h, g \in Harts : pc[h] = "scan" /\ g < cursor[h] => pc[g] \notin Parked

(* The two scratch registers hold the entry point once they are written,   *)
(* and a hart between its two loads holds the right high word.             *)
ScratchHoldsEntry ==
  LET e == entry[NONSMP_HART] IN
  /\ IF BootHart \in {"reset", "boot", "exit"} THEN e = None ELSE e \in Addrs
  /\ BootHart \notin {"reset", "boot", "exit", "sw_low"} => scratch4 = e[1]
  /\ BootHart \notin {"reset", "boot", "exit", "sw_low", "sw_high"} => scratch5 = e[2]
  /\ \A h \in Harts : pc[h] = "lw_low" => t1[h] = e[2]
  /\ \A h \in Harts : jumped[h] # None <=> pc[h] \in {"next_stage", "stuck"}

HandOverInv == /\ OneBootHart /\ BitTellsAck /\ ScanPrefix /\ Barrier
               /\ ScratchHoldsEntry /\ EntryAgreement

---------------------------------------------------------------------------
(* The barrier the ROM implements.                                         *)
PhaseOf(l) == IF l \in Parked THEN "parked"
              ELSE IF l \in {"next_stage", "stuck"} THEN "left" ELSE "woken"

SB == INSTANCE SmpBarrier
        WITH published <- entry[NONSMP_HART],
             phase <- [h \in Harts |-> PhaseOf(pc[h])],
             target <- jumped

(* The assembly implements the abstract barrier.                           *)
RefinesBarrier == SB!ASpec

===========================================================================
