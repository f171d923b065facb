------------------------------ MODULE BootRom ------------------------------
(***************************************************************************)
(* The boot hart in the boot ROM, from _start (cheshire_bootrom.S) through *)
(* main (cheshire_bootrom.c) to the program it launches and that program's *)
(* C runtime exit (crt0.S), together with the host that preloads over JTAG *)
(* or over the serial link (vip_cheshire_soc.sv).  They share the scratch  *)
(* registers and the configuration registers of the last-level cache.      *)
(*                                                                         *)
(* SmpBoot refines the step NextStage to all harts; UartDebug refines the  *)
(* steps of the debug server, GptLoader those of the autonomous modes.     *)
(***************************************************************************)
EXTENDS Integers

CONSTANTS Platforms,    \* the platforms to consider, records of
                        \*   llc      is there an LLC (HW_FEATURES.llc)?
                        \*   prom     is the PLATFORM_ROM register nonzero?
                        \*   mode     BOOT_MODE pins
                        \*   preload  what the host does in mode 0
          Words,        \* 32-bit halves of entry points
          SpmBase,      \* __base_spm, where the autonomous modes load to
          Sign,         \* weight of the sign bit of an int: 2^31
          CoreFreq,     \* what the calibration of the core clock returns
          None          \* no word

ASSUME PlatformAssumption ==
  Platforms \subseteq [llc : BOOLEAN, prom : BOOLEAN, mode : 0 .. 3,
                       preload : {"jtag", "slink", "uart"}]
(* A platform ROM launches what it chooses: nothing is preloaded over JTAG  *)
(* or the serial link besides (the test bench configures no platform ROM).  *)
ASSUME PromAssumption ==
  \A q \in Platforms : q.prom /\ q.mode = 0 => q.preload = "uart"
ASSUME CodesAssumption == {Sign, CoreFreq} \subseteq Nat \ {0}
ASSUME WordsAssumption == SpmBase \in Words \X Words /\ None \notin Words \cup Int

Entries == Words \X Words
RetCodes == -Sign .. Sign - 1  \* the values of an int

VARIABLES
  pc,        \* where the boot hart is
  halted,    \* the debug module holds the boot hart
  ra,        \* where a program launched now would return to
  bist,      \* the LLC self test is done
  spmLow,    \* LLC.CFG_SPM_LOW, bit 0
  spmHigh,   \* LLC.CFG_SPM_HIGH, bit 0
  spm,       \* the committed configuration is all scratchpad
  platform,  \* the platform, the same throughout
  scratch0, scratch1, scratch2,   \* SoC scratch registers
  high,      \* scratch[1] as boot_passive has loaded it
  entry,     \* the entry point handed to the next stage
  ret,       \* a0: what was last returned to the boot ROM
  rx,        \* the UART receiver: "empty", "ack" or "other"
  host,      \* where the host is
  goal,      \* the entry point of the program the host preloads
  reported,  \* the exit code the host has read, or None
  mainRun,   \* history: main has been entered
  outcome,   \* history: what the system first ended with, or None
  reentered  \* history: a program has returned into main

history == <<mainRun, outcome, reentered>>
romVars == <<pc, ra, spmLow, spmHigh, spm, high, entry, ret, history>>
scratches == <<scratch0, scratch1, scratch2>>
hostVars == <<halted, host, goal, reported>>
vars == <<romVars, scratches, hostVars, bist, platform, rx>>

(* The signals in scratch[2]: the computation has ended (bit 0), and the   *)
(* program preloaded shall be launched (bit 1).                            *)
EndSignal(word) == word % 2 = 1
LaunchSignal(word) == (word \div 2) % 2 = 1
LaunchValue == 2

(* The word that a return code is stored as: shifted left, with the signal *)
(* that the computation has ended in bit 0, and cut to 32 bits.            *)
Flagged(r) == (2 * r + 1) % (2 * Sign)

(* The test bench preloads in mode 0 and only waits for the end otherwise. *)
Init ==
  /\ pc = "start" /\ halted = FALSE /\ ra = "lost"
  /\ bist = FALSE /\ spmLow = 0 /\ spmHigh = 0 /\ spm = FALSE
  /\ platform \in Platforms
  /\ scratch0 = None /\ scratch1 = None /\ scratch2 = 0
  /\ high = None /\ entry = <<None, None>> /\ ret = 0 /\ rx = "empty"
  /\ host = IF platform.mode # 0 THEN "eoc"
             ELSE IF platform.preload = "uart" THEN "done" ELSE "wait_llc"
  /\ goal \in Entries
  /\ reported = None /\ mainRun = FALSE /\ outcome = None /\ reentered = FALSE

---------------------------------------------------------------------------
(* The boot hart.                                                          *)

At(l) == pc = l /\ ~ halted
Goto(l) == pc' = l
EndsWith(r) == outcome' = IF outcome = None THEN r ELSE outcome
(* What a step of the boot hart leaves alone besides its own variables.    *)
RomOnly == UNCHANGED <<hostVars, bist, platform>>

---------------------------------------------------------------------------
(* Faults: wrong variants of steps of the boot hart, none part of Next.    *)

(* The scratch register is only polled while no byte waits.                *)
PollUartFirst == /\ At("poll")
                 /\ Goto(IF rx = "empty" /\ LaunchSignal(scratch2) THEN "launch" ELSE "uart")
                 /\ UNCHANGED <<ra, spmLow, spmHigh, spm, high, entry, ret, history>>
                 /\ UNCHANGED <<scratches, rx>> /\ RomOnly

(* The high word is taken from the low register's load.                    *)
LaunchHighStale == /\ At("lw_high")
                   /\ high' = scratch0 /\ Goto("lw_low")
                   /\ UNCHANGED <<ra, spmLow, spmHigh, spm, entry, ret, history>>
                   /\ UNCHANGED <<scratches, rx>> /\ RomOnly

(* The ROM calls main again when a launched program returns.               *)
NextStageReenters == /\ At("next_stage")
                     /\ ra' = "main" /\ Goto("payload")
                     /\ UNCHANGED <<spmLow, spmHigh, spm, high, entry, ret, history>>
                     /\ UNCHANGED <<scratches, rx>> /\ RomOnly

(* The C runtime clobbers a0 on its way back to the caller.                *)
PayloadReturnsZero(r) == /\ At("payload")
                         /\ scratch2' = Flagged(r) /\ ret' = 0 /\ EndsWith(r)
                         /\ Goto(ra) /\ reentered' = (reentered \/ ra = "select")
                         /\ UNCHANGED <<ra, spmLow, spmHigh, spm, high, entry, mainRun>>
                         /\ UNCHANGED <<scratch0, scratch1, rx>> /\ RomOnly

(* The exit flag is or-ed in before the shift.                             *)
PayloadFlagShifted(r) == /\ At("payload")
                         /\ scratch2' = (2 * (2 * (r \div 2) + 1)) % (2 * Sign)
                         /\ ret' = r /\ EndsWith(r)
                         /\ Goto(ra) /\ reentered' = (reentered \/ ra = "select")
                         /\ UNCHANGED <<ra, spmLow, spmHigh, spm, high, entry, mainRun>>
                         /\ UNCHANGED <<scratch0, scratch1, rx>> /\ RomOnly

(* The exit code is stored without the shift.                              *)
PayloadUnshifted(r) == /\ At("payload")
                       /\ scratch2' = (2 * (r \div 2) + 1) % (2 * Sign)
                       /\ ret' = r /\ EndsWith(r)
                       /\ Goto(ra) /\ reentered' = (reentered \/ ra = "select")
                       /\ UNCHANGED <<ra, spmLow, spmHigh, spm, high, entry, mainRun>>
                       /\ UNCHANGED <<scratch0, scratch1, rx>> /\ RomOnly

---------------------------------------------------------------------------
(* Stack and global pointer get linked values; look for an LLC.            *)
Start == /\ At("start")
         /\ Goto(IF platform.llc THEN "bist" ELSE "prom")
         /\ UNCHANGED <<ra, spmLow, spmHigh, spm, high, entry, ret, history>>
         /\ UNCHANGED <<scratches, rx>> /\ RomOnly

(* _wait_llc_bist *)
WaitBist == /\ At("bist") /\ bist
            /\ Goto("spm_low")
            /\ UNCHANGED <<ra, spmLow, spmHigh, spm, high, entry, ret, history>>
            /\ UNCHANGED <<scratches, rx>> /\ RomOnly

SetSpmLow == /\ At("spm_low")
             /\ spmLow' = 1 /\ Goto("spm_high")
             /\ UNCHANGED <<ra, spmHigh, spm, high, entry, ret, history>>
             /\ UNCHANGED <<scratches, rx>> /\ RomOnly

SetSpmHigh == /\ At("spm_high")
              /\ spmHigh' = 1 /\ Goto("commit")
              /\ UNCHANGED <<ra, spmLow, spm, high, entry, ret, history>>
              /\ UNCHANGED <<scratches, rx>> /\ RomOnly

(* CFG_COMMIT takes the two configuration words over; the stack moves to   *)
(* the end of the SPM.                                                     *)
Commit == /\ At("commit")
          /\ spm' = (spmLow = 1 /\ spmHigh = 1) /\ Goto("prom")
          /\ UNCHANGED <<ra, spmLow, spmHigh, high, entry, ret, history>>
          /\ UNCHANGED <<scratches, rx>> /\ RomOnly

(* _prom_check_run *)
PromCheck == /\ At("prom")
             /\ Goto(IF platform.prom THEN "in_prom" ELSE "main")
             /\ UNCHANGED <<ra, spmLow, spmHigh, spm, high, entry, ret, history>>
             /\ UNCHANGED <<scratches, rx>> /\ RomOnly

(* The platform ROM returns with a in a0; the instruction after its jalr   *)
(* is boot_next_stage.                                                     *)
PromReturns(a) == /\ At("in_prom")
                  /\ entry' = a /\ Goto("next_stage")
                  /\ UNCHANGED <<ra, spmLow, spmHigh, spm, high, ret, history>>
                  /\ UNCHANGED <<scratches, rx>> /\ RomOnly

(* _boot: call main; the instruction after the call is _exit.              *)
Main == /\ At("main")
        /\ mainRun' = TRUE /\ ra' = "exit" /\ Goto("enter")
        /\ UNCHANGED <<spmLow, spmHigh, spm, high, entry, ret, outcome, reentered>>
        /\ UNCHANGED <<scratches, rx>> /\ RomOnly

(* main saves that address and calls clint_get_core_freq (module Clint).   *)
CallCalibration == /\ At("enter")
                   /\ ra' = "select" /\ Goto("calibrate")
                   /\ UNCHANGED <<spmLow, spmHigh, spm, high, entry, ret, history>>
                   /\ UNCHANGED <<scratches, rx>> /\ RomOnly

Calibrated == /\ At("calibrate")
              /\ ret' = CoreFreq /\ Goto("select")
              /\ UNCHANGED <<ra, spmLow, spmHigh, spm, high, entry, history>>
              /\ UNCHANGED <<scratches, rx>> /\ RomOnly

(* switch (bootmode): what comes back from the call is the core frequency. *)
SelectMode == /\ At("select")
              /\ Goto(IF platform.mode \in {1, 2, 3} THEN "media" ELSE "passive_init")
              /\ UNCHANGED <<ra, spmLow, spmHigh, spm, high, entry, ret, history>>
              /\ UNCHANGED <<scratches, rx>> /\ RomOnly

(* main has restored its return address for a tail call of boot_passive,   *)
(* which calls nothing until a byte arrives: in the poll loop ra is _exit. *)
(* uart_debug_init gives up on a frequency of zero; else the FIFO control  *)
(* write drops what was received before.                                   *)
PassiveInit == /\ At("passive_init")
               /\ rx' = (IF ret = 0 THEN rx ELSE "empty") /\ ra' = "exit" /\ Goto("poll")
               /\ UNCHANGED <<spmLow, spmHigh, spm, high, entry, ret, history>>
               /\ UNCHANGED scratches /\ RomOnly

(* while (!(scratch[2] & 2)) *)
PollScratch == /\ At("poll")
               /\ Goto(IF LaunchSignal(scratch2) THEN "launch" ELSE "uart")
               /\ UNCHANGED <<ra, spmLow, spmHigh, spm, high, entry, ret, history>>
               /\ UNCHANGED <<scratches, rx>> /\ RomOnly

(* uart_debug_check: a waiting byte is consumed, whatever it is.           *)
PollUart == /\ At("uart")
            /\ rx' = "empty"
            /\ Goto(IF rx = "ack" THEN "serve" ELSE "poll")
            /\ UNCHANGED <<ra, spmLow, spmHigh, spm, high, entry, ret, history>>
            /\ UNCHANGED scratches /\ RomOnly

(* scratch[2] = 0 *)
LaunchClear == /\ At("launch")
               /\ scratch2' = 0 /\ Goto("lw_high")
               /\ UNCHANGED <<ra, spmLow, spmHigh, spm, high, entry, ret, history>>
               /\ UNCHANGED <<scratch0, scratch1, rx>> /\ RomOnly

(* ((uint64_t)scratch[1] << 32) | scratch[0], loaded in this order.        *)
LaunchHigh == /\ At("lw_high")
              /\ high' = scratch1 /\ Goto("lw_low")
              /\ UNCHANGED <<ra, spmLow, spmHigh, spm, entry, ret, history>>
              /\ UNCHANGED <<scratches, rx>> /\ RomOnly

LaunchLow == /\ At("lw_low")
             /\ entry' = <<scratch0, high>> /\ Goto("next_stage")
             /\ UNCHANGED <<ra, spmLow, spmHigh, spm, high, ret, history>>
             /\ UNCHANGED <<scratches, rx>> /\ RomOnly

(* An autonomous mode loads a program to the SPM; the read function and    *)
(* its handle are left in scratch[0], scratch[1] (and scratch[3]).         *)
MediaLoads == /\ At("media")
              /\ \E f, d \in Words : scratch0' = f /\ scratch1' = d
              /\ entry' = SpmBase /\ Goto("next_stage")
              /\ UNCHANGED <<ra, spmLow, spmHigh, spm, high, ret, history>>
              /\ UNCHANGED <<scratch2, rx>> /\ RomOnly

(* ... or a CHECK_CALL makes main return an error code.                    *)
MediaFails(e) == /\ At("media") /\ e # 0
                 /\ ret' = e /\ EndsWith(e) /\ Goto("exit")
                 /\ UNCHANGED <<ra, spmLow, spmHigh, spm, high, entry, mainRun, reentered>>
                 /\ UNCHANGED <<scratches, rx>> /\ RomOnly

(* boot_next_stage, seen from the boot hart: ra is its own ret.            *)
NextStage == /\ At("next_stage")
             /\ ra' = "spin" /\ Goto("payload")
             /\ UNCHANGED <<spmLow, spmHigh, spm, high, entry, ret, history>>
             /\ UNCHANGED <<scratches, rx>> /\ RomOnly

(* EXEC of the debug server invokes the program as a function.             *)
ServeExec(a) == /\ At("serve")
                /\ entry' = a /\ ra' = "exit" /\ Goto("payload")
                /\ UNCHANGED <<spmLow, spmHigh, spm, high, ret, history>>
                /\ UNCHANGED <<scratches, rx>> /\ RomOnly

(* An unknown command ends the debug server, and with it main.             *)
ServeUnknown == /\ At("serve")
                /\ ret' = 1 /\ EndsWith(1) /\ Goto("exit")
                /\ UNCHANGED <<ra, spmLow, spmHigh, spm, high, entry, mainRun, reentered>>
                /\ UNCHANGED <<scratches, rx>> /\ RomOnly

(* The program's main returns r: _exit of crt0 stores it and returns to    *)
(* the caller, restoring the return pointer it saved at its start.  A      *)
(* program that a JTAG host started has no caller: it returns to where the *)
(* ROM would have, into main if that was in its call.                      *)
PayloadReturns(r) == /\ At("payload")
                     /\ scratch2' = Flagged(r) /\ ret' = r /\ EndsWith(r)
                     /\ Goto(ra) /\ reentered' = (reentered \/ ra = "select")
                     /\ UNCHANGED <<ra, spmLow, spmHigh, spm, high, entry, mainRun>>
                     /\ UNCHANGED <<scratch0, scratch1, rx>> /\ RomOnly

(* _exit of the boot ROM.                                                  *)
Exit == /\ At("exit")
        /\ scratch2' = Flagged(ret) /\ Goto("halt")
        /\ UNCHANGED <<ra, spmLow, spmHigh, spm, high, entry, ret, history>>
        /\ UNCHANGED <<scratch0, scratch1, rx>> /\ RomOnly

RomStep == \/ Start \/ WaitBist \/ SetSpmLow \/ SetSpmHigh \/ Commit
           \/ PromCheck \/ Main \/ CallCalibration \/ Calibrated \/ SelectMode
           \/ PassiveInit \/ PollScratch \/ PollUart \/ LaunchClear \/ LaunchHigh \/ LaunchLow \/ NextStage \/ Exit

---------------------------------------------------------------------------
(* The host and the surroundings.                                          *)

HostOnly == UNCHANGED <<bist, platform, rx, spmLow, spmHigh, spm, high, ret,
                        history>>

(* jtag_poll_bit0 / slink_poll_bit0 of CFG_SPM_LOW, if there is an LLC.    *)
HostWaitLlc == /\ host = "wait_llc"
               /\ platform.llc => spmLow = 1
               /\ host' = IF platform.preload = "jtag" THEN "halt_hart" ELSE "preload"
               /\ UNCHANGED <<halted, goal, reported, pc, ra, entry, scratches>>
               /\ HostOnly

(* haltreq, then poll dmstatus.allhalted. *)
JtagHalt == /\ host = "halt_hart"
            /\ halted' = TRUE /\ host' = "preload"
            /\ UNCHANGED <<goal, reported, pc, ra, entry, scratches>>
            /\ HostOnly

(* The sections of the program are written to memory.                      *)
HostPreload == /\ host = "preload"
               /\ host' = IF platform.preload = "jtag" THEN "resume" ELSE "write_high"
               /\ UNCHANGED <<halted, goal, reported, pc, ra, entry, scratches>>
               /\ HostOnly

(* dpc := entry point; resumereq.  The hart runs the program with the ra   *)
(* it was halted with.                                                     *)
JtagResume == /\ host = "resume"
              /\ halted' = FALSE /\ host' = "eoc"
              /\ pc' = "payload" /\ entry' = goal
              /\ UNCHANGED <<goal, reported, ra, scratches>>
              /\ HostOnly

(* The serial link stores the high word, the low word, then the signal.    *)
SlinkHigh == /\ host = "write_high"
             /\ scratch1' = goal[2] /\ host' = "write_low"
             /\ UNCHANGED <<halted, goal, reported, pc, ra, entry, scratch0, scratch2>>
             /\ HostOnly

SlinkLow == /\ host = "write_low"
            /\ scratch0' = goal[1] /\ host' = "signal"
            /\ UNCHANGED <<halted, goal, reported, pc, ra, entry, scratch1, scratch2>>
            /\ HostOnly

SlinkSignal == /\ host = "signal"
               /\ scratch2' = LaunchValue /\ host' = "eoc"
               /\ UNCHANGED <<halted, goal, reported, pc, ra, entry, scratch0, scratch1>>
               /\ HostOnly

(* Poll scratch[2][0], then read the exit code above it.                   *)
HostEoc == /\ host = "eoc" /\ EndSignal(scratch2)
           /\ reported' = scratch2 \div 2 /\ host' = "done"
           /\ UNCHANGED <<halted, goal, pc, ra, entry, scratches>>
           /\ HostOnly

HostStep == \/ HostWaitLlc \/ JtagHalt \/ HostPreload \/ JtagResume
            \/ SlinkHigh \/ SlinkLow \/ SlinkSignal \/ HostEoc

BistDone == /\ ~ bist /\ bist' = TRUE
            /\ UNCHANGED <<romVars, scratches, hostVars, platform, rx>>

(* A byte arrives on the UART; only a UART host sends ACK.                 *)
RxByte(b) == /\ rx = "empty"
             /\ (b = "ack") => (platform.preload = "uart")
             /\ rx' = b
             /\ UNCHANGED <<romVars, scratches, hostVars, bist, platform>>

Next == \/ RomStep \/ HostStep \/ BistDone
        \/ MediaLoads \/ \E e \in RetCodes : MediaFails(e)
        \/ \E a \in Entries : PromReturns(a) \/ ServeExec(a)
        \/ ServeUnknown
        \/ \E r \in RetCodes : PayloadReturns(r)
        \/ \E b \in {"ack", "other"} : RxByte(b)

Spec == Init /\ [][Next]_vars

(* The boot hart and the host keep running and the self test ends.  A      *)
(* program, a medium and a platform ROM may take forever.                  *)
Fairness == WF_vars(RomStep) /\ WF_vars(HostStep) /\ WF_vars(BistDone)
LiveSpec == Spec /\ Fairness
---------------------------------------------------------------------------
(* A program that returned into main with a code whose word looks like a   *)
(* launch signal, as that of every odd code does: the poll loop takes it   *)
(* for one and goes to the stale words of scratch[1:0] (run                *)
(* bootrom_doc_reentry).                                                   *)
Relaunch == reentered /\ LaunchSignal(Flagged(outcome))

(* A program entered through boot_next_stage is the right one: both words  *)
(* of the host's entry point in mode 0, although they come through two     *)
(* registers and a separate signal, the SPM otherwise.                     *)
RightEntry ==
  pc = "payload" /\ ra = "spin" /\ mainRun /\ ~ Relaunch
    => entry = IF platform.mode = 0 THEN goal ELSE SpmBase

(* The exit code a host reads is that of the program that ended, or the    *)
(* error code of the boot ROM, but for its sign bit.                       *)
ExitCodeIsOutcome == reported # None /\ ~ Relaunch => reported = outcome % Sign

(* Once the end of computation is flagged the word never changes again,    *)
(* although the program's and the ROM's _exit may both store it and a      *)
(* program may return into main, which polls the word.                     *)
ExitCodeStable == [][EndSignal(scratch2) /\ ~ Relaunch => scratch2' = scratch2]_vars

(* Once something has ended, the boot hart never enters a program again,   *)
(* not even when that returned into main, unless its code is a signal.     *)
NoReboot == [][outcome # None /\ ~ Relaunch => pc' # "payload"]_vars

(* "The boot ROM is not reentrant; when an invoked BMP returns, the system *)
(* will halt and not reboot." (docs/um/sw.md): of any program.             *)
NotReentrant == [][outcome # None => pc' # "payload"]_vars

(* A host that waits for the end of a program gets that entered, whatever  *)
(* it races with.                                                          *)
LaunchHonoured ==
  platform.mode = 0 /\ host = "eoc" /\ outcome = None
    ~> pc = "payload" /\ entry = goal

(* The end of a program or a boot error always reaches a host that polls,  *)
(* unless the poll loop of the ROM is first to take its word.              *)
EndReported == (outcome # None /\ host = "eoc") ~> (reported # None \/ Relaunch)

===========================================================================
