--------------------------- MODULE BootRom_proofs ---------------------------
(***************************************************************************)
(* Proofs about the boot hart and its host, for any platforms, entry       *)
(* points and return codes.                                                *)
(*                                                                         *)
(* That the right program is entered and its exit code reported depends on *)
(* where the hart and the host are at the same time: while the host still  *)
(* preloads, the hart has not left the code before a launch (HostAhead);   *)
(* once it is past the launch, both words it was given are those of the    *)
(* host (WordsInPlace); and scratch[2] is nonzero only between the signal  *)
(* and its reset, or after the end (SignalInv).  A program that returned   *)
(* into main leaves the hart before a launch again, with the exit code in  *)
(* the word it polls: unless that code is a signal (Relaunch), the hart    *)
(* stays there (ReentryInv).                                               *)
(***************************************************************************)
EXTENDS BootRom, TLAPS

BeforeMain == {"start", "bist", "spm_low", "spm_high", "commit", "prom", "main"}
Polling == {"select", "passive_init", "poll", "uart"}
BeforeLaunch == BeforeMain \cup {"enter", "calibrate"} \cup Polling
Launching == {"launch", "lw_high", "lw_low"}
Ended == {"exit", "halt", "spin", "lost"}
Elsewhere == {"in_prom", "media", "serve", "next_stage", "payload"}

Jtag == platform.mode = 0 /\ platform.preload = "jtag"
Slink == platform.mode = 0 /\ platform.preload = "slink"

RomType ==
  /\ platform \in Platforms /\ goal \in Entries
  /\ pc \in BeforeLaunch \cup Launching \cup Ended \cup Elsewhere
  /\ ra \in {"lost", "exit", "select", "spin"}
  /\ scratch2 \in Nat /\ ret \in Int /\ outcome \in Int \cup {None}
  /\ mainRun \in BOOLEAN /\ halted \in BOOLEAN /\ reentered \in BOOLEAN

(* What brings the boot hart to where it is.                               *)
PathInv ==
  /\ pc = "in_prom" => platform.prom /\ ~ mainRun
  /\ pc \in BeforeMain => ~ mainRun
  /\ pc = "media" => platform.mode # 0
  /\ pc \in {"passive_init", "poll", "uart", "serve"} \cup Launching => platform.mode = 0
  /\ rx = "ack" \/ pc = "serve" => platform.preload = "uart"
  /\ ra = "spin" => pc \in Ended \cup {"payload"}
  /\ pc = "payload" /\ ra = "select" => Jtag

(* While a host is about to preload or to launch, the boot hart waits.     *)
HostAhead ==
  /\ host \in {"wait_llc", "preload", "halt_hart", "resume",
               "write_high", "write_low", "signal", "eoc", "done"}
  /\ host \in {"wait_llc", "preload"} => Jtag \/ Slink
  /\ host \in {"halt_hart", "resume"} \/ halted => Jtag
  /\ host \in {"write_high", "write_low", "signal"} => Slink
  /\ host \notin {"eoc", "done"} => pc \in BeforeLaunch /\ outcome = None
  /\ Jtag /\ ~ Relaunch => pc \in BeforeLaunch \cup {"payload"} \cup Ended
  /\ pc \in Launching /\ ~ Relaunch => Slink /\ host = "eoc"
  /\ halted => host \in {"preload", "resume"}

(* The signal register: zero, the signal to launch, or the exit code.      *)
SignalInv ==
  /\ outcome = None =>
       /\ pc \notin Ended
       /\ \/ scratch2 = 0
          \/ scratch2 = LaunchValue /\ Slink /\ host = "eoc" /\ pc \in BeforeLaunch \cup {"launch"}
  /\ outcome # None /\ ~ reentered =>
       /\ pc \in Ended /\ ret = outcome
       /\ scratch2 = Flagged(outcome) \/ (pc = "exit" /\ scratch2 = 0)
  /\ reported # None => outcome # None
  /\ reported # None /\ ~ Relaunch =>
       scratch2 = Flagged(outcome) /\ reported = outcome % Sign

(* After a return into main the hart polls the word of the exit code.      *)
ReentryInv ==
  /\ reentered => outcome # None /\ Jtag
  /\ reentered /\ ~ Relaunch => pc \in Polling /\ scratch2 = Flagged(outcome)

(* The words of the host's entry point on their way to the hart.           *)
WordsInPlace ==
  /\ Slink /\ host \in {"write_low", "signal", "eoc", "done"} => scratch1 = goal[2]
  /\ Slink /\ host \in {"signal", "eoc", "done"} => scratch0 = goal[1]
  /\ pc = "lw_low" /\ ~ Relaunch => high = goal[2]
  /\ pc = "next_stage" /\ mainRun /\ ~ Relaunch =>
       entry = IF platform.mode = 0 THEN goal ELSE SpmBase
  /\ RightEntry

BootInv == RomType /\ PathInv /\ HostAhead /\ SignalInv /\ ReentryInv /\ WordsInPlace
---------------------------------------------------------------------------
(* What the two signals are in the values the host and the hart store.     *)
LEMMA SignalFacts ==
  /\ ~ EndSignal(0) /\ ~ LaunchSignal(0)
  /\ ~ EndSignal(LaunchValue) /\ LaunchSignal(LaunchValue)
BY DEF EndSignal, LaunchSignal, LaunchValue

(* The word of a return code carries the end signal, and above it the code *)
(* but for its sign: in two's complement that is its remainder.            *)
LEMMA FlaggedFacts ==
  ASSUME NEW r \in Int
  PROVE  /\ Flagged(r) \in Nat /\ EndSignal(Flagged(r))
         /\ Flagged(r) \div 2 = r % Sign
<1> DEFINE m == r % Sign
           q == r \div Sign
<1>1. Sign \in Nat \ {0}
  BY CodesAssumption
<1>2. m \in 0 .. Sign - 1 /\ q \in Int /\ r = q * Sign + m
  BY <1>1
<1>3. 2 * r + 1 = q * (2 * Sign) + (2 * m + 1)
  BY <1>1, <1>2
<1>4. ASSUME NEW n \in Nat \ {0}, NEW a \in Int, NEW b \in 0 .. n - 1
      PROVE  (a * n + b) % n = b
  OBVIOUS
<1>5. 2 * m + 1 \in 0 .. 2 * Sign - 1 /\ 2 * Sign \in Nat \ {0}
  BY <1>1, <1>2
<1> HIDE DEF m, q
<1>6. (q * (2 * Sign) + (2 * m + 1)) % (2 * Sign) = 2 * m + 1
  BY <1>2, <1>4, <1>5
<1>7. Flagged(r) = 2 * m + 1
  BY <1>3, <1>6 DEF Flagged
<1>8. (2 * m + 1) % 2 = 1 /\ (2 * m + 1) \div 2 = m
  BY <1>1, <1>2
<1> QED
  BY <1>2, <1>5, <1>7, <1>8 DEF EndSignal, m

(* The inductive invariant: where the hart and the host can be together,   *)
(* and what the scratch registers then hold.                               *)
THEOREM BootState == Spec => []BootInv
<1> USE DEF BootInv
<1>1. Init => BootInv
  <2> SUFFICES ASSUME Init PROVE BootInv
    OBVIOUS
  <2> USE PlatformAssumption, WordsAssumption DEF Init, BeforeLaunch, BeforeMain, Polling,
          Ended
  <2>1. RomType
    <3>1. pc \in BeforeLaunch
      OBVIOUS
    <3>2. /\ platform \in Platforms /\ goal \in Entries /\ ra = "lost"
          /\ scratch2 \in Nat /\ ret \in Int /\ outcome = None
          /\ mainRun = FALSE /\ halted = FALSE /\ reentered = FALSE
      OBVIOUS
    <3> QED
      BY <3>1, <3>2 DEF RomType
  <2>2. PathInv
    BY DEF PathInv, Launching
  <2>3. HostAhead
    BY DEF HostAhead, Relaunch, Jtag, Slink, Launching
  <2>4. SignalInv
    BY DEF SignalInv
  <2>5. ReentryInv
    BY DEF ReentryInv
  <2>6. WordsInPlace
    BY DEF WordsInPlace, RightEntry, Relaunch, Jtag, Slink
  <2> QED
    BY <2>1, <2>2, <2>3, <2>4, <2>5, <2>6
<1>2. BootInv /\ [Next]_vars => BootInv'
  <2> SUFFICES ASSUME BootInv, [Next]_vars PROVE BootInv'
    OBVIOUS
  <2> USE PlatformAssumption, WordsAssumption DEF RomType, PathInv, HostAhead, SignalInv,
          ReentryInv, WordsInPlace, RightEntry, BeforeLaunch, BeforeMain, Polling, Launching,
          Ended, Elsewhere, Jtag, Slink, Relaunch, At, Goto, RomOnly, HostOnly, EndsWith,
          scratches, hostVars, romVars, history
  <2>1. CASE Start
    BY <2>1 DEF Start
  <2>2. CASE WaitBist
    BY <2>2 DEF WaitBist
  <2>3. CASE SetSpmLow
    BY <2>3 DEF SetSpmLow
  <2>4. CASE SetSpmHigh
    BY <2>4 DEF SetSpmHigh
  <2>5. CASE Commit
    BY <2>5 DEF Commit
  <2>6. CASE PromCheck
    BY <2>6, PromAssumption DEF PromCheck
  <2>7. CASE Main
    BY <2>7 DEF Main
  <2>8. CASE CallCalibration
    BY <2>8 DEF CallCalibration
  <2>9. CASE Calibrated
    BY <2>9, CodesAssumption DEF Calibrated
  <2>10. CASE SelectMode
    BY <2>10 DEF SelectMode
  <2>11. CASE PassiveInit
    BY <2>11 DEF PassiveInit
  <2>12. CASE PollScratch
    BY <2>12, SignalFacts DEF PollScratch
  <2>13. CASE PollUart
    BY <2>13 DEF PollUart
  <2>14. CASE LaunchClear
    BY <2>14 DEF LaunchClear
  <2>15. CASE LaunchHigh
    BY <2>15 DEF LaunchHigh
  <2>16. CASE LaunchLow
    BY <2>16 DEF LaunchLow, Entries
  <2>17. CASE NextStage
    BY <2>17 DEF NextStage
  <2>18. CASE Exit
    BY <2>18, FlaggedFacts DEF Exit
  <2>19. CASE RomStep
    BY <2>1, <2>2, <2>3, <2>4, <2>5, <2>6, <2>7, <2>8, <2>9, <2>10, <2>11, <2>12,
       <2>13, <2>14, <2>15, <2>16, <2>17, <2>18, <2>19 DEF RomStep
  <2>20. CASE HostWaitLlc
    BY <2>20 DEF HostWaitLlc
  <2>21. CASE JtagHalt
    BY <2>21 DEF JtagHalt
  <2>22. CASE HostPreload
    BY <2>22 DEF HostPreload
  <2>23. CASE JtagResume
    BY <2>23 DEF JtagResume
  <2>24. CASE SlinkHigh
    BY <2>24 DEF SlinkHigh
  <2>25. CASE SlinkLow
    BY <2>25 DEF SlinkLow
  <2>26. CASE SlinkSignal
    BY <2>26 DEF SlinkSignal, LaunchValue
  <2>27. CASE HostEoc
    BY <2>27, SignalFacts, FlaggedFacts DEF HostEoc
  <2>28. CASE HostStep
    BY <2>20, <2>21, <2>22, <2>23, <2>24, <2>25, <2>26, <2>27, <2>28 DEF HostStep
  <2>29. CASE BistDone
    BY <2>29 DEF BistDone
  <2>30. CASE MediaLoads
    BY <2>30 DEF MediaLoads
  <2>31. ASSUME NEW e \in RetCodes, MediaFails(e) PROVE BootInv'
    BY <2>31, CodesAssumption DEF MediaFails, RetCodes
  <2>32. ASSUME NEW a \in Entries, PromReturns(a) PROVE BootInv'
    BY <2>32 DEF PromReturns
  <2>33. ASSUME NEW a \in Entries, ServeExec(a) PROVE BootInv'
    BY <2>33 DEF ServeExec
  <2>34. CASE ServeUnknown
    BY <2>34 DEF ServeUnknown
  <2>35. ASSUME NEW r \in RetCodes, PayloadReturns(r) PROVE BootInv'
    <3>1. r \in Int
      BY CodesAssumption DEF RetCodes
    <3> QED
      BY <2>35, <3>1, FlaggedFacts DEF PayloadReturns
  <2>36. ASSUME NEW b \in {"ack", "other"}, RxByte(b) PROVE BootInv'
    BY <2>36 DEF RxByte
  <2>37. CASE UNCHANGED vars
    BY <2>37 DEF vars
  <2> QED
    BY <2>19, <2>28, <2>29, <2>30, <2>31, <2>32, <2>33, <2>34, <2>35, <2>36, <2>37 DEF Next
<1> QED
  BY <1>1, <1>2, PTL DEF Spec
---------------------------------------------------------------------------
(* A program entered through boot_next_stage is the one the host asked     *)
(* for, or the one loaded from the medium.                                 *)
THEOREM EntryIsRight == Spec => []RightEntry
<1>1. BootInv => RightEntry
  BY DEF BootInv, WordsInPlace
<1> QED
  BY <1>1, BootState, PTL

(* The exit code a host has read is what the system ended with, for every  *)
(* int but without its sign bit.                                           *)
THEOREM ExitCodeIsRight == Spec => []ExitCodeIsOutcome
<1>1. BootInv => ExitCodeIsOutcome
  BY DEF BootInv, SignalInv, ExitCodeIsOutcome
<1> QED
  BY <1>1, BootState, PTL

(* After the end, short of a relaunch, the word is that of the outcome and *)
(* the hart neither preloads nor launches nor serves.                      *)
LEMMA AfterTheEnd ==
  ASSUME BootInv, outcome # None, ~ Relaunch
  PROVE  /\ pc \in Ended \/ (reentered /\ pc \in Polling)
         /\ EndSignal(scratch2) => scratch2 = Flagged(outcome)
         /\ pc \in Ended => ret = outcome
         /\ pc \in Polling => ~ LaunchSignal(scratch2)
         /\ pc = "uart" => rx # "ack"
         /\ platform.mode = 0 \/ pc # "select"
         /\ host \in {"eoc", "done"}
<1>1. pc \in Ended \/ (reentered /\ pc \in Polling)
  BY DEF BootInv, SignalInv, ReentryInv
<1>2. EndSignal(scratch2) => scratch2 = Flagged(outcome)
  BY SignalFacts DEF BootInv, SignalInv, ReentryInv
<1>3. reentered => Jtag /\ ~ LaunchSignal(scratch2)
  BY DEF BootInv, ReentryInv, Relaunch
<1> QED
  BY <1>1, <1>2, <1>3 DEF BootInv, PathInv, HostAhead, SignalInv, ReentryInv, Jtag, Ended,
     Polling, BeforeLaunch, BeforeMain

(* The second store of an exit code, by the _exit of the ROM after that of *)
(* the program, stores the same word; nothing else stores after the end.   *)
THEOREM ExitCodeStaysPut == Spec => ExitCodeStable
<1>1. BootInv /\ [Next]_vars => [EndSignal(scratch2) /\ ~ Relaunch => scratch2' = scratch2]_vars
  <2> SUFFICES ASSUME BootInv, Next, EndSignal(scratch2), ~ Relaunch
               PROVE  scratch2' = scratch2
    BY DEF vars, scratches
  <2>1. outcome # None
    BY SignalFacts DEF BootInv, SignalInv
  <2>2. /\ pc \in Ended \cup Polling /\ scratch2 = Flagged(outcome)
        /\ pc \in Ended => ret = outcome
        /\ host \in {"eoc", "done"}
    BY <2>1, AfterTheEnd
  <2>3. CASE RomStep
    BY <2>2, <2>3 DEF Ended, Polling, At, scratches, RomStep, Start, WaitBist, SetSpmLow,
       SetSpmHigh, Commit, PromCheck, Main, CallCalibration, Calibrated, SelectMode,
       PassiveInit, PollScratch, PollUart, LaunchClear, LaunchHigh, LaunchLow, NextStage, Exit
  <2>4. CASE HostStep
    BY <2>2, <2>4 DEF scratches, HostStep, HostWaitLlc, JtagHalt, HostPreload,
       JtagResume, SlinkHigh, SlinkLow, SlinkSignal, HostEoc
  <2> QED
    BY <2>2, <2>3, <2>4 DEF Next, Ended, Polling, At, scratches, BistDone, MediaLoads,
       MediaFails, PromReturns, ServeExec, ServeUnknown, PayloadReturns, RxByte
<1> QED
  BY <1>1, BootState, PTL DEF Spec, ExitCodeStable

(* After an end the boot hart enters no program: it halts, or, back in     *)
(* main, polls a word that is no signal, and no host resumes it.           *)
THEOREM NoSecondBoot == Spec => NoReboot
<1>1. BootInv /\ [Next]_vars => [outcome # None /\ ~ Relaunch => pc' # "payload"]_vars
  <2> SUFFICES ASSUME BootInv, Next, outcome # None, ~ Relaunch PROVE pc' # "payload"
    BY AfterTheEnd DEF vars, romVars, Ended, Polling
  <2>1. pc \in Ended \cup Polling /\ host \in {"eoc", "done"}
    BY AfterTheEnd
  <2>2. CASE RomStep
    BY <2>1, <2>2 DEF Ended, Polling, At, Goto, RomStep, Start, WaitBist, SetSpmLow,
       SetSpmHigh, Commit, PromCheck, Main, CallCalibration, Calibrated, SelectMode,
       PassiveInit, PollScratch, PollUart, LaunchClear, LaunchHigh, LaunchLow, NextStage, Exit
  <2>3. CASE HostStep
    BY <2>1, <2>3 DEF Ended, Polling, HostStep, HostWaitLlc, JtagHalt, HostPreload,
       JtagResume, SlinkHigh, SlinkLow, SlinkSignal, HostEoc
  <2> QED
    BY <2>1, <2>2, <2>3 DEF Next, Ended, Polling, At, romVars, BistDone, MediaLoads,
       MediaFails, PromReturns, ServeExec, ServeUnknown, PayloadReturns, RxByte
<1> QED
  BY <1>1, BootState, PTL DEF Spec, NoReboot
===========================================================================
