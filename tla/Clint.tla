------------------------------- MODULE Clint -------------------------------
(***************************************************************************)
(* The timer functions of clint.c against a clock that runs on between any *)
(* two of their steps.  The 64-bit mtime is read as two words, the high    *)
(* one first (the order of the shipped boot ROM; C leaves it open).        *)
(*                                                                         *)
(* One call is made, at any time: clint_spin_until, clint_spin_ticks,      *)
(* clint_get_core_freq or clint_sleep_until.                               *)
(***************************************************************************)
EXTENDS Integers

CONSTANTS CyclesPerTick,   \* core cycles in a tick of the real-time clock
          Words,           \* number of values of a word (2^32 in the code)
          MaxDelay,        \* most core cycles a step of the code takes
          Starts,          \* core cycles at which the call may be made
          Ticks,           \* arguments of the spins, relative to the call
          RefFreq,         \* ticks per second, as passed to clint_get_core_freq
          RefTimeInv,      \* inverse of its measurement period
          Horizon          \* bound on the core cycles explored

ASSUME ClockAssumption == {CyclesPerTick, Words, MaxDelay} \subseteq Nat \ {0}
ASSUME CallAssumption == Starts \subseteq Nat /\ Ticks \subseteq Nat
ASSUME PeriodAssumption ==
  RefFreq \in Nat /\ RefTimeInv \in Nat \ {0} /\ RefFreq \div RefTimeInv > 0

Calls == {"spin_until", "spin_ticks", "get_core_freq", "sleep_until"}

VARIABLES
  now,       \* core cycles, as mcycle counts them
  call,      \* the function called
  ticks,     \* its argument: ticks from the call
  called,    \* core cycles at the call
  pc,        \* next step, "ret" once the call has returned
  use,       \* where the function goes on with the mtime it reads
  half,      \* the word of mtime already read
  time,      \* the last mtime read
  tgt,       \* tgt_mtime
  start_mcycle, start_mtime, end_mcycle, end_mtime,    \* of clint_get_core_freq
  freq,      \* its result
  mtimecmp   \* the compare register of the timer

measured == <<start_mcycle, start_mtime, end_mcycle, end_mtime, freq>>
locals == <<tgt, measured, mtimecmp>>
vars == <<now, call, ticks, called, pc, use, half, time, locals>>

Mtime(cycles) == cycles \div CyclesPerTick
LowWord(t) == t % Words
HighWord(t) == t \div Words

(* Every call starts by reading mtime.                                     *)
Init == /\ now \in Starts /\ called = now
        /\ call \in Calls /\ use = call /\ ticks \in Ticks
        /\ pc = "mtime" /\ half = 0 /\ time = 0
        /\ tgt = Mtime(now) + ticks
        /\ start_mcycle = 0 /\ start_mtime = 0 /\ end_mcycle = 0 /\ end_mtime = 0
        /\ freq = 0 /\ mtimecmp = 0

(* Every step takes the core some cycles.                                  *)
Elapse == /\ now < Horizon
          /\ \E d \in 1 .. MaxDelay : now' = now + d
          /\ UNCHANGED <<call, ticks, called>>

GoTo(l) == pc' = l /\ UNCHANGED <<use, half, time>>
ReadMtimeFor(u) == pc' = "mtime" /\ use' = u /\ UNCHANGED <<half, time>>

---------------------------------------------------------------------------
(* clint_get_mtime, each word as it is when it is read.                    *)
GetHigh == /\ pc = "mtime" /\ Elapse
           /\ half' = HighWord(Mtime(now)) /\ pc' = "word"
           /\ UNCHANGED <<use, time, locals>>

GetLow == /\ pc = "word" /\ Elapse
          /\ time' = half * Words + LowWord(Mtime(now)) /\ pc' = use
          /\ UNCHANGED <<use, half, locals>>

(* Fault: the low word is read first.                                      *)
GetLowFirst ==
  \/ /\ pc = "mtime" /\ Elapse
     /\ half' = LowWord(Mtime(now)) /\ pc' = "word"
     /\ UNCHANGED <<use, time, locals>>
  \/ /\ pc = "word" /\ Elapse
     /\ time' = HighWord(Mtime(now)) * Words + half /\ pc' = use
     /\ UNCHANGED <<use, half, locals>>

GetMtime == GetHigh \/ GetLow

(* Fault: the target is passed over when it is not met exactly.            *)
SpinUntilEqual == /\ pc = "spin_until" /\ Elapse
                  /\ IF time # tgt THEN ReadMtimeFor("spin_until") ELSE GoTo("ret")
                  /\ UNCHANGED locals

(* Fault: the wait ends in the tick before the target.                     *)
SpinUntilEarly == /\ pc = "spin_until" /\ Elapse
                  /\ IF time + 1 < tgt THEN ReadMtimeFor("spin_until") ELSE GoTo("ret")
                  /\ UNCHANGED locals

SpinUntil == /\ pc = "spin_until" /\ Elapse
             /\ IF time < tgt THEN ReadMtimeFor("spin_until") ELSE GoTo("ret")
             /\ UNCHANGED locals

SpinTicks == /\ pc = "spin_ticks" /\ Elapse
             /\ tgt' = time + ticks
             /\ ReadMtimeFor("spin_until")
             /\ UNCHANGED <<measured, mtimecmp>>

---------------------------------------------------------------------------
(* clint_get_core_freq: the start of the measurement is the first rollover *)
(* of mtime seen, its end the first mtime at least num_ticks later.        *)
num_ticks == RefFreq \div RefTimeInv

GetCoreFreq == /\ pc = "get_core_freq" /\ Elapse
               /\ end_mtime' = time
               /\ GoTo("start")
               /\ UNCHANGED <<tgt, start_mcycle, start_mtime, end_mcycle, freq, mtimecmp>>

CaptureStart == /\ pc = "start" /\ Elapse
                /\ start_mcycle' = now
                /\ ReadMtimeFor("rollover")
                /\ UNCHANGED <<tgt, start_mtime, end_mcycle, end_mtime, freq, mtimecmp>>

(* Fault: the measurement starts in the middle of a tick.                  *)
RolloverNotAwaited ==
  /\ pc = "rollover" /\ Elapse
  /\ start_mtime' = time
  /\ GoTo("end")
  /\ UNCHANGED <<tgt, start_mcycle, end_mcycle, end_mtime, freq, mtimecmp>>

Rollover == /\ pc = "rollover" /\ Elapse
            /\ start_mtime' = time
            /\ GoTo(IF time = end_mtime THEN "start" ELSE "end")
            /\ UNCHANGED <<tgt, start_mcycle, end_mcycle, end_mtime, freq, mtimecmp>>

CaptureEnd == /\ pc = "end" /\ Elapse
              /\ end_mcycle' = now
              /\ ReadMtimeFor("measure")
              /\ UNCHANGED <<tgt, start_mcycle, start_mtime, end_mtime, freq, mtimecmp>>

Measure == /\ pc = "measure" /\ Elapse
           /\ end_mtime' = time
           /\ IF time < start_mtime + num_ticks
              THEN GoTo("end") /\ UNCHANGED freq
              ELSE /\ GoTo("ret")
                   /\ freq' = ((end_mcycle - start_mcycle) * RefFreq) \div (time - start_mtime)
           /\ UNCHANGED <<tgt, start_mcycle, start_mtime, end_mcycle, mtimecmp>>

---------------------------------------------------------------------------
(* clint_sleep_until: a target still to come returns at once; one already  *)
(* reached is set, high word first, and waited for.                        *)
SleepUntil == /\ pc = "sleep_until" /\ Elapse
              /\ IF time < tgt THEN GoTo("ret") /\ UNCHANGED mtimecmp
                 ELSE /\ GoTo("cmp_low")
                      /\ mtimecmp' = HighWord(tgt) * Words + LowWord(mtimecmp)
              /\ UNCHANGED <<tgt, measured>>

SetMtimecmpLow == /\ pc = "cmp_low" /\ Elapse
                  /\ mtimecmp' = HighWord(mtimecmp) * Words + LowWord(tgt)
                  /\ GoTo("wfi")
                  /\ UNCHANGED <<tgt, measured>>

Wfi == /\ pc = "wfi" /\ Elapse
       /\ GoTo(IF Mtime(now) >= mtimecmp THEN "ret" ELSE "wfi")
       /\ UNCHANGED locals

Next == \/ GetMtime \/ SpinUntil \/ SpinTicks
        \/ GetCoreFreq \/ CaptureStart \/ Rollover \/ CaptureEnd \/ Measure
        \/ SleepUntil \/ SetMtimecmpLow \/ Wfi

Spec == Init /\ [][Next]_vars /\ WF_vars(Next)
---------------------------------------------------------------------------
(* A torn read of mtime only ever lags behind: no function believes it to  *)
(* be later than it is.                                                    *)
NeverAhead == time <= Mtime(now)

NoRollover == HighWord(Mtime(called)) = HighWord(Mtime(now))

(* Waiting for a time never ends early, even if the low word of mtime      *)
(* rolls over meanwhile; waiting for a number of ticks takes at least as   *)
(* many, if it does not.                                                   *)
SpinsLongEnough ==
  /\ pc = "ret" /\ call = "spin_until" => Mtime(now) >= tgt
  /\ pc = "ret" /\ call = "spin_ticks" /\ NoRollover => Mtime(now) - Mtime(called) >= ticks

(* The frequency computed is that of the core up to the cycles one round   *)
(* of the measuring loop takes, wherever in a tick the measurement starts, *)
(* if the low word does not roll over.                                     *)
Abs(x) == IF x < 0 THEN -x ELSE x

FreqAccurate ==
  pc = "ret" /\ call = "get_core_freq" /\ NoRollover =>
    num_ticks * Abs(freq - CyclesPerTick * RefFreq) <= 4 * MaxDelay * RefFreq + num_ticks

(* Every call returns.                                                     *)
Returns == <>(pc = "ret")
===========================================================================
