---------------------------- MODULE Clint_proofs ----------------------------
(***************************************************************************)
(* Proofs about the timer functions, for any clock, word size, reference   *)
(* frequency and delays, and without a bound on the time explored.         *)
(*                                                                         *)
(* A time read with the words torn apart lags behind, and is exact if the  *)
(* high word has not changed since the call (ReadInv).  The accuracy of    *)
(* the frequency is a matter of how far the two captured cycle counts are  *)
(* from the first cycles of the two ticks they are taken for: FreqInv has  *)
(* the distances at every step of the measurement.                         *)
(***************************************************************************)
EXTENDS Clint, TLAPS

(* The places of each function.                                            *)
PlacesOf(c) ==
  CASE c = "spin_until" -> {"spin_until"}
    [] c = "spin_ticks" -> {"spin_ticks", "spin_until"}
    [] c = "get_core_freq" -> {"get_core_freq", "start", "rollover", "end", "measure"}
    [] c = "sleep_until" -> {"sleep_until", "cmp_low", "wfi"}

ClintType ==
  /\ {now, called, ticks, half, time, tgt} \subseteq Nat
  /\ {start_mcycle, start_mtime, end_mcycle, end_mtime} \subseteq Nat /\ freq \in Int
  /\ called <= now
  /\ call \in Calls /\ use \in PlacesOf(call) \ {"start", "end"}
  /\ pc \in {"mtime", "word", "ret"} \cup PlacesOf(call)
  /\ pc \in {"spin_until", "spin_ticks", "rollover", "measure"} => use = pc

(* What has been read of mtime lags behind, or is exact.                   *)
ReadInv ==
  /\ NeverAhead
  /\ pc = "word" => half <= HighWord(Mtime(now))
  /\ pc = "word" /\ NoRollover => half = HighWord(Mtime(now))

SpinInv ==
  /\ pc = "spin_ticks" /\ NoRollover => Mtime(called) <= time
  /\ call = "spin_ticks" /\ use = "spin_until" /\ NoRollover =>
       Mtime(called) + ticks <= tgt
  /\ SpinsLongEnough

FirstCycle(t) == t * CyclesPerTick

(* The start of the measurement and the rollover it is taken for.          *)
StartIsClose == /\ start_mcycle < FirstCycle(start_mtime) + 2 * MaxDelay
                /\ FirstCycle(start_mtime) <= start_mcycle + 2 * MaxDelay

(* From place to place of clint_get_core_freq.                             *)
FreqInv ==
  NoRollover =>
    /\ pc = "get_core_freq" => now < FirstCycle(time + 1) + MaxDelay
    /\ pc = "start" => /\ now < FirstCycle(end_mtime + 1) + 2 * MaxDelay
                       /\ end_mtime <= Mtime(now)
    /\ use = "rollover" /\ pc \in {"mtime", "word", "rollover"} =>
         /\ start_mcycle < FirstCycle(end_mtime + 1) + 2 * MaxDelay
         /\ pc = "mtime" => now <= start_mcycle + MaxDelay /\ end_mtime <= Mtime(now)
         /\ pc = "word" => now <= start_mcycle + 2 * MaxDelay /\ end_mtime <= Mtime(now)
         /\ pc = "rollover" => /\ FirstCycle(time) <= start_mcycle + 2 * MaxDelay
                               /\ now < FirstCycle(time + 1) + MaxDelay
                               /\ end_mtime <= time
    /\ pc = "end" => /\ StartIsClose
                     /\ now < FirstCycle(start_mtime + num_ticks) + 2 * MaxDelay
    /\ use = "measure" /\ pc \in {"mtime", "word", "measure"} =>
         /\ StartIsClose
         /\ end_mcycle < FirstCycle(start_mtime + num_ticks) + 2 * MaxDelay
         /\ pc = "mtime" => now <= end_mcycle + MaxDelay
         /\ pc = "word" => now <= end_mcycle + 2 * MaxDelay
         /\ pc = "measure" => /\ FirstCycle(time) <= end_mcycle + 2 * MaxDelay
                              /\ now < FirstCycle(time + 1) + MaxDelay
    /\ FreqAccurate

ClintInv == ClintType /\ ReadInv /\ SpinInv /\ FreqInv
---------------------------------------------------------------------------
(* A division and its rest.                                                *)
LEMMA DivMod ==
  ASSUME NEW a \in Nat, NEW n \in Nat \ {0}
  PROVE  a \div n \in Nat /\ a % n \in 0 .. n - 1 /\ a = (a \div n) * n + (a % n)
OBVIOUS

(* Multiplication by a natural number keeps the order.                     *)
LEMMA Times ==
  ASSUME NEW x \in Int, NEW y \in Int, NEW n \in Nat, x <= y
  PROVE  x * n <= y * n
OBVIOUS

(* One more tick is CyclesPerTick more cycles: the product with a          *)
(* successor.                                                              *)
LEMMA OneMore ==
  ASSUME NEW x \in Int, NEW n \in Int
  PROVE  x * n \in Int /\ (x + 1) * n = x * n + n
OBVIOUS

(* The product of a difference.                                            *)
LEMMA Distribute ==
  ASSUME NEW x \in Int, NEW y \in Int, NEW n \in Int
  PROVE  (x - y) * n = x * n - y * n
OBVIOUS

(* What is left of a division is less than the divisor, for negative       *)
(* dividends too.                                                          *)
LEMMA DivInt ==
  ASSUME NEW a \in Int, NEW n \in Nat \ {0}
  PROVE  a \div n \in Int /\ (a \div n) * n <= a /\ a < (a \div n) * n + n
OBVIOUS

(* A positive factor can be taken away from both sides.                    *)
LEMMA Cancel ==
  ASSUME NEW x \in Int, NEW y \in Int, NEW n \in Nat \ {0}, x * n < y * n
  PROVE  x < y
OBVIOUS

(* Division keeps the order: the tick of a later cycle, or the high word   *)
(* of a later time, is not earlier.                                        *)
LEMMA DivMonotone ==
  ASSUME NEW a \in Nat, NEW b \in Nat, NEW n \in Nat \ {0}, a <= b
  PROVE  a \div n <= b \div n
<1> DEFINE p == a \div n
           q == b \div n
<1>1. p \in Nat /\ q \in Nat /\ p * n <= a /\ b < (q + 1) * n
  BY DivMod, OneMore
<1> HIDE DEF p, q
<1>2. p < q + 1
  BY <1>1, Cancel, OneMore
<1> QED
  BY <1>1, <1>2 DEF p, q
---------------------------------------------------------------------------
(* The clock's parameters are positive.                                    *)
LEMMA Positive ==
  CyclesPerTick \in Nat \ {0} /\ Words \in Nat \ {0} /\ MaxDelay \in Nat \ {0}
BY ClockAssumption

(* A cycle lies between the first cycle of its tick and that of the next.  *)
LEMMA MtimeFacts ==
  ASSUME NEW n \in Nat
  PROVE  /\ Mtime(n) \in Nat
         /\ FirstCycle(Mtime(n)) <= n /\ n < FirstCycle(Mtime(n) + 1)
<1> DEFINE q == n \div CyclesPerTick
<1>1. q \in Nat /\ q * CyclesPerTick <= n /\ n < q * CyclesPerTick + CyclesPerTick
  BY Positive, DivMod, DivInt
<1>2. (q + 1) * CyclesPerTick = q * CyclesPerTick + CyclesPerTick
  BY <1>1, Positive, OneMore
<1> QED
  BY <1>1, <1>2 DEF Mtime, FirstCycle

(* A time is made of its two words.                                        *)
LEMMA WordFacts ==
  ASSUME NEW t \in Nat
  PROVE  /\ HighWord(t) \in Nat /\ LowWord(t) \in Nat
         /\ t = HighWord(t) * Words + LowWord(t)
BY Positive, DivMod DEF HighWord, LowWord

(* A later tick has a later first cycle.                                   *)
LEMMA FirstCycleFacts ==
  ASSUME NEW t \in Nat, NEW u \in Nat, t <= u
  PROVE  /\ FirstCycle(t) \in Nat /\ FirstCycle(u) \in Nat
         /\ FirstCycle(t) <= FirstCycle(u)
BY Positive, Times DEF FirstCycle

(* The first cycle of a tick is a natural number.                          *)
LEMMA FirstCycleType ==
  ASSUME NEW t \in Nat
  PROVE  FirstCycle(t) \in Nat
BY Positive DEF FirstCycle

(* The counter, and its high word, never go back.                          *)
LEMMA ClockMonotone ==
  ASSUME NEW m \in Nat, NEW n \in Nat, m <= n
  PROVE  Mtime(m) <= Mtime(n) /\ HighWord(Mtime(m)) <= HighWord(Mtime(n))
<1>1. Mtime(m) <= Mtime(n)
  BY Positive, DivMonotone DEF Mtime
<1> QED
  BY <1>1, Positive, MtimeFacts, DivMonotone DEF HighWord

(* What a step of the core does to the clock: it never goes back, and a    *)
(* high word that is unchanged after the step was so before it.            *)
LEMMA ElapseFacts ==
  ASSUME ClintType, Elapse
  PROVE  /\ now' \in Nat /\ now <= now' /\ now' <= now + MaxDelay
         /\ called' = called /\ call' = call /\ ticks' = ticks
         /\ Mtime(now) <= Mtime(now')
         /\ HighWord(Mtime(now)) <= HighWord(Mtime(now'))
         /\ NoRollover' => NoRollover
<1>1. PICK d \in 1 .. MaxDelay : now' = now + d
  BY DEF Elapse
<1>2. /\ now' \in Nat /\ now <= now' /\ now' <= now + MaxDelay
      /\ called' = called /\ call' = call /\ ticks' = ticks
  BY <1>1, Positive DEF ClintType, Elapse
<1>3. /\ Mtime(now) <= Mtime(now') /\ HighWord(Mtime(now)) <= HighWord(Mtime(now'))
      /\ HighWord(Mtime(called)) <= HighWord(Mtime(now))
  BY <1>2, ClockMonotone DEF ClintType
<1>4. {HighWord(Mtime(called)), HighWord(Mtime(now)), HighWord(Mtime(now'))} \subseteq Nat
  BY <1>2, MtimeFacts, WordFacts DEF ClintType
<1>5. NoRollover' => HighWord(Mtime(called)) = HighWord(Mtime(now'))
  BY <1>2 DEF NoRollover
<1> QED
  BY <1>2, <1>3, <1>4, <1>5 DEF NoRollover

(* The measurement lasts at least one tick.                                *)
LEMMA NumTicks == num_ticks \in Nat \ {0} /\ RefFreq \in Nat
BY PeriodAssumption, DivMod DEF num_ticks

(* A frequency computed from a measurement whose ends are each within two  *)
(* of the longest steps of the first cycle of a tick.                      *)
LEMMA Accuracy ==
  ASSUME NEW cycles \in Int, NEW dt \in Nat, num_ticks <= dt, num_ticks \in Nat \ {0},
         NEW err \in Nat, RefFreq \in Nat, NEW f \in Int,
         cycles - dt * CyclesPerTick <= err, dt * CyclesPerTick - cycles <= err,
         f = (cycles * RefFreq) \div dt
  PROVE  num_ticks * Abs(f - CyclesPerTick * RefFreq) <= err * RefFreq + num_ticks
<1> DEFINE e == cycles - dt * CyclesPerTick
           x == f - CyclesPerTick * RefFreq
<1>1. f * dt <= cycles * RefFreq /\ cycles * RefFreq < f * dt + dt
  BY DivInt
<1>2. /\ cycles * RefFreq = e * RefFreq + (CyclesPerTick * RefFreq) * dt
      /\ f * dt = x * dt + (CyclesPerTick * RefFreq) * dt
  <2>1. e * RefFreq = cycles * RefFreq - (dt * CyclesPerTick) * RefFreq
    BY Positive, Distribute
  <2>2. (dt * CyclesPerTick) * RefFreq = (CyclesPerTick * RefFreq) * dt
    BY Positive
  <2>3. x * dt = f * dt - (CyclesPerTick * RefFreq) * dt
    BY Positive, Distribute
  <2>4. {cycles * RefFreq, f * dt, (CyclesPerTick * RefFreq) * dt} \subseteq Int
    BY Positive
  <2> HIDE DEF e, x
  <2> QED
    BY <2>1, <2>2, <2>3, <2>4
<1>3. e \in Int /\ x \in Int /\ e <= err /\ -err <= e
  BY Positive
<1>4. {x * dt, e * RefFreq, err * RefFreq, (CyclesPerTick * RefFreq) * dt} \subseteq Int
  BY <1>3, Positive
<1>5. x * dt <= e * RefFreq /\ e * RefFreq < x * dt + dt
  BY <1>1, <1>2, <1>4
<1> HIDE DEF e, x
<1>6. e * RefFreq <= err * RefFreq /\ (-err) * RefFreq <= e * RefFreq
  BY <1>3, Times
<1>7. CASE x >= 0
  <2>1. num_ticks * x <= dt * x
    BY <1>3, <1>7
  <2> QED
    BY <1>3, <1>4, <1>5, <1>6, <1>7, <2>1 DEF Abs, x
<1>8. CASE x < 0
  <2> DEFINE y == -x - 1
  <2>1. y \in Nat /\ num_ticks * y <= dt * y
    BY <1>3, <1>8
  <2>2. dt * y = -(x * dt) - dt /\ num_ticks * y = num_ticks * (-x) - num_ticks
    BY <1>3
  <2>3. num_ticks * (-x) <= err * RefFreq + num_ticks
    BY <1>3, <1>4, <1>5, <1>6, <2>1, <2>2
  <2> QED
    BY <1>3, <1>8, <2>3 DEF Abs, x
<1> QED
  BY <1>3, <1>7, <1>8
---------------------------------------------------------------------------
(* A step that reads no word of mtime leaves what has been read behind.    *)
LEMMA ReadKept ==
  ASSUME ClintType, ReadInv, Elapse, time' = time, pc' # "word"
  PROVE  ReadInv'
BY ElapseFacts, MtimeFacts DEF ReadInv, NeverAhead, ClintType

(* The high word comes first, so the two words together are at most the    *)
(* time at the second read, and just that if the high word is still the    *)
(* same.                                                                   *)
LEMMA LowCompletes ==
  ASSUME ClintType, ReadInv, GetLow
  PROVE  /\ time' \in Nat /\ time' <= Mtime(now)
         /\ NoRollover => time' = Mtime(now)
<1>1. now \in Nat /\ half \in Nat /\ Mtime(now) \in Nat
  BY MtimeFacts DEF ClintType
<1>2. /\ HighWord(Mtime(now)) \in Nat /\ LowWord(Mtime(now)) \in Nat
      /\ Mtime(now) = HighWord(Mtime(now)) * Words + LowWord(Mtime(now))
  BY <1>1, WordFacts
<1>3. half * Words \in Nat /\ HighWord(Mtime(now)) * Words \in Nat
  BY <1>1, <1>2, Positive
<1>4. half <= HighWord(Mtime(now)) /\ (NoRollover => half = HighWord(Mtime(now)))
  BY DEF ReadInv, GetLow
<1>5. half * Words <= HighWord(Mtime(now)) * Words
  BY <1>1, <1>2, <1>4, Positive, Times
<1>6. time' = half * Words + LowWord(Mtime(now))
  BY DEF GetLow
<1> QED
  BY <1>1, <1>2, <1>3, <1>4, <1>5, <1>6

(* The inductive invariant of the timer functions.                         *)
THEOREM ClintState == Spec => []ClintInv
<1> USE DEF ClintInv
<1>1. Init => ClintInv
  <2> SUFFICES ASSUME Init PROVE ClintInv
    OBVIOUS
  <2> USE CallAssumption DEF Init
  <2>1. Mtime(now) \in Nat
    BY MtimeFacts
  <2>2. ClintType
    BY <2>1 DEF ClintType, Calls, PlacesOf
  <2>3. ReadInv
    BY <2>1 DEF ReadInv, NeverAhead
  <2>4. SpinInv
    BY DEF SpinInv, SpinsLongEnough, Calls
  <2>5. FreqInv
    BY DEF FreqInv, FreqAccurate, Calls
  <2> QED
    BY <2>2, <2>3, <2>4, <2>5
<1>2. ClintInv /\ [Next]_vars => ClintInv'
  <2> SUFFICES ASSUME ClintInv, [Next]_vars PROVE ClintInv'
    OBVIOUS
  <2>1. /\ now \in Nat /\ called \in Nat /\ Mtime(now) \in Nat /\ Mtime(called) \in Nat
        /\ time \in Nat /\ end_mtime \in Nat /\ start_mtime \in Nat
    BY MtimeFacts DEF ClintType
  <2>2. CASE GetHigh
    <3>1. Elapse
      BY <2>2 DEF GetHigh
    <3>2. HighWord(Mtime(now)) \in Nat
      BY <2>1, WordFacts
    <3>3. ClintType'
      BY <2>2, <3>1, <3>2, ElapseFacts DEF GetHigh, ClintType, locals, measured
    <3>4. ReadInv'
      <4>1. NeverAhead'
        BY <2>1, <2>2, <3>1, ElapseFacts, MtimeFacts
           DEF GetHigh, ClintType, ReadInv, NeverAhead
      <4>2. half' = HighWord(Mtime(now))
        BY <2>2 DEF GetHigh
      <4>3. NoRollover' => half' = HighWord(Mtime(now'))
        BY <3>1, <4>2, ElapseFacts DEF NoRollover
      <4> QED
        BY <3>1, <4>1, <4>2, <4>3, ElapseFacts DEF ReadInv
    <3>5. SpinInv'
      BY <2>2, <3>1, ElapseFacts DEF GetHigh, SpinInv, SpinsLongEnough, locals, measured
    <3>6. FreqInv'
      BY <2>2, <3>1, ElapseFacts, Positive, MtimeFacts
         DEF GetHigh, ClintType, FreqInv, FreqAccurate, StartIsClose, locals, measured
    <3> QED
      BY <3>3, <3>4, <3>5, <3>6
  <2>3. CASE GetLow
    <3>1. Elapse
      BY <2>3 DEF GetLow
    <3>2. /\ time' \in Nat /\ time' <= Mtime(now)
          /\ NoRollover => time' = Mtime(now)
      BY <2>3, LowCompletes
    <3>3. ClintType'
      BY <2>3, <3>1, <3>2, ElapseFacts DEF GetLow, ClintType, locals, measured, Calls, PlacesOf
    <3>4. ReadInv'
      BY <2>1, <2>3, <3>1, <3>2, <3>3, ElapseFacts, MtimeFacts
         DEF GetLow, ClintType, ReadInv, NeverAhead, PlacesOf, Calls
    <3>5. SpinInv'
      <4>1. Mtime(called) <= Mtime(now)
        BY <2>1, ClockMonotone DEF ClintType
      <4> QED
        BY <2>1, <2>3, <3>1, <3>2, <4>1, ElapseFacts
           DEF GetLow, ClintType, SpinInv, SpinsLongEnough, locals, measured, PlacesOf, Calls
    <3>6. FreqInv'
      <4>1. /\ FirstCycle(Mtime(now)) \in Nat /\ FirstCycle(Mtime(now) + 1) \in Nat
            /\ FirstCycle(Mtime(now)) <= now /\ now < FirstCycle(Mtime(now) + 1)
        BY <2>1, MtimeFacts, FirstCycleFacts
      <4> SUFFICES ASSUME NoRollover' PROVE FreqInv'
        BY DEF FreqInv
      <4>2. /\ NoRollover /\ time' = Mtime(now)
            /\ pc' = use /\ use' = use /\ call' = call /\ locals' = locals
        BY <2>3, <3>1, <3>2, ElapseFacts DEF GetLow
      <4>3. now' < FirstCycle(time' + 1) + MaxDelay /\ FirstCycle(time') <= now
        BY <2>1, <3>1, <4>1, <4>2, ElapseFacts, Positive
      <4>4. CASE use = "rollover"
        <5>1. /\ start_mcycle < FirstCycle(end_mtime + 1) + 2 * MaxDelay
              /\ now <= start_mcycle + 2 * MaxDelay /\ end_mtime <= Mtime(now)
          BY <2>3, <4>2, <4>4 DEF FreqInv, GetLow
        <5>2. FirstCycle(time') <= start_mcycle + 2 * MaxDelay
          BY <2>1, <4>1, <4>2, <5>1, Positive DEF ClintType
        <5> QED
          BY <4>2, <4>3, <4>4, <5>1, <5>2 DEF FreqInv, FreqAccurate, locals, measured
      <4>5. CASE use = "measure"
        <5>1. /\ StartIsClose /\ now <= end_mcycle + 2 * MaxDelay
              /\ end_mcycle < FirstCycle(start_mtime + num_ticks) + 2 * MaxDelay
          BY <2>3, <4>2, <4>5 DEF FreqInv, GetLow
        <5>2. FirstCycle(time') <= end_mcycle + 2 * MaxDelay
          BY <2>1, <4>1, <4>2, <5>1, Positive DEF ClintType
        <5> QED
          BY <4>2, <4>3, <4>5, <5>1, <5>2
             DEF FreqInv, FreqAccurate, StartIsClose, locals, measured
      <4>6. CASE use \notin {"rollover", "measure"}
        <5>1. use \notin {"start", "end", "mtime", "word", "ret"}
          BY <2>3 DEF FreqInv, FreqAccurate, ClintType, Calls, PlacesOf
        <5> QED
          BY <4>2, <4>3, <4>6, <5>1 DEF FreqInv, FreqAccurate
      <4> QED
        BY <4>4, <4>5, <4>6
    <3> QED
      BY <3>3, <3>4, <3>5, <3>6
  <2>4. CASE SpinUntil
    <3>1. Elapse /\ time' = time /\ pc' # "word"
      BY <2>4 DEF SpinUntil, GoTo, ReadMtimeFor
    <3>2. ClintType'
      BY <2>4, <3>1, ElapseFacts
         DEF SpinUntil, GoTo, ReadMtimeFor, ClintType, locals, measured, Calls, PlacesOf
    <3>3. SpinInv'
      <4>1. time <= Mtime(now) /\ Mtime(now') \in Nat
        BY <3>1, ElapseFacts, MtimeFacts DEF ReadInv, NeverAhead
      <4>2. NoRollover' /\ call = "spin_ticks" => Mtime(called) + ticks <= tgt
        BY <2>4, <3>1, ElapseFacts DEF SpinUntil, SpinInv, ClintType, PlacesOf
      <4> QED
        BY <2>1, <2>4, <3>1, <4>1, <4>2, ElapseFacts
           DEF SpinUntil, GoTo, ReadMtimeFor, ClintType, SpinInv, SpinsLongEnough, locals,
               measured, PlacesOf, Calls
    <3>4. FreqInv'
      BY <2>4, <3>1, ElapseFacts DEF SpinUntil, GoTo, ReadMtimeFor, FreqInv, FreqAccurate,
         ClintType, Calls, PlacesOf
    <3> QED
      BY <3>1, <3>2, <3>3, <3>4, ReadKept
  <2>5. CASE SpinTicks
    <3>1. Elapse /\ time' = time /\ pc' # "word"
      BY <2>5 DEF SpinTicks, ReadMtimeFor
    <3>2. ClintType'
      BY <2>5, <3>1, ElapseFacts
         DEF SpinTicks, ReadMtimeFor, ClintType, measured, Calls, PlacesOf
    <3>3. SpinInv'
      BY <2>1, <2>5, <3>1, ElapseFacts
         DEF SpinTicks, ReadMtimeFor, ClintType, SpinInv, SpinsLongEnough, PlacesOf, Calls
    <3>4. FreqInv'
      BY <2>5, <3>1, ElapseFacts DEF SpinTicks, ReadMtimeFor, FreqInv, FreqAccurate,
         ClintType, Calls, PlacesOf
    <3> QED
      BY <3>1, <3>2, <3>3, <3>4, ReadKept
  <2>6. CASE GetCoreFreq
    <3>1. Elapse /\ time' = time /\ pc' # "word" /\ call = "get_core_freq"
      BY <2>6 DEF GetCoreFreq, GoTo, ClintType, Calls, PlacesOf
    <3>2. ClintType'
      BY <2>6, <3>1, ElapseFacts DEF GetCoreFreq, GoTo, ClintType, Calls, PlacesOf
    <3>3. SpinInv'
      BY <2>6, <3>1, ElapseFacts DEF GetCoreFreq, GoTo, SpinInv, SpinsLongEnough
    <3>4. FreqInv'
      <4> SUFFICES ASSUME NoRollover' PROVE FreqInv'
        BY DEF FreqInv
      <4>1. now < FirstCycle(time + 1) + MaxDelay
        BY <2>6, <3>1, ElapseFacts DEF GetCoreFreq, FreqInv
      <4>2. FirstCycle(time + 1) \in Nat /\ time <= Mtime(now)
        BY <2>1, FirstCycleType DEF ReadInv, NeverAhead
      <4>3. Mtime(now) <= Mtime(now') /\ now' < FirstCycle(time + 1) + 2 * MaxDelay
        BY <2>1, <3>1, <4>1, <4>2, ElapseFacts, Positive
      <4>4. time <= Mtime(now')
        BY <2>1, <3>1, <4>2, <4>3, ElapseFacts, MtimeFacts DEF ClintType
      <4> QED
        BY <2>6, <4>3, <4>4 DEF GetCoreFreq, GoTo, FreqInv, FreqAccurate
    <3> QED
      BY <3>1, <3>2, <3>3, <3>4, ReadKept
  <2>7. CASE CaptureStart
    <3>1. Elapse /\ time' = time /\ pc' # "word" /\ call = "get_core_freq"
      BY <2>7 DEF CaptureStart, ReadMtimeFor, ClintType, Calls, PlacesOf
    <3>2. ClintType'
      BY <2>7, <3>1, ElapseFacts DEF CaptureStart, ReadMtimeFor, ClintType, Calls, PlacesOf
    <3>3. SpinInv'
      BY <2>7, <3>1, ElapseFacts DEF CaptureStart, ReadMtimeFor, SpinInv, SpinsLongEnough
    <3>4. FreqInv'
      <4> SUFFICES ASSUME NoRollover' PROVE FreqInv'
        BY DEF FreqInv
      <4>1. now < FirstCycle(end_mtime + 1) + 2 * MaxDelay /\ end_mtime <= Mtime(now)
        BY <2>7, <3>1, ElapseFacts DEF CaptureStart, FreqInv
      <4>2. end_mtime <= Mtime(now')
        BY <2>1, <3>1, <4>1, ElapseFacts, MtimeFacts DEF ClintType
      <4>3. now' <= now + MaxDelay
        BY <3>1, ElapseFacts
      <4> QED
        BY <2>7, <4>1, <4>2, <4>3 DEF CaptureStart, ReadMtimeFor, FreqInv, FreqAccurate
    <3> QED
      BY <3>1, <3>2, <3>3, <3>4, ReadKept
  <2>8. CASE Rollover
    <3>1. Elapse /\ time' = time /\ pc' # "word" /\ call = "get_core_freq"
      BY <2>8 DEF Rollover, GoTo, ClintType, Calls, PlacesOf
    <3>2. ClintType'
      BY <2>8, <3>1, ElapseFacts DEF Rollover, GoTo, ClintType, Calls, PlacesOf
    <3>3. SpinInv'
      BY <2>8, <3>1, ElapseFacts DEF Rollover, GoTo, SpinInv, SpinsLongEnough
    <3>4. FreqInv'
      <4> SUFFICES ASSUME NoRollover' PROVE FreqInv'
        BY DEF FreqInv
      <4>1. /\ start_mcycle < FirstCycle(end_mtime + 1) + 2 * MaxDelay
            /\ FirstCycle(time) <= start_mcycle + 2 * MaxDelay
            /\ now < FirstCycle(time + 1) + MaxDelay
            /\ end_mtime <= time
        BY <2>8, <3>1, ElapseFacts DEF Rollover, FreqInv, ClintType
      <4>2. /\ time <= Mtime(now) /\ Mtime(now) <= Mtime(now')
            /\ Mtime(now') \in Nat /\ now' <= now + MaxDelay
        BY <3>1, ElapseFacts, MtimeFacts DEF ReadInv, NeverAhead
      <4>3. FirstCycle(time + 1) \in Nat
        BY FirstCycleFacts DEF ClintType
      <4>4. CASE time = end_mtime
        BY <2>1, <2>8, <3>2, <4>1, <4>2, <4>3, <4>4, Positive
           DEF Rollover, GoTo, FreqInv, FreqAccurate, ClintType
      <4>5. CASE time # end_mtime
        <5>1. FirstCycle(end_mtime + 1) <= FirstCycle(time) /\ FirstCycle(end_mtime + 1) \in Nat
              /\ FirstCycle(time) \in Nat
          <6>1. end_mtime + 1 \in Nat /\ end_mtime + 1 <= time
            BY <2>1, <4>1, <4>5
          <6> QED
            BY <2>1, <6>1, FirstCycleFacts
        <5>2. FirstCycle(time + 1) <= FirstCycle(time + num_ticks)
              /\ FirstCycle(time + num_ticks) \in Nat
          BY NumTicks, FirstCycleFacts DEF ClintType
        <5>3. now' < FirstCycle(time + num_ticks) + 2 * MaxDelay
          BY <2>1, <3>1, <4>1, <4>2, <4>3, <5>2, Positive, ElapseFacts
        <5>4. /\ start_mcycle < FirstCycle(time) + 2 * MaxDelay
          BY <4>1, <5>1, Positive DEF ClintType
        <5> QED
          BY <2>8, <4>1, <4>5, <5>3, <5>4
             DEF Rollover, GoTo, FreqInv, FreqAccurate, StartIsClose
      <4> QED
        BY <4>4, <4>5
    <3> QED
      BY <3>1, <3>2, <3>3, <3>4, ReadKept
  <2>9. CASE CaptureEnd
    <3>1. Elapse /\ time' = time /\ pc' # "word" /\ call = "get_core_freq"
      BY <2>9 DEF CaptureEnd, ReadMtimeFor, ClintType, Calls, PlacesOf
    <3>2. ClintType'
      BY <2>9, <3>1, ElapseFacts DEF CaptureEnd, ReadMtimeFor, ClintType, Calls, PlacesOf
    <3>3. SpinInv'
      BY <2>9, <3>1, ElapseFacts DEF CaptureEnd, ReadMtimeFor, SpinInv, SpinsLongEnough
    <3>4. FreqInv'
      <4> SUFFICES ASSUME NoRollover' PROVE FreqInv'
        BY DEF FreqInv
      <4>1. StartIsClose /\ now < FirstCycle(start_mtime + num_ticks) + 2 * MaxDelay
        BY <2>9, <3>1, ElapseFacts DEF CaptureEnd, FreqInv
      <4>2. now' <= now + MaxDelay
        BY <3>1, ElapseFacts
      <4> QED
        BY <2>9, <4>1, <4>2
           DEF CaptureEnd, ReadMtimeFor, FreqInv, FreqAccurate, StartIsClose
    <3> QED
      BY <3>1, <3>2, <3>3, <3>4, ReadKept
  <2>10. CASE Measure
    <3>1. Elapse /\ time' = time /\ pc' # "word" /\ call = "get_core_freq"
      BY <2>10 DEF Measure, GoTo, ClintType, Calls, PlacesOf
    <3>2. time >= start_mtime + num_ticks =>
            freq' = ((end_mcycle - start_mcycle) * RefFreq) \div (time - start_mtime) /\ freq' \in Int
      <4> SUFFICES ASSUME time >= start_mtime + num_ticks
                   PROVE  /\ ((end_mcycle - start_mcycle) * RefFreq) \div (time - start_mtime) \in Int
                          /\ freq' = ((end_mcycle - start_mcycle) * RefFreq) \div (time - start_mtime)
        OBVIOUS
      <4>1. time - start_mtime \in Nat \ {0}
        BY NumTicks DEF ClintType
      <4>2. (end_mcycle - start_mcycle) * RefFreq \in Int
        BY NumTicks DEF ClintType
      <4>3. ~ (time < start_mtime + num_ticks)
        BY NumTicks DEF ClintType
      <4> QED
        BY <2>10, <4>1, <4>2, <4>3, DivInt DEF Measure
    <3>3. ClintType'
      BY <2>10, <3>1, <3>2, ElapseFacts, NumTicks DEF Measure, GoTo, ClintType, Calls, PlacesOf
    <3>4. SpinInv'
      BY <2>10, <3>1, ElapseFacts DEF Measure, GoTo, SpinInv, SpinsLongEnough
    <3>5. FreqInv'
      <4> SUFFICES ASSUME NoRollover' PROVE FreqInv'
        BY DEF FreqInv
      <4>1. /\ StartIsClose
            /\ end_mcycle < FirstCycle(start_mtime + num_ticks) + 2 * MaxDelay
            /\ FirstCycle(time) <= end_mcycle + 2 * MaxDelay
            /\ now < FirstCycle(time + 1) + MaxDelay
        BY <2>10, <3>1, ElapseFacts DEF Measure, FreqInv, ClintType
      <4>2. now' <= now + MaxDelay /\ now' \in Nat
        BY <3>1, ElapseFacts
      <4>3. CASE time < start_mtime + num_ticks
        <5>1. FirstCycle(time + 1) <= FirstCycle(start_mtime + num_ticks)
              /\ FirstCycle(time + 1) \in Nat /\ FirstCycle(start_mtime + num_ticks) \in Nat
          <6>1. /\ time + 1 \in Nat /\ start_mtime + num_ticks \in Nat
                /\ time + 1 <= start_mtime + num_ticks
            BY <2>1, <4>3, NumTicks
          <6> QED
            BY <6>1, FirstCycleFacts
        <5>2. now' < FirstCycle(start_mtime + num_ticks) + 2 * MaxDelay
          BY <2>1, <4>1, <4>2, <5>1, Positive
        <5> QED
          BY <2>10, <4>1, <4>3, <5>2 DEF Measure, GoTo, FreqInv, FreqAccurate, StartIsClose
      <4>4. CASE time >= start_mtime + num_ticks
        <5> DEFINE cycles == end_mcycle - start_mcycle
                   dt == time - start_mtime
        <5>1. cycles \in Int /\ dt \in Nat /\ num_ticks <= dt
          BY <4>4, NumTicks DEF ClintType
        <5>2. /\ FirstCycle(start_mtime + num_ticks) <= FirstCycle(time)
              /\ FirstCycle(start_mtime + num_ticks) \in Nat
              /\ FirstCycle(time) \in Nat /\ FirstCycle(start_mtime) \in Nat
          BY <4>4, NumTicks, FirstCycleFacts DEF ClintType
        <5>3. dt * CyclesPerTick = FirstCycle(time) - FirstCycle(start_mtime)
          BY Positive, Distribute DEF ClintType, FirstCycle
        <5>4. /\ cycles - dt * CyclesPerTick <= 4 * MaxDelay
              /\ dt * CyclesPerTick - cycles <= 4 * MaxDelay
          BY <4>1, <5>1, <5>2, <5>3, Positive DEF StartIsClose, ClintType
        <5>5. freq' = (cycles * RefFreq) \div dt /\ freq' \in Int
          BY <3>2, <4>4
        <5> HIDE DEF cycles, dt
        <5>6. num_ticks * Abs(freq' - CyclesPerTick * RefFreq) <= (4 * MaxDelay) * RefFreq + num_ticks
          <6>1. 4 * MaxDelay \in Nat
            BY Positive
          <6> QED
            BY <5>1, <5>4, <5>5, <6>1, NumTicks, Accuracy
        <5> QED
          BY <2>10, <4>4, <5>6, NumTicks DEF Measure, GoTo, FreqInv, FreqAccurate, ClintType
      <4> QED
        BY <4>3, <4>4, NumTicks DEF ClintType
    <3> QED
      BY <3>1, <3>3, <3>4, <3>5, ReadKept
  <2>11. CASE SleepUntil
    <3>1. Elapse /\ time' = time /\ pc' # "word" /\ call = "sleep_until"
      BY <2>11 DEF SleepUntil, GoTo, ClintType, Calls, PlacesOf
    <3>2. ClintType'
      BY <2>11, <3>1, ElapseFacts DEF SleepUntil, GoTo, measured, ClintType, Calls, PlacesOf
    <3>3. SpinInv' /\ FreqInv'
      BY <2>11, <3>1, ElapseFacts DEF SleepUntil, GoTo, measured, ClintType, SpinInv,
         SpinsLongEnough, FreqInv, FreqAccurate, Calls, PlacesOf
    <3> QED
      BY <3>1, <3>2, <3>3, ReadKept
  <2>12. CASE SetMtimecmpLow
    <3>1. Elapse /\ time' = time /\ pc' # "word" /\ call = "sleep_until"
      BY <2>12 DEF SetMtimecmpLow, GoTo, ClintType, Calls, PlacesOf
    <3>2. ClintType'
      BY <2>12, <3>1, ElapseFacts DEF SetMtimecmpLow, GoTo, measured, ClintType, Calls, PlacesOf
    <3>3. SpinInv' /\ FreqInv'
      BY <2>12, <3>1, ElapseFacts DEF SetMtimecmpLow, GoTo, measured, ClintType, SpinInv,
         SpinsLongEnough, FreqInv, FreqAccurate, Calls, PlacesOf
    <3> QED
      BY <3>1, <3>2, <3>3, ReadKept
  <2>13. CASE Wfi
    <3>1. Elapse /\ time' = time /\ pc' # "word" /\ call = "sleep_until"
      BY <2>13 DEF Wfi, GoTo, ClintType, Calls, PlacesOf
    <3>2. ClintType'
      BY <2>13, <3>1, ElapseFacts DEF Wfi, GoTo, locals, measured, ClintType, Calls, PlacesOf
    <3>3. SpinInv' /\ FreqInv'
      BY <2>13, <3>1, ElapseFacts DEF Wfi, GoTo, locals, measured, ClintType, SpinInv,
         SpinsLongEnough, FreqInv, FreqAccurate, Calls, PlacesOf
    <3> QED
      BY <3>1, <3>2, <3>3, ReadKept
  <2>14. CASE UNCHANGED vars
    BY <2>14 DEF vars, locals, measured, ClintType, ReadInv, NeverAhead, NoRollover, SpinInv,
       SpinsLongEnough, FreqInv, FreqAccurate, StartIsClose
  <2> QED
    BY <2>2, <2>3, <2>4, <2>5, <2>6, <2>7, <2>8, <2>9, <2>10, <2>11, <2>12, <2>13, <2>14
       DEF Next, GetMtime
<1> QED
  BY <1>1, <1>2, PTL DEF Spec
---------------------------------------------------------------------------
(* No function believes mtime to be later than it is, though it is read in *)
(* two loads.                                                              *)
THEOREM TimeNeverAhead == Spec => []NeverAhead
<1>1. ClintInv => NeverAhead
  BY DEF ClintInv, ReadInv
<1> QED
  BY <1>1, ClintState, PTL

(* No spin ends early.                                                     *)
THEOREM SpinsAreLongEnough == Spec => []SpinsLongEnough
<1>1. ClintInv => SpinsLongEnough
  BY DEF ClintInv, SpinInv
<1> QED
  BY <1>1, ClintState, PTL

(* The frequency measured is off by no more than four of the longest steps *)
(* of the code in the measuring period, and one hertz.                     *)
THEOREM FrequencyIsAccurate == Spec => []FreqAccurate
<1>1. ClintInv => FreqAccurate
  BY DEF ClintInv, FreqInv, FreqAccurate
<1> QED
  BY <1>1, ClintState, PTL
===========================================================================
