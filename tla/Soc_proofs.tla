---------------------------- MODULE Soc_proofs ----------------------------
(***************************************************************************)
(* Proofs about two parts of the SoC that harts share: the DMA engine, as*)
(* its driver uses it, for any number of harts, any copies and any bound *)
(* on the calls, and the interconnect, for any configurations whose ports*)
(* fit the index type, any regions they choose and any addresses.        *)
(*                                                                       *)
(* That a launch finds the right registers is not inductive: it is about *)
(* the end of a sequence of stores.  WriterOwns says that one hart at a  *)
(* time is in such a sequence, and StoredSoFar that the registers hold   *)
(* what it has stored up to now.  That a copy returns only when it is done*)
(* needs the order of the queue, JobsInOrder.                            *)
(*                                                                       *)
(* Where an access ends rests on two facts about the lists of devices: no*)
(* two devices of a list share an address (AxiSole, RegSole), and the    *)
(* devices of the demux are where the crossbar leads to it (RegHolder).  *)
(* That ports are numbered without a hole is counted: the port counter   *)
(* differs at any two devices that take a port (CountersDiffer), so it   *)
(* takes as many values as there are such devices.                       *)
(***************************************************************************)
EXTENDS Dma, AddrMap, SequenceTheorems, FiniteSetTheorems, TLAPS

DmaType ==
  /\ owner \in Harts \cup {NoHart} /\ DOMAIN regs = Reg
  /\ next_id \in Nat /\ done \in Nat /\ jobs \in Seq(Nat)
  /\ call \in [Harts -> Calls \cup {NoCall}]
  /\ at \in [Harts -> Nat] /\ tf_id \in [Harts -> Nat]

Writing(h) == call[h] # NoCall /\ at[h] # 0

WriterOwns == \A h \in Harts : Writing(h) => owner = h

StoredSoFar ==
  \A h \in Harts : Writing(h) =>
    /\ at[h] \in 1 .. Len(Stores(call[h])) + 1
    /\ \A k \in 1 .. at[h] - 1 : regs[Stores(call[h])[k][1]] = Stores(call[h])[k][2]

JobsInOrder == /\ done + Len(jobs) + 1 = next_id
               /\ \A k \in 1 .. Len(jobs) : jobs[k] = done + k

DmaInv == DmaType /\ WriterOwns /\ StoredSoFar /\ JobsInOrder
---------------------------------------------------------------------------
(* The stores of a call are to different registers.                      *)
LEMMA StoresFacts ==
  ASSUME NEW c \in Calls
  PROVE  /\ Len(Stores(c)) \in Nat
         /\ \A k \in 1 .. Len(Stores(c)) : Stores(c)[k][1] \in Reg
         /\ \A k, l \in 1 .. Len(Stores(c)) : k # l => Stores(c)[k][1] # Stores(c)[l][1]
<1>1. CASE c.dims = 1
  BY <1>1 DEF Stores, Stores1D, Reg
<1>2. CASE c.dims = 2
  BY <1>2 DEF Stores, Stores2D, Reg
<1> QED
  BY <1>1, <1>2 DEF Calls

(* When all stores are made, the registers describe the copy that was    *)
(* asked for.                                                            *)
LEMMA AllStored ==
  ASSUME NEW c \in Calls, NEW g,
         \A k \in 1 .. Len(Stores(c)) : g[Stores(c)[k][1]] = Stores(c)[k][2]
  PROVE  Copy(g) = Asked(c)
<1>1. CASE c.dims = 1
  <2>1. /\ g["src"] = c.args.src /\ g["dst"] = c.args.dst /\ g["num_bytes"] = c.args.size
        /\ g["num_reps"] = 0 /\ g["conf"] = 0
    BY <1>1 DEF Stores, Stores1D
  <2> QED
    BY <1>1, <2>1 DEF Copy, Asked
<1>2. CASE c.dims = 2
  <2>1. /\ g["src"] = c.args.src /\ g["dst"] = c.args.dst /\ g["num_bytes"] = c.args.size
        /\ g["conf"] = 0 /\ g["src_stride"] = c.args.src_stride
        /\ g["dst_stride"] = c.args.dst_stride /\ g["num_reps"] = c.args.num_reps
    BY <1>2 DEF Stores, Stores2D
  <2>2. c.args.num_reps # 0
    BY <1>2, CopiesAssumption DEF Calls
  <2> QED
    BY <1>2, <2>1, <2>2 DEF Copy, Asked
<1> QED
  BY <1>1, <1>2 DEF Calls
---------------------------------------------------------------------------
(* The state between two steps of the driver: one hart writes, what it has*)
(* written is in the registers, and the queue is in order.               *)
THEOREM DriverState == Spec => []DmaInv
<1>1. Init => DmaInv
  BY DEF Init, DmaInv, DmaType, WriterOwns, StoredSoFar, JobsInOrder, Writing
<1>2. DmaInv /\ [Next]_vars => DmaInv'
  <2> SUFFICES ASSUME DmaInv, [Next]_vars PROVE DmaInv'
    OBVIOUS
  <2> USE DEF DmaInv
  <2>1. ASSUME NEW h \in Harts, NEW c \in Calls, Call(h, c) PROVE DmaInv'
    <3>1. DmaType'
      BY <2>1 DEF Call, DmaType
    <3>2. \A g \in Harts : Writing(g)' => g = h
      BY <2>1, DmaAssumption DEF Call, DmaType, Writing, WriterOwns
    <3>3. WriterOwns'
      BY <2>1, <3>2 DEF Call, WriterOwns
    <3>4. StoredSoFar'
      BY <2>1, <3>2, StoresFacts DEF Call, DmaType, StoredSoFar
    <3>5. JobsInOrder'
      BY <2>1 DEF Call, JobsInOrder
    <3> QED
      BY <3>1, <3>3, <3>4, <3>5
  <2>2. ASSUME NEW h \in Harts, Store(h) PROVE DmaInv'
    <3>1. call[h] \in Calls /\ Writing(h)
      BY <2>2 DEF Store, DmaType, Writing
    <3>2. DmaType'
      BY <2>2 DEF Store, DmaType
    <3>3. \A g \in Harts : Writing(g)' => g = h
      BY <2>2, <3>1 DEF Store, DmaType, Writing, WriterOwns
    <3>4. WriterOwns'
      BY <2>2, <3>1, <3>3 DEF Store, WriterOwns
    <3>5. StoredSoFar'
      <4> DEFINE s == Stores(call[h])
      <4>1. call' = call /\ at'[h] = at[h] + 1 /\ at[h] \in 1 .. Len(s)
        BY <2>2 DEF Store, DmaType
      <4>2. regs' = [regs EXCEPT ![s[at[h]][1]] = s[at[h]][2]]
        BY <2>2 DEF Store
      <4>3. \A k \in 1 .. at[h] - 1 : regs[s[k][1]] = s[k][2]
        BY <3>1 DEF StoredSoFar
      <4>4. \A k \in 1 .. at[h] : regs'[s[k][1]] = s[k][2]
        <5> SUFFICES ASSUME NEW k \in 1 .. at[h] PROVE regs'[s[k][1]] = s[k][2]
          OBVIOUS
        <5>1. Len(s) \in Nat /\ k \in 1 .. Len(s) /\ s[k][1] \in DOMAIN regs
          BY <3>1, <4>1, StoresFacts DEF DmaType
        <5>2. CASE k = at[h]
          BY <4>2, <5>1, <5>2
        <5>3. CASE k # at[h]
          <6>1. k \in 1 .. at[h] - 1 /\ s[k][1] # s[at[h]][1]
            BY <3>1, <4>1, <5>1, <5>3, StoresFacts DEF DmaType
          <6> QED
            BY <4>2, <4>3, <5>1, <6>1
        <5> QED
          BY <5>2, <5>3
      <4>5. at'[h] \in 1 .. Len(s) + 1
        BY <3>1, <4>1, StoresFacts DEF DmaType
      <4> QED
        BY <3>3, <4>1, <4>4, <4>5 DEF StoredSoFar, DmaType
    <3>6. JobsInOrder'
      BY <2>2 DEF Store, JobsInOrder
    <3> QED
      BY <3>2, <3>4, <3>5, <3>6
  <2>3. ASSUME NEW h \in Harts, Launch(h) PROVE DmaInv'
    <3>1. Writing(h)
      <4>1. call[h] \in Calls /\ at[h] = Len(Stores(call[h])) + 1
        BY <2>3 DEF Launch, Launching, DmaType
      <4> QED
        BY <2>3, <4>1, StoresFacts DEF Launch, Launching, Writing
    <3>2. DmaType'
      <4>1. jobs' \in Seq(Nat) /\ next_id' \in Nat
        BY <2>3, AppendProperties DEF Launch, DmaType
      <4>2. owner' \in Harts \cup {NoHart}
        BY <2>3 DEF Launch
      <4>3. call' \in [Harts -> Calls \cup {NoCall}]
        BY <2>3 DEF Launch, DmaType
      <4>4. at' \in [Harts -> Nat]
        <5>1. at' = at \/ at' = [at EXCEPT ![h] = 0]
          BY <2>3 DEF Launch
        <5>2. at \in [Harts -> Nat]
          BY DEF DmaType
        <5> QED
          BY <5>1, <5>2
      <4>5. tf_id' \in [Harts -> Nat]
        BY <2>3 DEF Launch, DmaType
      <4> QED
        BY <2>3, <4>1, <4>2, <4>3, <4>4, <4>5 DEF Launch, DmaType
    <3>3. \A g \in Harts : ~ Writing(g)'
      BY <2>3, <3>1 DEF Launch, DmaType, Writing, WriterOwns
    <3>4. JobsInOrder'
      <4>1. /\ jobs' = Append(jobs, next_id) /\ next_id' = next_id + 1 /\ done' = done
            /\ jobs \in Seq(Nat) /\ next_id \in Nat /\ done \in Nat
        BY <2>3 DEF Launch, DmaType
      <4>2. /\ Len(jobs') = Len(jobs) + 1 /\ Len(jobs) \in Nat
            /\ \A k \in 1 .. Len(jobs) : jobs'[k] = jobs[k]
            /\ jobs'[Len(jobs) + 1] = next_id
        BY <4>1, AppendProperties, LenProperties
      <4>3. done' + Len(jobs') + 1 = next_id'
        BY <4>1, <4>2 DEF JobsInOrder
      <4>4. \A k \in 1 .. Len(jobs) + 1 : jobs'[k] = done + k
        <5> SUFFICES ASSUME NEW k \in 1 .. Len(jobs) + 1 PROVE jobs'[k] = done + k
          OBVIOUS
        <5>1. CASE k = Len(jobs) + 1
          BY <4>1, <4>2, <5>1 DEF JobsInOrder
        <5>2. CASE k # Len(jobs) + 1
          <6>1. k \in 1 .. Len(jobs)
            BY <4>2, <5>2
          <6> QED
            BY <4>2, <6>1 DEF JobsInOrder
        <5> QED
          BY <5>1, <5>2
      <4> QED
        BY <4>1, <4>2, <4>3, <4>4 DEF JobsInOrder
    <3> QED
      BY <3>2, <3>3, <3>4 DEF WriterOwns, StoredSoFar
  <2>4. ASSUME NEW h \in Harts, Wait(h) PROVE DmaInv'
    <3>1. DmaType'
      BY <2>4 DEF Wait, DmaType
    <3>2. \A g \in Harts : Writing(g)' => Writing(g) /\ g # h /\ call'[g] = call[g]
      BY <2>4 DEF Wait, DmaType, Writing
    <3>3. WriterOwns'
      BY <2>4, <3>2 DEF Wait, WriterOwns
    <3>4. StoredSoFar'
      BY <2>4, <3>2 DEF Wait, StoredSoFar
    <3>5. JobsInOrder'
      BY <2>4 DEF Wait, JobsInOrder
    <3> QED
      BY <3>1, <3>3, <3>4, <3>5
  <2>5. CASE Engine
    <3> DEFINE rest == Tail(jobs)
    <3>0. /\ jobs \in Seq(Nat) /\ jobs # <<>>
          /\ jobs' = rest /\ done' = Head(jobs) /\ next_id' = next_id
      BY <2>5 DEF Engine, DmaType
    <3>a. /\ Head(jobs) \in Nat /\ rest \in Seq(Nat) /\ Len(rest) = Len(jobs) - 1
          /\ \A i \in 1 .. Len(rest) : rest[i] = jobs[i + 1]
      BY <3>0, HeadTailProperties
    <3>b. Len(jobs) \in Nat /\ Len(jobs) > 0 /\ Head(jobs) = jobs[1]
      BY <3>0, <3>a, LenProperties
    <3>1. DmaType'
      BY <2>5, <3>0, <3>a DEF Engine, DmaType, hartVars
    <3>2. JobsInOrder'
      <4>1. Head(jobs) = done + 1
        BY <3>b DEF JobsInOrder, DmaType
      <4>2. \A k \in 1 .. Len(rest) : rest[k] = (done + 1) + k
        BY <3>a, <3>b DEF JobsInOrder, DmaType
      <4>3. (done + 1) + Len(rest) + 1 = next_id
        BY <3>a, <3>b DEF JobsInOrder, DmaType
      <4> HIDE DEF rest
      <4> QED
        BY <3>0, <4>1, <4>2, <4>3 DEF JobsInOrder
    <3>3. WriterOwns' /\ StoredSoFar'
      BY <2>5 DEF Engine, hartVars, WriterOwns, StoredSoFar, Writing
    <3> QED
      BY <3>1, <3>2, <3>3
  <2>6. CASE UNCHANGED vars
    BY <2>6 DEF vars, hartVars, DmaType, WriterOwns, StoredSoFar, JobsInOrder, Writing
  <2> QED
    BY <2>1, <2>2, <2>3, <2>4, <2>5, <2>6 DEF Next, Hart
<1> QED
  BY <1>1, <1>2, PTL DEF Spec

(* The transfer a hart launches is the one it was called for: the number *)
(* of repetitions, the strides and the options of an earlier copy never  *)
(* leak into it (dma.h:79-122).                                          *)
THEOREM LaunchIsRight == Spec => []LaunchesWhatWasAsked
<1>1. DmaInv => LaunchesWhatWasAsked
  <2> SUFFICES ASSUME DmaInv, NEW h \in Harts, Launching(h)
               PROVE  Copy(regs) = Asked(call[h])
    BY DEF LaunchesWhatWasAsked
  <2>1. call[h] \in Calls /\ at[h] = Len(Stores(call[h])) + 1
    BY DEF Launching, DmaInv, DmaType
  <2>2. Len(Stores(call[h])) \in Nat
    BY <2>1, StoresFacts
  <2>3. \A k \in 1 .. Len(Stores(call[h])) : regs[Stores(call[h])[k][1]] = Stores(call[h])[k][2]
    BY <2>1, <2>2 DEF DmaInv, StoredSoFar, Writing, Launching
  <2> QED
    BY <2>1, <2>3, AllStored
<1> QED
  BY <1>1, DriverState, PTL

(* A blocking copy returns only when its transfer and all before it are  *)
(* done, although it polls for equality with a counter that goes on      *)
(* (dma.h:84-90).                                                        *)
THEOREM ReturnIsAfterDone == Spec => ReturnsAfterDone
<1> DEFINE Return(h) == at[h] = 0 /\ call[h] # NoCall /\ call'[h] = NoCall
           Ends == \A h \in Harts : Return(h) => \A k \in DOMAIN jobs' : jobs'[k] > tf_id[h]
<1>1. DmaInv /\ [Next]_vars => [Ends]_vars
  <2> SUFFICES ASSUME DmaInv, Next, NEW h \in Harts, Return(h)
               PROVE  \A k \in DOMAIN jobs' : jobs'[k] > tf_id[h]
    OBVIOUS
  <2> USE DEF DmaInv
  <2>1. ASSUME NEW g \in Harts, NEW c \in Calls, Call(g, c) PROVE FALSE
    BY <2>1 DEF Call, DmaType
  <2>2. ASSUME NEW g \in Harts, Store(g) PROVE FALSE
    BY <2>2 DEF Store
  <2>3. ASSUME NEW g \in Harts, Launch(g) PROVE FALSE
    <3>1. call[g] \in Calls /\ at[g] # 0
      BY <2>3, StoresFacts DEF Launch, Launching, DmaType
    <3> QED
      BY <2>3, <3>1 DEF Launch, DmaType
  <2>4. ASSUME NEW g \in Harts, Wait(g) PROVE \A k \in DOMAIN jobs' : jobs'[k] > tf_id[h]
    <3>1. g = h /\ jobs' = jobs /\ done = tf_id[h]
      BY <2>4 DEF Wait, DmaType
    <3>2. DOMAIN jobs = 1 .. Len(jobs)
      BY LenProperties DEF DmaType
    <3> QED
      BY <3>1, <3>2 DEF DmaType, JobsInOrder
  <2>5. CASE Engine
    BY <2>5 DEF Engine, hartVars
  <2> QED
    BY <2>1, <2>2, <2>3, <2>4, <2>5 DEF Next, Hart
<1> QED
  BY <1>1, DriverState, PTL DEF Spec, ReturnsAfterDone

---------------------------------------------------------------------------
IsList(devs) == Len(devs) \in Nat /\ DOMAIN devs = 1 .. Len(devs)

(* The port counter grows with every device that takes a port.           *)
LEMMA TakenFacts ==
  ASSUME NEW devs, NEW k \in Nat
  PROVE  /\ IsFiniteSet(Taken(devs, k)) /\ Cardinality(Taken(devs, k)) \in 0 .. k
         /\ \A j \in 1 .. k : /\ Taken(devs, j) \subseteq Taken(devs, k)
                              /\ Cardinality(Taken(devs, j)) <= Cardinality(Taken(devs, k))
<1>1. /\ IsFiniteSet(Taken(devs, k)) /\ Cardinality(Taken(devs, k)) <= k
  <2>1. IsFiniteSet(1 .. k) /\ Cardinality(1 .. k) = k
    BY FS_Interval
  <2>2. Taken(devs, k) \in SUBSET (1 .. k)
    BY DEF Taken
  <2> QED
    BY <2>1, <2>2, FS_Subset
<1>2. Cardinality(Taken(devs, k)) \in Nat
  BY <1>1, FS_CardinalityType
<1>3. ASSUME NEW j \in 1 .. k
      PROVE  /\ Taken(devs, j) \subseteq Taken(devs, k)
             /\ Cardinality(Taken(devs, j)) <= Cardinality(Taken(devs, k))
  <2>1. Taken(devs, j) \in SUBSET Taken(devs, k)
    BY DEF Taken
  <2> QED
    BY <1>1, <2>1, FS_Subset
<1> QED
  BY <1>1, <1>2, <1>3

(* Counters at two devices that take a port differ.                      *)
LEMMA CountersDiffer ==
  ASSUME NEW devs, NEW l \in Nat, l \in Taken(devs, l), NEW k \in Nat, k < l
  PROVE  Cardinality(Taken(devs, k)) < Cardinality(Taken(devs, l))
<1>1. IsFiniteSet(Taken(devs, l)) /\ Taken(devs, k) \in SUBSET Taken(devs, l)
  <2>1. IsFiniteSet(Taken(devs, l))
    BY TakenFacts
  <2>2. Taken(devs, k) \in SUBSET Taken(devs, l)
    BY DEF Taken
  <2> QED
    BY <2>1, <2>2
<1>2. Taken(devs, k) # Taken(devs, l)
  BY DEF Taken
<1>3. /\ Cardinality(Taken(devs, k)) <= Cardinality(Taken(devs, l))
      /\ Cardinality(Taken(devs, k)) # Cardinality(Taken(devs, l))
  BY <1>1, <1>2, FS_Subset
<1> QED
  BY <1>3, TakenFacts

(* A list is numbered without a hole if its ports fit and a device that  *)
(* takes none comes after one that does.                                 *)
LEMMA ListIsDense ==
  ASSUME NEW devs, IsList(devs), NumPorts(devs) <= Indices,
         \A k \in DOMAIN devs : devs[k].on => Taken(devs, k) # {}
  PROVE  Dense(devs)
<1> DEFINE own == Taken(devs, Len(devs))
           N == Cardinality(own)
           f == [k \in own |-> Cardinality(Taken(devs, k)) - 1]
<1>1. IsFiniteSet(own) /\ N \in Nat /\ N <= 64
  BY TakenFacts DEF NumPorts, Indices, IsList
<1>2. ASSUME NEW k \in DOMAIN devs, devs[k].on
      PROVE  Cardinality(Taken(devs, k)) - 1 \in 0 .. N - 1
  <2>1. k \in 1 .. Len(devs)
    BY DEF IsList
  <2>2. IsFiniteSet(Taken(devs, k)) /\ Cardinality(Taken(devs, k)) \in Nat /\ Cardinality(Taken(devs, k)) <= N
    BY <2>1, TakenFacts DEF IsList
  <2>3. Cardinality(Taken(devs, k)) # 0
    BY <1>2, <2>2, FS_EmptySet
  <2> QED
    BY <2>2, <2>3, <1>1
<1>3. ASSUME NEW k \in DOMAIN devs, devs[k].on
      PROVE  Port(devs, k) = Cardinality(Taken(devs, k)) - 1
  <2> HIDE DEF own, N
  <2>1. Cardinality(Taken(devs, k)) - 1 \in 0 .. N - 1
    BY <1>2, <1>3
  <2> QED
    BY <1>1, <2>1 DEF Port, Index, Indices
<1>4. \A k \in own : k \in DOMAIN devs /\ devs[k].on /\ k \in Taken(devs, k) /\ k \in Nat
  BY DEF Taken, IsList
<1>5. f \in Injection(own, 0 .. N - 1)
  <2>1. f \in [own -> 0 .. N - 1]
    BY <1>2, <1>4
  <2>2. ASSUME NEW k \in own, NEW l \in own, f[k] = f[l]
        PROVE  k = l
    <3>1. Cardinality(Taken(devs, k)) = Cardinality(Taken(devs, l))
      <4>1. Cardinality(Taken(devs, k)) \in Nat /\ Cardinality(Taken(devs, l)) \in Nat
        BY <1>4, TakenFacts
      <4> QED
        BY <2>2, <4>1
    <3>2. CASE k < l
      BY <3>1, <3>2, <1>4, CountersDiffer, TakenFacts
    <3>3. CASE l < k
      BY <3>1, <3>3, <1>4, CountersDiffer, TakenFacts
    <3> QED
      BY <3>2, <3>3, <1>4
  <2> QED
    BY <2>1, <2>2 DEF Injection, IsInjective
<1>6. {f[k] : k \in own} = 0 .. N - 1
  <2>1. IsFiniteSet(0 .. N - 1) /\ Cardinality(0 .. N - 1) = N
    <3> HIDE DEF own, N
    <3>1. 0 \in Int /\ N - 1 \in Int
      BY <1>1
    <3>2. /\ IsFiniteSet(0 .. N - 1)
          /\ Cardinality(0 .. N - 1) = IF 0 > N - 1 THEN 0 ELSE N - 1 - 0 + 1
      BY <3>1, FS_Interval
    <3> QED
      BY <3>2, <1>1
  <2>2. f \in Surjection(own, 0 .. N - 1)
    <3> HIDE DEF f, own
    <3> QED
      BY <1>5, <2>1, FS_Injection
  <2> QED
    BY <1>5, <2>2 DEF Injection, Surjection
<1>7. {Port(devs, k) : k \in own} = 0 .. N - 1
  <2>1. \A k \in own : Port(devs, k) = f[k]
    BY <1>3, <1>4
  <2> QED
    BY <1>6, <2>1
<1> QED
  BY <1>1, <1>2, <1>3, <1>7 DEF Dense, NumPorts
---------------------------------------------------------------------------
(* A function on 1 .. n is a list.                                       *)
LEMMA ListIsSeq ==
  ASSUME NEW S, NEW n \in Nat, NEW f, f = [i \in 1 .. n |-> f[i]], \A i \in 1 .. n : f[i] \in S
  PROVE  f \in Seq(S) /\ Len(f) = n
<1>1. f \in [1 .. n -> S]
  BY Zenon
<1> QED
  BY <1>1

(* A list x is s followed by t, of m and n devices.                      *)
IsJoin(x, s, t, m, n) ==
  /\ Len(x) = m + n /\ DOMAIN x = 1 .. m + n
  /\ \A k \in 1 .. m : x[k] = s[k]
  /\ \A j \in 1 .. n : x[m + j] = t[j]

(* What \o does, in these terms.                                         *)
LEMMA Joined ==
  ASSUME NEW S, NEW s \in Seq(S), NEW t \in Seq(S), NEW m, NEW n, m = Len(s), n = Len(t)
  PROVE  s \o t \in Seq(S) /\ IsJoin(s \o t, s, t, m, n)
<1>1. /\ s \o t \in Seq(S) /\ Len(s \o t) = Len(s) + Len(t)
      /\ \A i \in 1 .. Len(s) + Len(t) :
           (s \o t)[i] = IF i <= Len(s) THEN s[i] ELSE t[i - Len(s)]
  BY ConcatProperties
<1> QED
  BY <1>1 DEF IsJoin

ClicOf(c, j) == Dev("clic", "Clic" \in c.on, 1, {Region(AmClic + (j - 1) * (256 * K), 256 * K)})
BusErrOf(c, j) == Dev("bus_err", "BusErr" \in c.on, 1, {Region(AmRegs + 32 * K + (j - 1) * 1, 1)})

(* The list of 2 * n + 17 devices, of which n and then n + 2 are alike.  *)
RegList(c, n) ==
  /\ IsList(RegDevs(c)) /\ Len(RegDevs(c)) = 2 * n + 17
  /\ \A k \in 1 .. 14 : RegDevs(c)[k] = Peripherals(c)[k]
  /\ \A j \in 1 .. n : RegDevs(c)[14 + j] = ClicOf(c, j)
  /\ \A j \in 1 .. n + 2 : RegDevs(c)[14 + n + j] = BusErrOf(c, j)
  /\ RegDevs(c)[2 * n + 17] = Dev("ext_reg", "Ext" \in c.on, 1, {Outside["ext_reg"]})

(* gen_reg_out lists the devices of the demux in this order.             *)
LEMMA RegDevsList ==
  ASSUME NEW c, NEW n \in Nat, n = c.NumCores
  PROVE  RegList(c, n)
<1> DEFINE clic == PerCore("clic", "Clic" \in c.on, n, AmClic, 256 * K)
           bus == PerCore("bus_err", "BusErr" \in c.on, n + 2, AmRegs + 32 * K, 1)
           last == Dev("ext_reg", "Ext" \in c.on, 1, {Outside["ext_reg"]})
           ext == << last >>
           S == {Peripherals(c)[i] : i \in 1 .. 14} \cup {clic[i] : i \in 1 .. n}
                \cup {bus[i] : i \in 1 .. n + 2} \cup {last}
           two == Peripherals(c) \o clic
           three == two \o bus
<1>1. clic = [j \in 1 .. n |-> ClicOf(c, j)]
  BY DEF PerCore, ClicOf
<1>2. bus = [j \in 1 .. n + 2 |-> BusErrOf(c, j)]
  BY DEF PerCore, BusErrOf
<1>3. Len(Peripherals(c)) = 14 /\ Peripherals(c) = [i \in 1 .. 14 |-> Peripherals(c)[i]]
  BY DEF Peripherals
<1>4. RegDevs(c) = three \o ext
  BY DEF RegDevs
<1> HIDE DEF clic, bus, last
<1>5. clic \in Seq(S) /\ Len(clic) = n
  <2>1. clic = [i \in 1 .. n |-> clic[i]]
    BY <1>1
  <2>2. \A i \in 1 .. n : clic[i] \in S
    OBVIOUS
  <2> HIDE DEF S
  <2> QED
    BY Zenon, <2>1, <2>2, ListIsSeq
<1>6. bus \in Seq(S) /\ Len(bus) = n + 2
  <2>1. bus \in [1 .. n + 2 -> S]
    BY <1>2
  <2> HIDE DEF S
  <2> QED
    BY <2>1
<1>7. Peripherals(c) \in Seq(S)
  <2>1. 14 \in Nat
    OBVIOUS
  <2>2. \A i \in 1 .. 14 : Peripherals(c)[i] \in S
    OBVIOUS
  <2> HIDE DEF S
  <2> QED
    BY Zenon, <2>1, <2>2, <1>3, ListIsSeq
<1>8. ext \in Seq(S) /\ Len(ext) = 1 /\ ext[1] = last
  <2>1. last \in S
    OBVIOUS
  <2> HIDE DEF S
  <2> QED
    BY <2>1
<1> HIDE DEF S, ext
<1>9. two \in Seq(S) /\ IsJoin(two, Peripherals(c), clic, 14, n)
  BY <1>3, <1>5, <1>7, Joined
<1> HIDE DEF two
<1>10. three \in Seq(S) /\ IsJoin(three, two, bus, 14 + n, n + 2)
  <2>1. Len(two) = 14 + n
    BY <1>9 DEF IsJoin
  <2> QED
    BY Zenon, <1>9, <1>6, <2>1, Joined
<1> HIDE DEF three
<1>11. IsJoin(RegDevs(c), three, ext, 2 * n + 16, 1)
  <2>1. Len(three) = 2 * n + 16
    BY <1>10 DEF IsJoin
  <2> QED
    BY Zenon, <1>4, <1>10, <1>8, <2>1, Joined
<1>12. IsList(RegDevs(c)) /\ Len(RegDevs(c)) = 2 * n + 17
  BY <1>11 DEF IsJoin, IsList
<1>13. ASSUME NEW k \in 1 .. 14
       PROVE  RegDevs(c)[k] = Peripherals(c)[k]
  <2>1. k \in 1 .. 14 + n /\ k \in 1 .. 2 * n + 16
    OBVIOUS
  <2>2. RegDevs(c)[k] = three[k] /\ three[k] = two[k] /\ two[k] = Peripherals(c)[k]
    BY Zenon, <2>1, <1>9, <1>10, <1>11 DEF IsJoin
  <2> QED
    BY <2>2
<1>14. ASSUME NEW j \in 1 .. n
       PROVE  RegDevs(c)[14 + j] = clic[j]
  <2>1. 14 + j \in 1 .. 14 + n /\ 14 + j \in 1 .. 2 * n + 16
    OBVIOUS
  <2>2. RegDevs(c)[14 + j] = three[14 + j] /\ three[14 + j] = two[14 + j] /\ two[14 + j] = clic[j]
    BY Zenon, <2>1, <1>9, <1>10, <1>11 DEF IsJoin
  <2> QED
    BY <2>2
<1>15. ASSUME NEW j \in 1 .. n + 2
       PROVE  RegDevs(c)[14 + n + j] = bus[j]
  <2>1. 14 + n + j \in 1 .. 2 * n + 16
    OBVIOUS
  <2>2. RegDevs(c)[14 + n + j] = three[14 + n + j] /\ three[14 + n + j] = bus[j]
    BY Zenon, <2>1, <1>10, <1>11 DEF IsJoin
  <2> QED
    BY <2>2
<1>16. RegDevs(c)[2 * n + 17] = last
  BY <1>8, <1>11 DEF IsJoin
<1>17. \A j \in 1 .. n : RegDevs(c)[14 + j] = ClicOf(c, j)
  BY <1>1, <1>14
<1>18. \A j \in 1 .. n + 2 : RegDevs(c)[14 + n + j] = BusErrOf(c, j)
  BY <1>2, <1>15
<1> QED
  BY Zenon, <1>12, <1>13, <1>16, <1>17, <1>18 DEF RegList, last

(* The regions of the devices that do not depend on the cores.           *)
LEMMA PeripheralFacts ==
  ASSUME NEW c
  PROVE  /\ Peripherals(c)[1].ports = 1 /\ Peripherals(c)[1].regions = {}
         /\ Peripherals(c)[2].ports = 1 /\ Peripherals(c)[2].regions = {Region(AmReg + 256 * K, 256 * K)}
         /\ Peripherals(c)[3].ports = 1 /\ Peripherals(c)[3].regions = {Region(64 * M, 64 * M)}
         /\ Peripherals(c)[4].ports = 1 /\ Peripherals(c)[4].regions = {Region(AmRegs + 0 * 4 * K, 4 * K)}
         /\ Peripherals(c)[5].ports = 1 /\ Peripherals(c)[5].regions = {Region(AmReg, 256 * K)}
         /\ Peripherals(c)[6].ports = 1 /\ Peripherals(c)[6].regions = {Region(AmRegs + 1 * 4 * K, 4 * K)}
         /\ Peripherals(c)[7].ports = 1 /\ Peripherals(c)[7].regions = {Region(AmRegs + 2 * 4 * K, 4 * K)}
         /\ Peripherals(c)[8].ports = 1 /\ Peripherals(c)[8].regions = {Region(AmRegs + 3 * 4 * K, 4 * K)}
         /\ Peripherals(c)[9].ports = 1 /\ Peripherals(c)[9].regions = {Region(AmRegs + 4 * 4 * K, 4 * K)}
         /\ Peripherals(c)[10].ports = 1 /\ Peripherals(c)[10].regions = {Region(AmRegs + 5 * 4 * K, 4 * K)}
         /\ Peripherals(c)[11].ports = 1 /\ Peripherals(c)[11].regions = {Region(AmRegs + 6 * 4 * K, 4 * K)}
         /\ Peripherals(c)[12].ports = 1 /\ Peripherals(c)[12].regions = {Region(AmRegs + 7 * 4 * K, 4 * K)}
         /\ Peripherals(c)[13].ports = 1 /\ Peripherals(c)[13].regions = {Region(AmReg + 512 * K, 256 * K)}
         /\ Peripherals(c)[14].ports = 1 /\ Peripherals(c)[14].regions = {Region(AmReg + 768 * K, 256 * K)}
  BY DEF Peripherals, Page4K, Dev

(* Where a device of the register demux is, and that it takes a port.    *)
RegWindow(k, n, a) ==
  \/ k = 2 /\ In(a, Region(AmReg + 256 * K, 256 * K))
  \/ k = 3 /\ In(a, Region(64 * M, 64 * M))
  \/ k = 4 /\ In(a, Region(AmRegs, 4 * K))
  \/ k = 5 /\ In(a, Region(AmReg, 256 * K))
  \/ k \in 6 .. 12 /\ In(a, Region(AmRegs + (k - 5) * 4 * K, 4 * K))
  \/ k = 13 /\ In(a, Region(AmReg + 512 * K, 256 * K))
  \/ k = 14 /\ In(a, Region(AmReg + 768 * K, 256 * K))
  \/ k \in 15 .. 14 + n /\ In(a, Region(AmClic + (k - 15) * (256 * K), 256 * K))
  \/ k \in 15 + n .. 2 * n + 16 /\ a = AmRegs + 32 * K + (k - 15 - n)
  \/ k = 2 * n + 17 /\ In(a, Outside["ext_reg"])

(* Every device of the demux takes a port and is in its window.          *)
LEMMA RegDevFacts ==
  ASSUME NEW c, NEW n \in Nat, n = c.NumCores, NEW k \in 1 .. 2 * n + 17
  PROVE  /\ RegDevs(c)[k].ports = 1
         /\ \A a \in Nat : (\E r \in RegDevs(c)[k].regions : In(a, r)) => RegWindow(k, n, a)
         /\ k = 2 * n + 17 => /\ RegDevs(c)[k].on <=> "Ext" \in c.on
                             /\ RegDevs(c)[k].regions = {Outside["ext_reg"]}
<1>0. RegList(c, n)
  BY RegDevsList
<1>1. \/ k \in 1 .. 14
      \/ k - 14 \in 1 .. n /\ 14 + (k - 14) = k
      \/ k - 14 - n \in 1 .. n + 2 /\ 14 + n + (k - 14 - n) = k
      \/ k = 2 * n + 17
  OBVIOUS
<1>2. CASE k \in 1 .. 14
  <2>1. RegDevs(c)[k] = Peripherals(c)[k]
    BY Zenon, <1>2, <1>0 DEF RegList
  <2>2. ASSUME NEW a \in Nat, NEW r \in Peripherals(c)[k].regions, In(a, r)
        PROVE  RegWindow(k, n, a)
    <3>1. \/ k = 1 /\ r \in {}
          \/ k = 2 /\ r = Region(AmReg + 256 * K, 256 * K)
          \/ k = 3 /\ r = Region(64 * M, 64 * M)
          \/ k \in {4, 6, 7, 8, 9, 10, 11, 12} /\ r = Region(AmRegs + (IF k = 4 THEN 0 ELSE k - 5) * 4 * K, 4 * K)
          \/ k = 5 /\ r = Region(AmReg, 256 * K)
          \/ k = 13 /\ r = Region(AmReg + 512 * K, 256 * K)
          \/ k = 14 /\ r = Region(AmReg + 768 * K, 256 * K)
      BY <1>2, <2>2, PeripheralFacts
    <3> QED
      BY <1>2, <2>2, <3>1 DEF In, Region, AmReg, AmRegs, M, K, RegWindow
  <2> QED
    BY <1>2, <2>1, <2>2, PeripheralFacts
<1>3. CASE k - 14 \in 1 .. n /\ 14 + (k - 14) = k
  <2>1. RegDevs(c)[14 + (k - 14)] = ClicOf(c, k - 14)
    BY Zenon, <1>3, <1>0 DEF RegList
  <2>2. RegDevs(c)[k] = ClicOf(c, k - 14)
    BY Zenon, <1>3, <2>1
  <2> QED
    BY <1>3, <2>2 DEF ClicOf, Dev, In, Region, AmClic, M, K, RegWindow
<1>4. CASE k - 14 - n \in 1 .. n + 2 /\ 14 + n + (k - 14 - n) = k
  <2>1. RegDevs(c)[14 + n + (k - 14 - n)] = BusErrOf(c, k - 14 - n)
    BY Zenon, <1>4, <1>0 DEF RegList
  <2>2. RegDevs(c)[k] = BusErrOf(c, k - 14 - n)
    BY Zenon, <1>4, <2>1
  <2>3. ASSUME NEW a \in Nat, In(a, Region(AmRegs + 32 * K + (k - 14 - n - 1) * 1, 1))
        PROVE  a = AmRegs + 32 * K + (k - 15 - n)
    BY <2>3 DEF In, Region, AmRegs, M, K
  <2>4. k \in 15 + n .. 2 * n + 16 /\ k # 2 * n + 17
    BY <1>4
  <2>5. /\ RegDevs(c)[k].ports = 1
        /\ RegDevs(c)[k].regions = {Region(AmRegs + 32 * K + (k - 14 - n - 1) * 1, 1)}
    BY <2>2 DEF BusErrOf, Dev
  <2>6. ASSUME NEW a \in Nat, NEW r \in RegDevs(c)[k].regions, In(a, r)
        PROVE  RegWindow(k, n, a)
    <3>1. a = AmRegs + 32 * K + (k - 15 - n)
      BY <2>3, <2>5, <2>6
    <3> QED
      BY Zenon, <3>1, <2>4 DEF RegWindow
  <2> QED
    BY <2>4, <2>5, <2>6
<1>5. CASE k = 2 * n + 17
  <2>1. RegDevs(c)[k] = Dev("ext_reg", "Ext" \in c.on, 1, {Outside["ext_reg"]})
    BY Zenon, <1>5, <1>0 DEF RegList
  <2>2. /\ RegDevs(c)[k].ports = 1
        /\ RegDevs(c)[k].regions = {Outside["ext_reg"]}
    BY <2>1 DEF Dev
  <2>3. RegDevs(c)[k].on <=> "Ext" \in c.on
    <3>1. ASSUME NEW x \in BOOLEAN, NEW d, d = Dev("ext_reg", x, 1, {Outside["ext_reg"]})
          PROVE  d.on = x
      BY <3>1 DEF Dev
    <3>2. ("Ext" \in c.on) \in BOOLEAN
      OBVIOUS
    <3>3. RegDevs(c)[k].on = ("Ext" \in c.on)
      BY <2>1, <3>1, <3>2
    <3> QED
      BY <3>3
  <2>4. ASSUME NEW a \in Nat, NEW r \in RegDevs(c)[k].regions, In(a, r)
        PROVE  RegWindow(k, n, a)
    <3>1. In(a, Outside["ext_reg"])
      BY <2>2, <2>4
    <3> QED
      BY Zenon, <1>5, <3>1 DEF RegWindow
  <2> QED
    BY Zenon, <1>5, <2>2, <2>3, <2>4
<1> QED
  BY <1>1, <1>2, <1>3, <1>4, <1>5

(* Every manager of the crossbar takes a port.                           *)
LEMMA AxiMstsList ==
  ASSUME NEW c, NEW n \in Nat, n = c.NumCores
  PROVE  /\ IsList(AxiMsts(c)) /\ Len(AxiMsts(c)) = n + 5
         /\ \A k \in 1 .. n + 5 : AxiMsts(c)[k].ports = 1
<1> DEFINE cores == PerCore("core", TRUE, n, 0, 0)
           rest == << Dev("dbg", TRUE, 1, {}), Dev("dma", "Dma" \in c.on, 1, {}),
                      Dev("slink", "SerialLink" \in c.on, 1, {}), Dev("vga", "Vga" \in c.on, 1, {}),
                      Dev("ext_mst", "Ext" \in c.on, 1, {}) >>
           S == {cores[i] : i \in 1 .. n} \cup {rest[i] : i \in 1 .. 5}
<1>1. cores = [i \in 1 .. n |-> cores[i]] /\ \A i \in 1 .. n : cores[i].ports = 1
  BY DEF PerCore, Dev
<1>2. Len(rest) = 5 /\ rest = [i \in 1 .. 5 |-> rest[i]] /\ \A i \in 1 .. 5 : rest[i].ports = 1
  <2>1. Len(rest) = 5 /\ rest = [i \in 1 .. 5 |-> rest[i]]
    OBVIOUS
  <2>2. \A i \in 1 .. 5 : rest[i].ports = 1
    BY DEF Dev
  <2> QED
    BY <2>1, <2>2
<1>3. AxiMsts(c) = cores \o rest
  BY DEF AxiMsts
<1> HIDE DEF cores, rest
<1>4. cores \in Seq(S) /\ Len(cores) = n
  <2>1. \A i \in 1 .. n : cores[i] \in S
    OBVIOUS
  <2> HIDE DEF S
  <2> QED
    BY Zenon, <2>1, <1>1, ListIsSeq
<1>5. rest \in Seq(S)
  <2>1. 5 \in Nat
    OBVIOUS
  <2>2. \A i \in 1 .. 5 : rest[i] \in S
    OBVIOUS
  <2> HIDE DEF S
  <2> QED
    BY Zenon, <2>1, <2>2, <1>2, ListIsSeq
<1> HIDE DEF S
<1>6. IsJoin(AxiMsts(c), cores, rest, n, 5)
  <2>1. Len(rest) = 5
    BY <1>2
  <2> QED
    BY Zenon, <2>1, <1>3, <1>4, <1>5, Joined
<1>7. IsList(AxiMsts(c)) /\ Len(AxiMsts(c)) = n + 5
  BY <1>6 DEF IsJoin, IsList
<1>8. ASSUME NEW k \in 1 .. n + 5
      PROVE  AxiMsts(c)[k].ports = 1
  <2>1. CASE k \in 1 .. n
    BY <2>1, <1>1, <1>6 DEF IsJoin
  <2>2. CASE k \notin 1 .. n
    <3>1. k - n \in 1 .. 5 /\ n + (k - n) = k
      BY <2>2
    <3>2. AxiMsts(c)[n + (k - n)] = rest[k - n]
      BY Zenon, <3>1, <1>6 DEF IsJoin
    <3> QED
      BY <3>1, <3>2, <1>2
  <2> QED
    BY <2>1, <2>2
<1> QED
  BY <1>7, <1>8

(* The subordinates of the crossbar; all but the scratchpad take a port. *)
LEMMA AxiDevsList ==
  ASSUME NEW c
  PROVE  /\ IsList(AxiDevs(c)) /\ Len(AxiDevs(c)) = 7
         /\ AxiDevs(c)[1].on /\ AxiDevs(c)[2].on
         /\ \A k \in 1 .. 7 : k # 4 => AxiDevs(c)[k].ports = 1
         /\ AxiDevs(c)[3].on <=> "LlcOutConnect" \in c.on
         /\ AxiDevs(c)[4].on <=> "LlcNotBypass" \in c.on
<1>1. Len(AxiDevs(c)) = 7 /\ DOMAIN AxiDevs(c) = 1 .. 7
  BY DEF AxiDevs
<1>2. AxiDevs(c)[1].on /\ AxiDevs(c)[2].on
  BY DEF AxiDevs, Dev
<1>3. \A k \in 1 .. 7 : k # 4 => AxiDevs(c)[k].ports = 1
  BY DEF AxiDevs, Dev
<1>4. AxiDevs(c)[3].on <=> "LlcOutConnect" \in c.on
  BY DEF AxiDevs, Dev
<1>5. AxiDevs(c)[4].on <=> "LlcNotBypass" \in c.on
  BY DEF AxiDevs, Dev
<1> QED
  BY <1>1, <1>2, <1>3, <1>4, <1>5 DEF IsList
---------------------------------------------------------------------------
(* All three lists are numbered without a hole.                          *)
LEMMA ListsAreDense ==
  ASSUME NEW c \in Configs
  PROVE  Dense(AxiDevs(c)) /\ Dense(RegDevs(c)) /\ Dense(AxiMsts(c))
<1>1. c.NumCores \in Nat /\ c.NumCores <= 31
  BY ConfigsAssumption DEF MaxCores
<1>2. Dense(AxiDevs(c))
  <2>1. IsList(AxiDevs(c)) /\ Len(AxiDevs(c)) = 7
    BY AxiDevsList
  <2>2. NumPorts(AxiDevs(c)) <= Indices
    <3>1. Cardinality(Taken(AxiDevs(c), 7)) \in 0 .. 7
      BY TakenFacts
    <3> QED
      BY <2>1, <3>1 DEF NumPorts, Indices
  <2>3. \A k \in 1 .. 7 : 1 \in Taken(AxiDevs(c), k)
    BY AxiDevsList DEF Taken
  <2> QED
    BY <2>1, <2>2, <2>3, ListIsDense DEF IsList
<1>3. Dense(RegDevs(c))
  <2> DEFINE n == c.NumCores
  <2>1. IsList(RegDevs(c)) /\ Len(RegDevs(c)) = 2 * n + 17
    <3>1. RegList(c, n)
      BY <1>1, RegDevsList
    <3> QED
      BY Zenon, <3>1 DEF RegList
  <2> HIDE DEF n
  <2>2. ASSUME NEW k \in DOMAIN RegDevs(c), RegDevs(c)[k].on
        PROVE  k \in Taken(RegDevs(c), k)
    <3>1. k \in 1 .. 2 * n + 17 /\ n \in Nat /\ n = c.NumCores
      BY <2>1, <1>1 DEF IsList, n
    <3>2. RegDevs(c)[k].ports = 1
      BY <3>1, RegDevFacts
    <3> QED
      BY <3>1, <3>2, <2>2 DEF Taken
  <2>3. NumPorts(RegDevs(c)) <= Indices
    BY PortsFit
  <2> QED
    BY <2>1, <2>2, <2>3, ListIsDense
<1>4. Dense(AxiMsts(c))
  <2>1. /\ IsList(AxiMsts(c)) /\ Len(AxiMsts(c)) = c.NumCores + 5
        /\ \A k \in 1 .. c.NumCores + 5 : AxiMsts(c)[k].ports = 1
    BY Zenon, <1>1, AxiMstsList
  <2>2. NumPorts(AxiMsts(c)) <= Indices
    <3>1. Cardinality(Taken(AxiMsts(c), c.NumCores + 5)) \in 0 .. c.NumCores + 5
      BY <1>1, TakenFacts
    <3> QED
      BY <2>1, <1>1, <3>1 DEF NumPorts, Indices
  <2>3. \A k \in DOMAIN AxiMsts(c) : AxiMsts(c)[k].on => k \in Taken(AxiMsts(c), k)
    BY <2>1, <1>1 DEF Taken, IsList
  <2> QED
    BY <2>1, <2>2, <2>3, ListIsDense
<1> QED
  BY <1>2, <1>3, <1>4
---------------------------------------------------------------------------
(* The same for the crossbar.                                            *)
AxiWindow(k, a) ==
  \/ k = 1 /\ In(a, Region(AmDbg, 256 * K))
  \/ k = 2 /\ In(a, Region(AmReg, 96 * M))
  \/ k = 3 /\ In(a, Outside["llc_out"])
  \/ k = 4 /\ (In(a, Region(AmSpm, SizeSpm)) \/ In(a, Region(AmSpm + 64 * M, SizeSpm)))
  \/ k = 5 /\ In(a, Region(AmDma, 4 * K))
  \/ k = 6 /\ In(a, Outside["slink"])
  \/ k = 7 /\ In(a, Outside["ext_axi"])

InDemux(a) == In(a, Region(AmReg, 96 * M))
InExtReg(a) == In(a, Outside["ext_reg"])

(* Every subordinate of the crossbar is in its window.                   *)
LEMMA AxiDevFacts ==
  ASSUME NEW c
  PROVE  /\ \A k \in 1 .. 7 : \A a : (\E r \in AxiDevs(c)[k].regions : In(a, r)) => AxiWindow(k, a)
         /\ AxiDevs(c)[2].regions = {Region(AmReg, 96 * M)}
<1>1. /\ AxiDevs(c)[1].regions = {Region(AmDbg, 256 * K)}
      /\ AxiDevs(c)[2].regions = {Region(AmReg, 96 * M)}
      /\ AxiDevs(c)[3].regions = {Outside["llc_out"]}
      /\ AxiDevs(c)[4].regions = {Region(AmSpm, SizeSpm), Region(AmSpm + 64 * M, SizeSpm)}
      /\ AxiDevs(c)[5].regions = {Region(AmDma, 4 * K)}
      /\ AxiDevs(c)[6].regions = {Outside["slink"]}
      /\ AxiDevs(c)[7].regions = {Outside["ext_axi"]}
  BY DEF AxiDevs, Dev
<1>2. ASSUME NEW k \in 1 .. 7, NEW a, NEW r \in AxiDevs(c)[k].regions, In(a, r)
      PROVE  AxiWindow(k, a)
  <2>1. k \in {1, 2, 3, 4, 5, 6, 7}
    OBVIOUS
  <2> QED
    BY <2>1, <1>1, <1>2 DEF AxiWindow
<1> QED
  BY <1>1, <1>2

(* An address outside belongs to one resource and to nothing internal.   *)
LEMMA OutsideIsAbove ==
  ASSUME NEW a \in Nat, NEW x \in Resources, In(a, Outside[x])
  PROVE  512 * M <= a /\ \A y \in Resources : In(a, Outside[y]) => x = y
<1>1. /\ Outside[x].start \in Nat /\ Outside[x].pte \in Nat /\ 512 * M <= Outside[x].start
      /\ Outside[x].start <= a /\ a < Outside[x].pte /\ M \in Nat
  BY OutsideAssumption DEF In, M, K
<1>2. ASSUME NEW y \in Resources, In(a, Outside[y]), x # y
      PROVE  FALSE
  <2>1. /\ Outside[y].start \in Nat /\ Outside[y].pte \in Nat
        /\ Outside[y].start <= a /\ a < Outside[y].pte
        /\ Outside[x].pte <= Outside[y].start \/ Outside[y].pte <= Outside[x].start
    BY <1>2, OutsideAssumption DEF In
  <2> QED
    BY <1>1, <2>1
<1> QED
  BY <1>1, <1>2

(* The windows of the crossbar in order; a scratchpad fits its 64 MiB.   *)
LEMMA AxiBounds ==
  ASSUME NEW a \in Nat, NEW k \in Nat, AxiWindow(k, a)
  PROVE  \/ k = 1 /\ a < 256 * K
         \/ k = 2 /\ 32 * M <= a /\ a < 128 * M
         \/ k = 4 /\ 256 * M <= a /\ a < 384 * M
         \/ k = 5 /\ 16 * M <= a /\ a < 16 * M + 4 * K
         \/ k \in {3, 6, 7} /\ 512 * M <= a
<1>1. SizeSpm \in Nat /\ SizeSpm <= 64 * M
  <2>1. M \in Nat
    BY DEF M, K
  <2> QED
    BY <2>1, SpmAssumption
<1>2. CASE k = 4
  <2>1. CASE In(a, Region(AmSpm, SizeSpm))
    BY <1>1, <1>2, <2>1 DEF In, Region, AmSpm, M, K
  <2>2. CASE In(a, Region(AmSpm + 64 * M, SizeSpm))
    BY <1>1, <1>2, <2>2 DEF In, Region, AmSpm, M, K
  <2> QED
    BY <1>2, <2>1, <2>2 DEF AxiWindow
<1>3. CASE k \in {3, 6, 7}
  BY <1>3, OutsideIsAbove DEF AxiWindow, Resources
<1>4. CASE k \notin {3, 4, 6, 7}
  BY <1>4 DEF AxiWindow, In, Region, AmDbg, AmReg, AmDma, M, K
<1> QED
  BY <1>2, <1>3, <1>4

(* No two subordinates of the crossbar share an address.                 *)
LEMMA AxiSole ==
  ASSUME NEW a \in Nat, NEW k \in Nat, NEW l \in Nat, AxiWindow(k, a), AxiWindow(l, a)
  PROVE  k = l
<1>1. CASE k \in {3, 6, 7} /\ l \in {3, 6, 7}
  BY <1>1, OutsideIsAbove DEF AxiWindow, Resources
<1>2. CASE ~ (k \in {3, 6, 7} /\ l \in {3, 6, 7})
  BY <1>2, AxiBounds DEF M, K
<1> QED
  BY <1>1, <1>2

(* No two devices of the demux share an address.                         *)
LEMMA RegSole ==
  ASSUME NEW n \in 1 .. 31, NEW a \in Nat, NEW k \in Nat, NEW l \in Nat, RegWindow(k, n, a), RegWindow(l, n, a)
  PROVE  k = l
<1>1. CASE k = 2 * n + 17 \/ l = 2 * n + 17
  <2>1. 512 * M <= a
    BY <1>1, OutsideIsAbove DEF RegWindow, Resources
  <2>2. k \notin 1 .. 2 * n + 16 /\ l \notin 1 .. 2 * n + 16
    BY <2>1 DEF RegWindow, In, Region, AmReg, AmRegs, AmClic, M, K
  <2> QED
    BY <2>2 DEF RegWindow
<1>2. CASE k # 2 * n + 17 /\ l # 2 * n + 17
  BY <1>2 DEF RegWindow, In, Region, AmReg, AmRegs, AmClic, M, K
<1> QED
  BY <1>1, <1>2

(* The registers behind the demux are where the crossbar leads to it.    *)
LEMMA RegInDemux ==
  ASSUME NEW n \in 1 .. 31, NEW a \in Nat, NEW k \in Nat, RegWindow(k, n, a), ~ InClic(a)
  PROVE  InDemux(a) \/ (k = 2 * n + 17 /\ InExtReg(a))
<1>1. CASE k \in 1 .. 14
  <2>1. AmReg <= a /\ a < AmReg + 96 * M
    BY <1>1 DEF RegWindow, In, Region, AmReg, AmRegs, AmClic, M, K
  <2> QED
    BY <2>1 DEF InDemux, In, Region, AmReg, M, K
<1>2. CASE k \in 15 .. 14 + n
  <2>1. AmClic <= a /\ a < AmSpm
    BY <1>2 DEF RegWindow, In, Region, AmClic, AmSpm, M, K
  <2> QED
    BY <2>1 DEF InClic
<1>3. CASE k \in 15 + n .. 2 * n + 16
  <2>1. AmReg <= a /\ a < AmReg + 96 * M
    BY <1>3 DEF RegWindow, AmReg, AmRegs, M, K
  <2> QED
    BY <2>1 DEF InDemux, In, Region, AmReg, M, K
<1>4. CASE k \notin 1 .. 14 /\ k \notin 15 .. 14 + n /\ k \notin 15 + n .. 2 * n + 16
  BY <1>4 DEF RegWindow, InExtReg
<1> QED
  BY <1>1, <1>2, <1>3, <1>4

(* Where the crossbar leads to the demux, it has no other device.        *)
LEMMA AxiApart ==
  ASSUME NEW a \in Nat, NEW k \in Nat, AxiWindow(k, a), k # 2
  PROVE  ~ InDemux(a) /\ ~ InExtReg(a)
<1>1. ~ InDemux(a)
  BY AxiBounds DEF InDemux, In, Region, AmReg, M, K
<1>2. ASSUME InExtReg(a)
      PROVE  FALSE
  <2>1. 512 * M <= a /\ \A x \in Resources : In(a, Outside[x]) => x = "ext_reg"
    BY <1>2, OutsideIsAbove DEF InExtReg, Resources
  <2>2. k \in {3, 6, 7}
    BY <2>1, AxiBounds DEF M, K
  <2> QED
    BY <2>1, <2>2 DEF AxiWindow, Resources
<1> QED
  BY <1>1, <1>2

(* Only the demux is at port 1 of the crossbar.                          *)
LEMMA PortOfDemux ==
  ASSUME NEW c \in Configs, NEW k \in 1 .. 7, AxiDevs(c)[k].on
  PROVE  Port(AxiDevs(c), k) = 1 <=> k = 2
<1> DEFINE D == AxiDevs(c)
           C(j) == Cardinality(Taken(D, j))
<1>1. /\ D[1].on /\ D[2].on /\ \A j \in 1 .. 7 : j # 4 => D[j].ports = 1
      /\ D[4].on => D[3].on
  BY AxiDevsList, ConfigsAssumption
<1> HIDE DEF D
<1>2. \A j \in 1 .. 7 : C(j) \in 0 .. j
  BY TakenFacts
<1>3. \A j \in 1 .. 7 : j # 4 /\ D[j].on => j \in Taken(D, j)
  BY <1>1 DEF Taken
<1>4. \A i, j \in 1 .. 7 : i < j /\ j # 4 /\ D[j].on => C(i) < C(j)
  BY <1>3, CountersDiffer
<1>5. C(1) = 1
  <2>1. C(1) # 0
    BY <1>1, <1>3, TakenFacts, FS_EmptySet
  <2> QED
    BY <1>2, <2>1
<1>6. C(2) = 2
  BY <1>1, <1>2, <1>4, <1>5
<1>7. D[4].on => C(3) <= C(4) /\ 2 < C(3)
  BY <1>1, <1>4, <1>6, TakenFacts
<1>8. C(k) = 2 <=> k = 2
  <2>1. D[k].on
    BY DEF D
  <2> QED
    BY <2>1, <1>1, <1>2, <1>4, <1>5, <1>6, <1>7
<1>9. C(1) <= C(k)
  BY TakenFacts
<1>10. Port(D, k) = (C(k) - 1) % 64
  BY DEF Port, Index, Indices
<1> HIDE DEF C
<1>11. Port(D, k) = C(k) - 1 /\ C(k) \in 1 .. 7
  BY <1>2, <1>5, <1>9, <1>10
<1> QED
  BY <1>8, <1>11 DEF D
---------------------------------------------------------------------------
(* The rules that match are those of the devices that hold the address.  *)
LEMMA MatchingRules ==
  ASSUME NEW devs, NEW a
  PROVE  /\ \A u \in Matching(RulesOf(devs), a) :
              u.place \in Holders(devs, a) /\ u.idx = Port(devs, u.place)
         /\ \A k \in Holders(devs, a) :
              \E u \in Matching(RulesOf(devs), a) : u.place = k /\ u.idx = Port(devs, k)
<1>1. ASSUME NEW u \in Matching(RulesOf(devs), a)
      PROVE  u.place \in Holders(devs, a) /\ u.idx = Port(devs, u.place)
  <2>1. PICK k \in DOMAIN devs : /\ devs[k].on
                                 /\ \E r \in devs[k].regions : u = [place |-> k, idx |-> Port(devs, k), region |-> r]
    BY Zenon DEF Matching, RulesOf
  <2>2. PICK r \in devs[k].regions : u = [place |-> k, idx |-> Port(devs, k), region |-> r]
    BY <2>1
  <2>3. u.place = k /\ u.idx = Port(devs, k) /\ u.region = r
    BY <2>2
  <2>4. In(a, r)
    BY <2>3 DEF Matching
  <2> QED
    BY Zenon, <2>1, <2>3, <2>4 DEF Holders
<1>2. ASSUME NEW k \in Holders(devs, a)
      PROVE  \E u \in Matching(RulesOf(devs), a) : u.place = k /\ u.idx = Port(devs, k)
  <2>1. PICK r \in devs[k].regions : k \in DOMAIN devs /\ devs[k].on /\ In(a, r)
    BY Zenon DEF Holders
  <2> DEFINE u == [place |-> k, idx |-> Port(devs, k), region |-> r]
  <2>2. u \in RulesOf(devs)
    <3>1. u \in {[place |-> k, idx |-> Port(devs, k), region |-> x] : x \in devs[k].regions}
      BY <2>1
    <3>2. k \in {j \in DOMAIN devs : devs[j].on}
      BY <2>1
    <3> QED
      BY <3>1, <3>2 DEF RulesOf
  <2>3. u.place = k /\ u.idx = Port(devs, k) /\ u.region = r
    OBVIOUS
  <2> HIDE DEF u
  <2> QED
    BY Zenon, <2>1, <2>2, <2>3 DEF Matching
<1> QED
  BY <1>1, <1>2

(* If all rules that match are of one device, the last is, too.          *)
LEMMA LastOfAlike ==
  ASSUME NEW m, m # {}, NEW k \in Int, NEW p, \A u \in m : u.place = k /\ u.idx = p
  PROVE  Last(m).idx = p
<1>1. \E u \in m : \A v \in m : v.place <= u.place
  <2>1. PICK u \in m : TRUE
    OBVIOUS
  <2>2. \A v \in m : v.place <= u.place
    <3>1. k <= k
      OBVIOUS
    <3> QED
      BY <3>1
  <2> QED
    BY <2>2
<1>2. Last(m) \in m
  BY Zenon, <1>1 DEF Last
<1> QED
  BY <1>2

(* The demux answers with the one device that has the address, if any.   *)
LEMMA RegDecoded ==
  ASSUME NEW c \in Configs, NEW a \in Nat
  PROVE  LET m == Matching(RulesOf(RegDevs(c)), a)
             h == Holders(RegDevs(c), a) IN
         /\ m = {} => h = {}
         /\ m # {} => \E k \in h : h = {k} /\ Last(m).idx = Port(RegDevs(c), k)
<1> DEFINE devs == RegDevs(c)
           m == Matching(RulesOf(devs), a)
           h == Holders(devs, a)
           n == c.NumCores
<1>1. n \in 1 .. 31
  BY ConfigsAssumption DEF MaxCores
<1>2. DOMAIN devs = 1 .. 2 * n + 17
  <2>1. RegList(c, n)
    BY <1>1, RegDevsList
  <2> QED
    BY Zenon, <2>1 DEF RegList, IsList
<1> HIDE DEF n
<1>3. \A k \in h : k \in 1 .. 2 * n + 17 /\ RegWindow(k, n, a)
  <2>1. ASSUME NEW k \in h
        PROVE  k \in 1 .. 2 * n + 17 /\ RegWindow(k, n, a)
    <3>1. k \in 1 .. 2 * n + 17 /\ \E r \in devs[k].regions : In(a, r)
      BY Zenon, <1>2 DEF Holders
    <3>2. n \in Nat /\ n = c.NumCores
      BY <1>1 DEF n
    <3> QED
      BY Zenon, <3>1, <3>2, RegDevFacts
  <2> QED
    BY <2>1
<1>4. \A k, l \in h : k = l
  <2>1. \A k \in h : k \in Nat
    BY <1>1, <1>3
  <2> HIDE DEF h
  <2> QED
    BY Zenon, <1>1, <1>3, <2>1, RegSole
<1>5. /\ \A u \in m : u.place \in h /\ u.idx = Port(devs, u.place)
      /\ \A k \in h : \E u \in m : u.place = k /\ u.idx = Port(devs, k)
  BY MatchingRules
<1> HIDE DEF devs, m, h
<1>6. m = {} => h = {}
  BY <1>5
<1>7. ASSUME m # {}
      PROVE  \E k \in h : h = {k} /\ Last(m).idx = Port(devs, k)
  <2>1. PICK k \in h : h = {k}
    BY <1>4, <1>5, <1>7
  <2>2. \A u \in m : u.place = k /\ u.idx = Port(devs, k)
    BY <2>1, <1>5
  <2>3. k \in Int
    BY <1>1, <1>3
  <2> QED
    BY Zenon, <2>1, <2>2, <2>3, <1>7, LastOfAlike
<1> QED
  BY <1>6, <1>7 DEF devs, m, h

(* The crossbar answers with the demux, with the one device that has the *)
(* address, or, if there is none, with an error.                         *)
LEMMA AxiDecoded ==
  ASSUME NEW c \in Configs, NEW a \in Nat
  PROVE  LET m == Matching(AxiRules(c), a)
             h == Holders(AxiDevs(c), a)
             ext == "Ext" \in c.on /\ InExtReg(a) IN
         /\ \A k \in h : k \in 1 .. 7 /\ AxiDevs(c)[k].on /\ AxiWindow(k, a)
         /\ m = {} => h = {} /\ ~ ext
         /\ m # {} => \/ h \subseteq {2} /\ Last(m).idx = 1
                     \/ \E k \in h : /\ h = {k} /\ k # 2
                                     /\ Last(m).idx = Port(AxiDevs(c), k) /\ Last(m).idx # 1
<1> DEFINE devs == AxiDevs(c)
           m == Matching(AxiRules(c), a)
           m0 == Matching(RulesOf(devs), a)
           h == Holders(devs, a)
           ext == "Ext" \in c.on /\ InExtReg(a)
           rule == [place |-> Len(devs) + 1, idx |-> 1, region |-> Outside["ext_reg"]]
<1>1. DOMAIN devs = 1 .. 7 /\ Len(devs) = 7
  BY AxiDevsList DEF IsList
<1>2. \A k \in h : k \in 1 .. 7 /\ devs[k].on /\ AxiWindow(k, a)
  <2>1. ASSUME NEW k \in h
        PROVE  k \in 1 .. 7 /\ devs[k].on /\ AxiWindow(k, a)
    <3>1. k \in 1 .. 7 /\ devs[k].on /\ \E r \in devs[k].regions : In(a, r)
      BY Zenon, <1>1 DEF Holders
    <3> QED
      BY Zenon, <3>1, AxiDevFacts
  <2> QED
    BY <2>1
<1>3. /\ \A u \in m0 : u.place \in h /\ u.idx = Port(devs, u.place)
      /\ \A k \in h : \E u \in m0 : u.place = k /\ u.idx = Port(devs, k)
  BY MatchingRules
<1>4. m = m0 \cup {u \in {rule} : ext}
  BY DEF Matching, AxiRules, InExtReg
<1>5. rule.place = 8 /\ rule.idx = 1
  BY <1>1
<1> HIDE DEF devs, m, m0, h, ext, rule
<1>6. \A k, l \in h : k = l
  <2>1. \A k \in h : k \in Nat
    BY <1>2
  <2> QED
    BY Zenon, <1>2, <2>1, AxiSole
<1>7. m = {} => h = {} /\ ~ ext
  BY <1>3, <1>4
<1>8. ASSUME ext
      PROVE  m # {} /\ h = {} /\ Last(m).idx = 1
  <2>1. \A k \in h : k = 2
    BY <1>2, <1>8, AxiApart DEF ext
  <2>2. 2 \notin h
    <3>1. 512 * M <= a
      BY <1>8, OutsideIsAbove DEF ext, InExtReg, Resources
    <3>2. ~ AxiWindow(2, a)
      BY <3>1 DEF AxiWindow, In, Region, AmReg, M, K
    <3> QED
      BY <1>2, <3>2
  <2>3. m = {rule}
    BY <2>1, <2>2, <1>3, <1>4, <1>8
  <2>4. \A u \in m : u.place = 8 /\ u.idx = 1
    BY <2>3, <1>5
  <2>5. Last(m).idx = 1
    BY <2>3, <2>4, LastOfAlike
  <2> QED
    BY <2>1, <2>2, <2>3, <2>5
<1>9. ASSUME m # {}, ~ ext
      PROVE  \/ h \subseteq {2} /\ Last(m).idx = 1
             \/ \E k \in h : /\ h = {k} /\ k # 2
                             /\ Last(m).idx = Port(devs, k) /\ Last(m).idx # 1
  <2>1. m = m0
    BY <1>4, <1>9
  <2>2. PICK k \in h : h = {k}
    BY <1>3, <1>6, <1>9, <2>1
  <2>3. \A u \in m : u.place = k /\ u.idx = Port(devs, k)
    BY <2>1, <2>2, <1>3
  <2>4. Last(m).idx = Port(devs, k)
    <3>1. k \in Int
      BY <1>2
    <3> QED
      BY Zenon, <3>1, <2>3, <1>9, LastOfAlike
  <2>5. Port(devs, k) = 1 <=> k = 2
    <3>1. k \in 1 .. 7 /\ AxiDevs(c)[k].on
      BY <1>2 DEF devs
    <3> QED
      BY Zenon, <3>1, PortOfDemux DEF devs
  <2> QED
    BY <2>2, <2>4, <2>5
<1> QED
  BY <1>2, <1>7, <1>8, <1>9 DEF devs, m, h, ext
---------------------------------------------------------------------------
AccessType ==
  /\ cfg \in Configs /\ addr \in Nat
  /\ stage \in {"axi", "reg", "done"}

(* On its way to the demux an access has met no device of the crossbar.  *)
PassedOn == stage = "reg" => PortsAt(AxiDevs(cfg), addr) \subseteq {1}

AccessInv == AccessType /\ PassedOn /\ AccessReachesDevice

(* A register is only where the crossbar leads to the demux.             *)
LEMMA RegHolder ==
  ASSUME NEW c \in Configs, NEW a \in Nat, ~ InClic(a), NEW k \in Holders(RegDevs(c), a)
  PROVE  2 \in Holders(AxiDevs(c), a) \/ ("Ext" \in c.on /\ InExtReg(a))
<1> DEFINE n == c.NumCores
<1>1. n \in 1 .. 31
  BY ConfigsAssumption DEF MaxCores
<1>2. DOMAIN RegDevs(c) = 1 .. 2 * n + 17
  <2>1. RegList(c, n)
    BY <1>1, RegDevsList
  <2> QED
    BY Zenon, <2>1 DEF RegList, IsList
<1>3. n \in Nat /\ n = c.NumCores
  BY <1>1
<1> HIDE DEF n
<1>4. /\ k \in 1 .. 2 * n + 17 /\ RegDevs(c)[k].on
      /\ \E r \in RegDevs(c)[k].regions : In(a, r)
  BY Zenon, <1>2 DEF Holders
<1>5. RegWindow(k, n, a) /\ (k = 2 * n + 17 => "Ext" \in c.on)
  <2>1. RegWindow(k, n, a)
    BY Zenon, <1>3, <1>4, RegDevFacts
  <2>2. k = 2 * n + 17 => (RegDevs(c)[k].on <=> "Ext" \in c.on)
    BY <1>3, <1>4, RegDevFacts
  <2> QED
    BY <1>4, <2>1, <2>2
<1>6. InDemux(a) \/ (k = 2 * n + 17 /\ InExtReg(a))
  <2>1. k \in Nat
    BY <1>1, <1>4
  <2> QED
    BY Zenon, <1>1, <1>5, <2>1, RegInDemux
<1>7. ASSUME InDemux(a)
      PROVE  2 \in Holders(AxiDevs(c), a)
  <2>1. 2 \in DOMAIN AxiDevs(c) /\ AxiDevs(c)[2].on
    BY AxiDevsList DEF IsList
  <2>2. \E r \in AxiDevs(c)[2].regions : In(a, r)
    BY <1>7, AxiDevFacts DEF InDemux
  <2> QED
    BY Zenon, <2>1, <2>2 DEF Holders
<1> QED
  BY <1>5, <1>6, <1>7

(* The port that the rules of external register regions name.            *)
LEMMA DemuxPortIsOne ==
  ASSUME NEW c \in Configs
  PROVE  Port(AxiDevs(c), 2) = 1
<1>1. AxiDevs(c)[2].on /\ 2 \in 1 .. 7
  BY AxiDevsList
<1> QED
  BY Zenon, <1>1, PortOfDemux

(* A step of the crossbar's decoder.                                     *)
LEMMA AxiStep ==
  ASSUME AccessInv, AxiDecode
  PROVE  AccessInv'
<1> DEFINE axi == PortsAt(AxiDevs(cfg), addr)
           reg == PortsAt(RegDevs(cfg), addr)
           ha == Holders(AxiDevs(cfg), addr)
           hr == Holders(RegDevs(cfg), addr)
           m == Matching(AxiRules(cfg), addr)
           ext == "Ext" \in cfg.on /\ InExtReg(addr)
<1>1. cfg \in Configs /\ addr \in Nat /\ cfg' = cfg /\ addr' = addr
  BY DEF AccessInv, AccessType, AxiDecode
<1>2. /\ \A k \in ha : k \in 1 .. 7 /\ AxiDevs(cfg)[k].on /\ AxiWindow(k, addr)
      /\ m = {} => ha = {} /\ ~ ext
      /\ m # {} => \/ ha \subseteq {2} /\ Last(m).idx = 1
                  \/ \E k \in ha : /\ ha = {k} /\ k # 2
                                   /\ Last(m).idx = Port(AxiDevs(cfg), k) /\ Last(m).idx # 1
  BY <1>1, AxiDecoded
<1>3. axi = {Port(AxiDevs(cfg), k) : k \in ha} /\ reg = {Port(RegDevs(cfg), k) : k \in hr}
  BY DEF PortsAt
<1>4. ~ InClic(addr) /\ hr # {} => 2 \in ha \/ ext
  BY <1>1, RegHolder
<1>5. \/ m = {} /\ stage' = "done" /\ target' = <<"axi", "error">>
      \/ m # {} /\ Last(m).idx = 1 /\ stage' = "reg"
      \/ m # {} /\ Last(m).idx # 1 /\ stage' = "done" /\ target' = <<"axi", Last(m).idx>>
  BY DEF AxiDecode
<1>6. AccessType'
  BY <1>1, <1>5 DEF AccessType
<1> HIDE DEF m, ha, hr
<1>7. CASE m = {} /\ stage' = "done" /\ target' = <<"axi", "error">>
  <2>1. ~ InClic(addr) => axi = {} /\ reg = {}
    BY <1>2, <1>3, <1>4, <1>7
  <2>2. ~ InClic(addr) => RightEnd(cfg, addr, target')
    BY <1>7, <2>1 DEF RightEnd
  <2> QED
    BY <1>1, <1>6, <1>7, <2>2 DEF AccessInv, PassedOn, AccessReachesDevice
<1>8. CASE m # {} /\ Last(m).idx = 1 /\ stage' = "reg"
  <2>1. ha \subseteq {2}
    BY <1>2, <1>8
  <2>2. axi \subseteq {1}
    BY <1>1, <1>3, <2>1, DemuxPortIsOne
  <2> QED
    BY <1>1, <1>6, <1>8, <2>2 DEF AccessInv, PassedOn, AccessReachesDevice
<1>9. CASE m # {} /\ Last(m).idx # 1 /\ stage' = "done" /\ target' = <<"axi", Last(m).idx>>
  <2>1. PICK k \in ha : /\ ha = {k} /\ k # 2
                        /\ Last(m).idx = Port(AxiDevs(cfg), k) /\ Last(m).idx # 1
    BY <1>2, <1>9
  <2>2. ~ InDemux(addr) /\ ~ InExtReg(addr)
    <3>1. k \in Nat /\ AxiWindow(k, addr)
      BY <1>2
    <3> QED
      BY <1>1, <2>1, <3>1, AxiApart
  <2>3. ~ InClic(addr) => reg = {}
    BY <1>3, <1>4, <2>1, <2>2
  <2>4. axi = {Last(m).idx} /\ axi \ {1} = {Last(m).idx}
    BY <1>3, <2>1
  <2>5. ~ InClic(addr) => RightEnd(cfg, addr, target')
    BY <1>9, <2>3, <2>4 DEF RightEnd
  <2> QED
    BY <1>1, <1>6, <1>9, <2>5 DEF AccessInv, PassedOn, AccessReachesDevice
<1> QED
  BY <1>5, <1>7, <1>8, <1>9

(* A step of the decoder of the demux.                                   *)
LEMMA RegStep ==
  ASSUME AccessInv, RegDecode
  PROVE  AccessInv'
<1> DEFINE axi == PortsAt(AxiDevs(cfg), addr)
           reg == PortsAt(RegDevs(cfg), addr)
           hr == Holders(RegDevs(cfg), addr)
           m == Matching(RulesOf(RegDevs(cfg)), addr)
<1>1. cfg \in Configs /\ addr \in Nat /\ cfg' = cfg /\ addr' = addr /\ axi \subseteq {1}
  BY DEF AccessInv, AccessType, PassedOn, RegDecode
<1>2. /\ m = {} => hr = {}
      /\ m # {} => \E k \in hr : hr = {k} /\ Last(m).idx = Port(RegDevs(cfg), k)
  BY <1>1, RegDecoded
<1>3. reg = {Port(RegDevs(cfg), k) : k \in hr}
  BY DEF PortsAt
<1>4. stage' = "done" /\ target' = <<"reg", IF m = {} THEN 0 ELSE Last(m).idx>>
  BY DEF RegDecode
<1> HIDE DEF m, hr
<1>5. reg = IF m = {} THEN {} ELSE {Last(m).idx}
  BY <1>2, <1>3
<1>6. axi \ {1} = {}
  BY <1>1
<1>7. RightEnd(cfg, addr, target')
  <2>1. CASE m = {}
    BY <1>4, <1>5, <1>6, <2>1 DEF RightEnd
  <2>2. CASE m # {}
    BY <1>4, <1>5, <1>6, <2>2 DEF RightEnd
  <2> QED
    BY <2>1, <2>2
<1> QED
  BY <1>1, <1>4, <1>7 DEF AccessInv, AccessType, PassedOn, AccessReachesDevice

(* The inductive invariant of an access: what the crossbar's decoder has *)
(* found when it passes an access on, and where an access ends.          *)
THEOREM AccessState == AccessSpec => []AccessInv
<1>1. AccessInit => AccessInv
  BY AddrsAssumption DEF AccessInit, AccessInv, AccessType, PassedOn, AccessReachesDevice
<1>2. AccessInv /\ [AccessNext]_accessVars => AccessInv'
  <2> SUFFICES ASSUME AccessInv, [AccessNext]_accessVars
               PROVE  AccessInv'
    OBVIOUS
  <2>1. CASE AxiDecode
    BY <2>1, AxiStep
  <2>2. CASE RegDecode
    BY <2>2, RegStep
  <2>3. CASE UNCHANGED accessVars
    BY <2>3 DEF accessVars, AccessInv, AccessType, PassedOn, AccessReachesDevice
  <2> QED
    BY <2>1, <2>2, <2>3 DEF AccessNext
<1> QED
  BY <1>1, <1>2, PTL DEF AccessSpec

(* An access to an address of a device ends at the port of that device,  *)
(* through both decoders (AccessReachesDevice), for any configurations   *)
(* whose ports fit the index type and for any address.                   *)
THEOREM AccessHolds == AccessSpec => []AccessReachesDevice
<1>1. AccessInv => AccessReachesDevice
  BY DEF AccessInv
<1> QED
  BY <1>1, AccessState, PTL

(* Ports are numbered without a hole and no two devices share one        *)
(* (PortsAreDense), as the counters of gen_axi_in, gen_axi_out and       *)
(* gen_reg_out are to ensure, for any configurations whose ports fit.    *)
THEOREM PortsHold == AccessSpec => []PortsAreDense
<1>1. AccessInv => PortsAreDense
  BY Zenon, ListsAreDense DEF AccessInv, AccessType, PortsAreDense
<1> QED
  BY <1>1, AccessState, PTL
===========================================================================
