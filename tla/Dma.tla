-------------------------------- MODULE Dma --------------------------------
(***************************************************************************)
(* The DMA driver (dma.h): a transfer is described in a set of registers,  *)
(* one store after the other, launched by reading next_id, and waited for  *)
(* by polling the done register for the identifier that was read.  The     *)
(* registers keep their values, so a one-dimensional copy finds what an    *)
(* earlier two-dimensional one has left.                                   *)
(*                                                                         *)
(* The driver has no lock.  Harts that share the engine must take turns:   *)
(* either a hart keeps the engine for a whole call, or only until it has   *)
(* launched.  The engine is external: it does transfers in order.          *)
(***************************************************************************)
EXTENDS Integers, Sequences

CONSTANTS Harts,         \* users of the engine
          Copies1D,      \* copies asked for: [dst, src, size]
          Copies2D,      \* [dst, src, size, dst_stride, src_stride, num_reps]
          MaxTransfers,  \* bound on the calls
          NoHart, NoCall

ASSUME DmaAssumption == NoHart \notin Harts /\ MaxTransfers \in Nat \ {0}
ASSUME CopiesAssumption == \A c \in Copies2D : c.num_reps > 0

VARIABLES turns,    \* what a turn covers: "call" or "launch"
          owner,    \* hart that has the engine
          regs,     \* the registers
          next_id,  \* identifier of the next transfer
          jobs,     \* identifiers of the transfers launched and not done
          done,     \* identifier of the last transfer done
          call,     \* by hart: the call under way: [dims, blk, args]
          at,       \* by hart: next register to write
          tf_id     \* by hart: identifier it waits for

hartVars == <<call, at, tf_id>>
vars == <<turns, owner, regs, next_id, jobs, done, hartVars>>

Reg == {"src", "dst", "num_bytes", "conf", "src_stride", "dst_stride", "num_reps"}

Init == /\ turns \in {"call", "launch"} /\ owner = NoHart
        /\ regs = [g \in Reg |-> 0] /\ next_id = 1 /\ jobs = <<>> /\ done = 0
        /\ call = [h \in Harts |-> NoCall] /\ at = [h \in Harts |-> 1] /\ tf_id = [h \in Harts |-> 0]

(* Fault: the number of repetitions is left as it is.                      *)
Stores1DKeepsReps(a) == << <<"src", a.src>>, <<"dst", a.dst>>, <<"num_bytes", a.size>>, <<"conf", 0>> >>

(* The stores of dma_memcpy: no repetitions, and all options off.          *)
Stores1D(a) == << <<"src", a.src>>, <<"dst", a.dst>>, <<"num_bytes", a.size>>,
                  <<"num_reps", 0>>, <<"conf", 0>> >>

(* The stores of dma_2d_memcpy.                                            *)
Stores2D(a) == << <<"src", a.src>>, <<"dst", a.dst>>, <<"num_bytes", a.size>>, <<"conf", 0>>,
                  <<"src_stride", a.src_stride>>, <<"dst_stride", a.dst_stride>>,
                  <<"num_reps", a.num_reps>> >>

Stores(c) == IF c.dims = 1 THEN Stores1D(c.args) ELSE Stores2D(c.args)

\* a call and its kind: blocking (the _blk_ functions) or not
Call(h, c) ==
  /\ call[h] = NoCall /\ owner = NoHart /\ next_id <= MaxTransfers
  /\ owner' = h /\ call' = [call EXCEPT ![h] = c] /\ at' = [at EXCEPT ![h] = 1]
  /\ UNCHANGED <<turns, regs, next_id, jobs, done, tf_id>>

Store(h) ==
  /\ call[h] # NoCall /\ at[h] \in 1 .. Len(Stores(call[h]))
  /\ LET s == Stores(call[h])[at[h]] IN regs' = [regs EXCEPT ![s[1]] = s[2]]
  /\ at' = [at EXCEPT ![h] = @ + 1]
  /\ UNCHANGED <<turns, owner, next_id, jobs, done, call, tf_id>>

Launching(h) == call[h] # NoCall /\ at[h] = Len(Stores(call[h])) + 1

(* The read of next_id launches; a blocking call goes on to wait.          *)
Launch(h) ==
  /\ Launching(h)
  /\ jobs' = Append(jobs, next_id) /\ next_id' = next_id + 1
  /\ tf_id' = [tf_id EXCEPT ![h] = next_id]
  /\ IF call[h].blk THEN at' = [at EXCEPT ![h] = 0] /\ UNCHANGED call
                    ELSE call' = [call EXCEPT ![h] = NoCall] /\ UNCHANGED at
  /\ owner' = IF turns = "launch" \/ ~ call[h].blk THEN NoHart ELSE h
  /\ UNCHANGED <<turns, regs, done>>

(* Fault: the wait is for any newer transfer than the last one known.      *)
WaitForAny(h) ==
  /\ call[h] # NoCall /\ at[h] = 0 /\ done # tf_id[h] - 1
  /\ call' = [call EXCEPT ![h] = NoCall]
  /\ owner' = IF owner = h THEN NoHart ELSE owner
  /\ UNCHANGED <<turns, regs, next_id, jobs, done, at, tf_id>>

(* Fault: the wait is for the identifier after the launched one.           *)
WaitForNext(h) ==
  /\ call[h] # NoCall /\ at[h] = 0 /\ done = tf_id[h] + 1
  /\ call' = [call EXCEPT ![h] = NoCall]
  /\ owner' = IF owner = h THEN NoHart ELSE owner
  /\ UNCHANGED <<turns, regs, next_id, jobs, done, at, tf_id>>

(* The loop on done ends when it equals the identifier.                    *)
Wait(h) ==
  /\ call[h] # NoCall /\ at[h] = 0 /\ done = tf_id[h]
  /\ call' = [call EXCEPT ![h] = NoCall]
  /\ owner' = IF owner = h THEN NoHart ELSE owner
  /\ UNCHANGED <<turns, regs, next_id, jobs, done, at, tf_id>>

Engine ==
  /\ jobs # <<>>
  /\ done' = Head(jobs) /\ jobs' = Tail(jobs)
  /\ UNCHANGED <<turns, owner, regs, next_id, hartVars>>

Calls == [dims : {1}, blk : BOOLEAN, args : Copies1D] \cup [dims : {2}, blk : BOOLEAN, args : Copies2D]

Hart(h) == Store(h) \/ Launch(h) \/ Wait(h)

Next == \/ \E h \in Harts, c \in Calls : Call(h, c)
        \/ \E h \in Harts : Hart(h)
        \/ Engine

Spec == /\ Init /\ [][Next]_vars
        /\ \A h \in Harts : WF_vars(Hart(h))
        /\ WF_vars(Engine)
---------------------------------------------------------------------------
(* What the engine copies for some register contents: without repetitions  *)
(* the strides do not matter.                                              *)
Copy(g) == [dst |-> g["dst"], src |-> g["src"], size |-> g["num_bytes"], conf |-> g["conf"],
            more |-> IF g["num_reps"] = 0 THEN <<>>
                     ELSE <<g["dst_stride"], g["src_stride"], g["num_reps"]>>]

Asked(c) == [dst |-> c.args.dst, src |-> c.args.src, size |-> c.args.size, conf |-> 0,
             more |-> IF c.dims = 1 THEN <<>>
                      ELSE <<c.args.dst_stride, c.args.src_stride, c.args.num_reps>>]

(* The transfer a hart launches is the one it was called for, whatever the *)
(* calls before it, of either kind and of any hart, left in the registers. *)
LaunchesWhatWasAsked == \A h \in Harts : Launching(h) => Copy(regs) = Asked(call[h])

(* A blocking copy returns only when its own transfer is done: none is     *)
(* left in the queue at or before it.                                      *)
ReturnsAfterDone ==
  [][\A h \in Harts : at[h] = 0 /\ call[h] # NoCall /\ call'[h] = NoCall =>
       \A k \in DOMAIN jobs' : jobs'[k] > tf_id[h]]_vars

(* If a hart keeps the engine for a whole call, every blocking copy        *)
(* returns.  (If it gives it up after the launch, done may run past its    *)
(* identifier between two polls, and it waits for ever.)                   *)
WaitsEnd == \A h \in Harts : turns = "call" /\ call[h] # NoCall ~> call[h] = NoCall
===========================================================================
