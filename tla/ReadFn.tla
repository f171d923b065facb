------------------------------ MODULE ReadFn -------------------------------
(***************************************************************************)
(* What gpt_read_t (gpt.h) promises its caller, whatever the medium behind *)
(* it: while a read of len bytes at addr is under way, only the len bytes  *)
(* of the caller's buffer are written, the medium does not change, and a   *)
(* return value of zero means that the buffer holds the medium's bytes.    *)
(*                                                                         *)
(* The caller's memory is seen through a window that starts with the       *)
(* buffer; disk maps the addresses of the medium to bytes.                 *)
(***************************************************************************)
EXTENDS Integers

CONSTANT NoCall  \* no read is under way

VARIABLES disk,  \* the medium, by address
          call,  \* the read under way: [addr, len]
          dst,   \* the caller's memory, by offset from the buffer
          ret    \* what the last read returned

vars == <<disk, call, dst, ret>>

Held(c) == \A o \in 0 .. c.len - 1 :
             c.addr + o \in DOMAIN disk /\ o \in DOMAIN dst /\ dst[o] = disk[c.addr + o]

Call == call = NoCall /\ call' # NoCall /\ UNCHANGED disk

Store == /\ call # NoCall
         /\ \A o \in DOMAIN dst' \ (0 .. call.len - 1) : o \in DOMAIN dst /\ dst'[o] = dst[o]
         /\ UNCHANGED <<disk, call, ret>>

Return == /\ call # NoCall /\ call' = NoCall
          /\ ret' = 0 => Held(call)
          /\ UNCHANGED <<disk, dst>>

\* between reads the medium may be written and the buffer used again
Between == call = NoCall /\ UNCHANGED call

Spec == call = NoCall /\ [][Call \/ Store \/ Return \/ Between]_vars
===========================================================================
