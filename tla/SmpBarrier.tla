---------------------------- MODULE SmpBarrier ----------------------------
(***************************************************************************)
(* What the boot ROM promises its harts (smp.h, cheshire_bootrom.S): all   *)
(* harts but the boot hart are parked at reset; once the boot hart has     *)
(* published an entry point every hart is released, and no hart jumps to   *)
(* the next stage before every hart has been woken.                        *)
(***************************************************************************)
CONSTANTS Harts,   \* the harts that execute the boot ROM
          Addrs,   \* candidate entry points of the next boot stage
          None     \* "nothing published yet" / "has not jumped"

VARIABLES published,   \* the entry point the boot hart hands over, or None
          phase,       \* per hart: "parked", "woken" or "left"
          target       \* per hart: the address it jumped to, or None

avars == <<published, phase, target>>

AInit == /\ published = None
         /\ phase = [h \in Harts |-> "parked"]
         /\ target = [h \in Harts |-> None]

(* The boot hart enters boot_next_stage with an entry point. *)
Publish(a) == /\ published = None
              /\ published' = a
              /\ UNCHANGED <<phase, target>>

(* A hart answers the wake-up of the boot hart. *)
Wake(h) == /\ published # None
           /\ phase[h] = "parked"
           /\ phase' = [phase EXCEPT ![h] = "woken"]
           /\ UNCHANGED <<published, target>>

(* A hart leaves the barrier, for the published entry point. *)
Leave(h) == /\ \A g \in Harts : phase[g] # "parked"
            /\ phase[h] = "woken"
            /\ phase' = [phase EXCEPT ![h] = "left"]
            /\ target' = [target EXCEPT ![h] = published]
            /\ UNCHANGED published

ANext == \/ \E a \in Addrs : Publish(a)
         \/ \E h \in Harts : Wake(h) \/ Leave(h)

ASpec == AInit /\ [][ANext]_avars
===========================================================================
