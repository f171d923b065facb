------------------------------ MODULE MCClint ------------------------------
(* Words of three bits; calls anywhere in the last two ticks before the low   *)
(* word rolls over, and the first two after reset.                          *)
EXTENDS Clint

MCStarts == (0 .. 9) \cup (70 .. 79)
MCTicks == 0 .. 2
===========================================================================
