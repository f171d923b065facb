----------------------------- MODULE MCSmpBoot -----------------------------
(* The hand-over with a few harts and two distinct 32-bit words.            *)
EXTENDS SmpBoot, FiniteSets

ASSUME TwoWords == Cardinality(Words) >= 2
===========================================================================
