------------------------------- MODULE MCDma -------------------------------
EXTENDS Dma

MC1D == {[dst |-> 1, src |-> 2, size |-> 3]}
MC2D == {[dst |-> 4, src |-> 5, size |-> 6, dst_stride |-> 7, src_stride |-> 8, num_reps |-> 2]}
===========================================================================
