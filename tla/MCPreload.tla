----------------------------- MODULE MCPreload -----------------------------
(* Doublewords of four bytes and bursts of two.  The first file has two     *)
(* segments in ascending order, adjacent, apart or unaligned, with and      *)
(* without .bss, or one that is not loaded; or it is damaged.  The second   *)
(* one lies elsewhere, or partly in the same place.                         *)
EXTENDS Preload

Seg(a, n, m) == [load |-> TRUE, paddr |-> a, filesz |-> n, memsz |-> m]
File1(ph) == [kind |-> "whole", name |-> 1, entry |-> 4, ph |-> ph]
Damaged(k) == [kind |-> k, name |-> 1, entry |-> 4, ph |-> <<Seg(0, 4, 4)>>]

LowSegs == {Seg(a, n, m) : a \in {0, 2, 4}, n \in 0 .. 6, m \in {3, 4, 6}}
HighSegs == {Seg(a, n, m) : a \in {8, 11, 12}, n \in {1, 4, 8, 9}, m \in {4, 9, 12}}

Whole == {File1(<<p, q>>) : p \in {s \in LowSegs : s.filesz <= s.memsz /\ s.paddr + s.memsz <= 8},
                             q \in {s \in HighSegs : s.filesz <= s.memsz}}
         \cup {File1(<<[Seg(0, 4, 4) EXCEPT !.load = FALSE], Seg(8, 4, 5)>>)}

Second == {[kind |-> "whole", name |-> 2, entry |-> 8, ph |-> <<Seg(a, n, 4)>>] :
             a \in {0, 12, 28}, n \in {0, 3, 4}}

MCFiles == <<Whole \cup {Damaged(k) : k \in {"no_elf", "no_headers", "no_data"}},
             Second \cup {Damaged("no_headers")}>>
===========================================================================
