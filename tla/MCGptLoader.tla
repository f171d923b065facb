---------------------------- MODULE MCGptLoader ----------------------------
(* All media of at most three entries, each unused, of another type, or one *)
(* of the three parts with the largest size that fits or one sector more.   *)
EXTENDS GptLoader

MCMaxLbas == [q \in Parts |-> CASE q = "zsl" -> 2 [] q = "dtb" -> 1 [] q = "fw" -> 3]

Unused == [lba_begin |-> 0, lba_end |-> 0, type |-> "unused"]
Used(i, t, n) == [lba_begin |-> 10 * i, lba_end |-> 10 * i + n - 1, type |-> t]
Entries(i) == {Unused, Used(i, "other", 5)} \cup
              {Used(i, t, MCMaxLbas[t] + x) : t \in Parts, x \in {0, 1}}

MCDisks == [gpt : {FALSE}, entries : {<<>>}] \cup
           [gpt : {TRUE}, entries : {<<>>} \cup {<<a>> : a \in Entries(1)}
              \cup {<<a, b>> : a \in Entries(1), b \in Entries(2)}
              \cup {<<a, b, c>> : a \in Entries(1), b \in Entries(2), c \in Entries(3)}]
===========================================================================
