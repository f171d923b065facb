---------------------------- MODULE MCBootMedia ----------------------------
(* Reads of the EEPROM that start at a FIFO boundary, reach one or fall     *)
(* short of it, over up to two boundaries, in the lower block, across its   *)
(* end and in the upper one; every write; every read of a flash of three    *)
(* pages; every read of an SD card of two three-byte blocks whose bytes     *)
(* look like responses, tokens, error tokens and idle line, and past its    *)
(* end, by a card that may answer after the driver has given up.            *)
EXTENDS BootMedia

MCWindow == -4 .. 27
MCDisk == [l \in 0 .. 1 |-> IF l = 0 THEN <<0, 254, 8>> ELSE <<255, 0, 254>>]
MCCheckedBytes == {1, 8}

Starts == {0, 3, 13, 65528, 65541}
Lengths == {1, 4, 5, 8, 9, 16, 19}
MCProbed == 0 .. 40 \cup 65520 .. 65535
MCEepromReads == Starts \X Lengths
MCEepromWrites == Starts \X Lengths
MCNorReads == {r \in (0 .. 6) \X (1 .. 9) : r[1] + r[2] <= 12}
MCNorFlashes == {<<0, 1>>, <<1, 1>>, <<0, 2>>, <<1, 2>>, <<0, 3>>}
MCSdReads == (0 .. 8) \X (1 .. 5)
===========================================================================
