------------------------------ MODULE SdCard -------------------------------
(***************************************************************************)
(* The block read of the SD card driver (spi_sdcard.c) against a card that *)
(* answers late, with errors or with corrupted blocks, and a caller that   *)
(* may go on after a failed read.                                          *)
(*                                                                         *)
(* The SPI bus moves one symbol per transfer: a byte, or the CRC of a      *)
(* block, which is ideal (it identifies the data).  While the driver sends *)
(* a command, whatever the card was streaming moves on unseen.             *)
(*                                                                         *)
(* A read is of bytes; the driver moves whole blocks, the first and the    *)
(* last of them through a swap buffer when the read is not aligned.        *)
(***************************************************************************)
EXTENDS Integers, Sequences, FiniteSetsExt

CONSTANTS NoCall, Window, Untouched,
          Disk,         \* function from block numbers to sequences of bytes
          BlockLen,     \* bytes of a block (512 in the code)
          MaxReads,     \* bound on the reads of the caller
          RespTimeout,  \* polls for a response (8 in the code)
          R1bTimeout,   \* polls for the end of busy (10000 in the code)
          DataTimeout,  \* polls for a data token
          MaxNcr,       \* idle bytes a card may send before a response
          MaxAccess     \* idle bytes a card may send before a data token

Lbas == DOMAIN Disk
Bytes == 0 .. 255

Idle == 255        \* 0xFF
Token == 254       \* 0xFE
ErrToken == 8      \* data error token, out of range
ErrR1 == 64        \* R1 with an error bit

\* Return codes of the driver
Ok == 0
ENoResp == 18      \* 0x12
EBusy == 19        \* 0x13
ENoToken == 25     \* 0x19
EToken == 32       \* 0x20
ECrc == 33         \* 0x21

VARIABLES
  call, dst, ret, pc,  \* as in Eeprom; the last call stays in call
  b,        \* block counter of __spi_sdcard_read_blocks
  blk,      \* bytes of the current block, in the swap buffer or in dst
  timeout,  \* countdown of the current polling loop
  reads,    \* reads made so far
  cs,       \* the card's chip select is asserted
  out,      \* symbols the card is about to send
  stream,   \* what the card is doing: "ready", "single" or "multi"
  lba,      \* next block of a multi-block stream
  card      \* as in SdActivate

drvVars == <<call, dst, ret, pc, b, blk, timeout, reads, cs>>
cardVars == <<out, stream, lba, card>>
vars == <<drvVars, cardVars>>

addr == call.addr
len == call.len

Init == /\ b = 0 /\ blk = <<>> /\ timeout = 0 /\ reads = 0
        /\ out = <<>> /\ stream = "ready" /\ lba = 0

---------------------------------------------------------------------------
(* The card.                                                               *)

(* The CRC symbol of block l, and what it says of the data before it.      *)
Crc(l) == 256 + l
CrcFits(s, data) == \E l \in Lbas : s = Crc(l) /\ data = Disk[l]

IdleBytes(n) == [k \in 1 .. n |-> Idle]

(* How block l may be answered: late, with an error token, or altered on   *)
(* the line.                                                               *)
Answers(l) ==
  {IdleBytes(n) \o <<Token>> \o d \o <<Crc(l)>> :
      n \in 0 .. MaxAccess,
      d \in {Disk[l], [Disk[l] EXCEPT ![BlockLen] = 255 - @]}}
  \cup {<<ErrToken>>}

(* The card's reaction to a command, after the stream has moved on by some *)
(* symbols.  A card that streams obeys nothing but CMD12.                  *)
Streaming(rest) == rest # <<>> \/ stream = "multi"

React(cmd, arg) ==
  /\ UNCHANGED card
  /\ \E k \in 0 .. Len(out) :
       LET rest == SubSeq(out, k + 1, Len(out)) IN
       IF cmd # "CMD12" /\ Streaming(rest)
       THEN out' = rest /\ UNCHANGED <<stream, lba>>
       ELSE \E n \in 0 .. MaxNcr :
              CASE cmd = "CMD12" ->
                     /\ \E busy \in 0 .. R1bTimeout :
                          out' = IdleBytes(n) \o <<0>> \o [j \in 1 .. busy |-> 0]
                     /\ stream' = "ready" /\ UNCHANGED lba
                [] cmd # "CMD12" /\ arg \notin Lbas ->
                     /\ out' = IdleBytes(n) \o <<ErrR1>>
                     /\ stream' = "ready" /\ UNCHANGED lba
                [] cmd = "CMD17" /\ arg \in Lbas ->
                     /\ \E a \in Answers(arg) : out' = IdleBytes(n) \o <<0>> \o a
                     /\ stream' = "single" /\ UNCHANGED lba
                [] cmd = "CMD18" /\ arg \in Lbas ->
                     /\ out' = IdleBytes(n) \o <<0>>
                     /\ stream' = "multi" /\ lba' = arg

(* A multi-block stream goes on by itself, and ends with an error token    *)
(* past the last block.                                                    *)
CardStreams ==
  /\ stream = "multi" /\ out = <<>>
  /\ IF lba \in Lbas
     THEN \E a \in Answers(lba) :
            /\ out' = a /\ lba' = lba + 1
            /\ stream' = IF a = <<ErrToken>> THEN "single" ELSE "multi"
     ELSE out' = <<ErrToken>> /\ stream' = "single" /\ UNCHANGED lba
  /\ UNCHANGED <<drvVars, card>>

(* The next symbol on the line: a silent card holds it at idle, unless it  *)
(* is stuck at zero.                                                       *)
NextSymbol == CASE card.kind = "zero" -> 0
                [] card.kind # "zero" /\ out = <<>> -> Idle
                [] card.kind # "zero" /\ out # <<>> -> Head(out)

(* One symbol is taken from the card.                                      *)
Xfer == /\ stream = "multi" => out # <<>>
        /\ out' = IF out = <<>> THEN <<>> ELSE Tail(out)
        /\ UNCHANGED <<stream, lba, card>>

---------------------------------------------------------------------------
(* The driver.                                                             *)

(* The blocks of a read, and what of the first and last is wanted.         *)
FirstOffs(a) == a % BlockLen
LastLen(a, n) == IF (a + n) % BlockLen = 0 THEN BlockLen ELSE (a + n) % BlockLen
LenBlocks(a, n) == (n + FirstOffs(a) + BlockLen - 1) \div BlockLen

first_block == b = 0 /\ FirstOffs(addr) # 0
last_block == b = LenBlocks(addr, len) - 1 /\ LastLen(addr, len) # BlockLen
Swapped == first_block \/ last_block
Multi == LenBlocks(addr, len) > 1

(* Store byte k (from 0) of block b: buf - first_offs + BlockLen * b + k.  *)
Offset(k) == BlockLen * b + k - FirstOffs(addr)
Put(ks, data) ==
  [o \in DOMAIN dst |-> LET k == o - Offset(0) IN IF k \in ks THEN data[k + 1] ELSE dst[o]]

(* The part of a swapped block that is copied to the destination.          *)
Relevant ==
  (IF first_block THEN FirstOffs(addr) ELSE 0) ..
  (IF last_block THEN LastLen(addr, len) ELSE BlockLen) - 1

Return(code) == pc' = "idle" /\ ret' = code
Go(next) == pc' = next /\ UNCHANGED ret

(* Does a symbol look like a response (most significant bit low)?  A byte  *)
(* of a CRC may.                                                           *)
LooksLikeResponse(s) == IF s \in Bytes THEN {s < 128} ELSE BOOLEAN

(* Send CMD17 or CMD18; chip select stays asserted.  The caller may go on  *)
(* after a read that failed, as the zero-stage loader does.                *)
Read(a, n) ==
  /\ pc = "idle" /\ reads < MaxReads
  /\ React(IF LenBlocks(a, n) > 1 THEN "CMD18" ELSE "CMD17", a \div BlockLen)
  /\ pc' = "resp" /\ timeout' = RespTimeout
  /\ call' = [op |-> "read", addr |-> a, len |-> n]
  /\ dst' = [o \in Window |-> Untouched]
  /\ b' = 0 /\ blk' = <<>> /\ cs' = TRUE /\ reads' = reads + 1
  /\ UNCHANGED ret

(* do xfer while (--timeout && *rdata & 0x80); the read command's response *)
(* is not looked at any further.                                           *)
PollResponse(l, next, t) ==
  /\ pc = l /\ Xfer
  /\ \E resp \in LooksLikeResponse(NextSymbol) :
       CASE timeout = 1 -> Return(ENoResp) /\ timeout' = 0
         [] timeout > 1 /\ resp -> Go(next) /\ timeout' = t
         [] OTHER -> timeout' = timeout - 1 /\ UNCHANGED <<pc, ret>>
  /\ UNCHANGED <<call, dst, b, blk, reads, cs>>

PollReadResponse == PollResponse("resp", "token", DataTimeout)

(* Fault: the wait for a token does not count down.                        *)
PollTokenForever ==
  /\ pc = "token" /\ Xfer
  /\ CASE NextSymbol = Idle -> UNCHANGED <<pc, ret>>
       [] NextSymbol = Token -> Go("data")
       [] OTHER -> Return(EToken)
  /\ UNCHANGED <<call, dst, b, blk, timeout, reads, cs>>

(* Poll for the start token of the next block.                             *)
PollToken ==
  /\ pc = "token" /\ Xfer
  /\ timeout' = timeout - 1
  /\ CASE timeout = 1 -> Return(ENoToken)
       [] timeout > 1 /\ NextSymbol = Idle -> UNCHANGED <<pc, ret>>
       [] timeout > 1 /\ NextSymbol = Token -> Go("data")
       [] OTHER -> Return(EToken)
  /\ UNCHANGED <<call, dst, b, blk, reads, cs>>

(* One byte of the block, to the swap buffer or straight to its place.     *)
ReadData ==
  /\ pc = "data" /\ Xfer
  /\ blk' = Append(blk, NextSymbol)
  /\ dst' = IF Swapped THEN dst ELSE Put({Len(blk)}, blk')
  /\ Go(IF Len(blk') = BlockLen THEN "crc" ELSE "data")
  /\ UNCHANGED <<call, b, timeout, reads, cs>>

(* Fault: a multi-block read is not ended with CMD12.                      *)
CheckCrcNoStop ==
  /\ pc = "crc" /\ Xfer
  /\ IF ~ CrcFits(NextSymbol, blk)
     THEN Return(ECrc) /\ UNCHANGED <<b, blk, dst, timeout>>
     ELSE /\ dst' = IF Swapped THEN Put(Relevant, blk) ELSE dst
          /\ b' = b + 1 /\ blk' = <<>>
          /\ Go(IF b' < LenBlocks(addr, len) THEN "token" ELSE "free")
          /\ timeout' = DataTimeout
  /\ UNCHANGED <<call, reads, cs>>

(* Check the CRC; copy a swapped block; go on with the next block, stop    *)
(* the stream, or release the card.                                        *)
CheckCrc ==
  /\ pc = "crc" /\ Xfer
  /\ IF ~ CrcFits(NextSymbol, blk)
     THEN Return(ECrc) /\ UNCHANGED <<b, blk, dst, timeout>>
     ELSE /\ dst' = IF Swapped THEN Put(Relevant, blk) ELSE dst
          /\ b' = b + 1 /\ blk' = <<>>
          /\ Go(IF b' < LenBlocks(addr, len) THEN "token" ELSE IF Multi THEN "stop" ELSE "free")
          /\ timeout' = DataTimeout
  /\ UNCHANGED <<call, reads, cs>>

(* CMD12; one stuff byte is discarded after it.                            *)
StopStream ==
  /\ pc = "stop" /\ React("CMD12", 0)
  /\ Go("stop_resp") /\ timeout' = RespTimeout
  /\ UNCHANGED <<call, dst, b, blk, reads, cs>>

PollStopResponse == PollResponse("stop_resp", "busy", R1bTimeout)

(* do xfer while (--timeout && rdummy == 0)                                *)
PollBusy ==
  /\ pc = "busy" /\ Xfer
  /\ timeout' = timeout - 1
  /\ IF timeout = 1 THEN Return(EBusy) ELSE Go(IF NextSymbol = 0 THEN "busy" ELSE "free")
  /\ UNCHANGED <<call, dst, b, blk, reads, cs>>

(* __spi_sdcard_csfree: dummy cycles on the dummy select release the card. *)
CsFree ==
  /\ pc = "free"
  /\ cs' = FALSE /\ Return(Ok)
  /\ UNCHANGED <<call, dst, b, blk, timeout, reads, cardVars>>

Driver == \/ PollReadResponse \/ PollToken \/ ReadData \/ CheckCrc
          \/ StopStream \/ PollStopResponse \/ PollBusy \/ CsFree
===========================================================================
