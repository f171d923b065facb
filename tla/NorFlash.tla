----------------------------- MODULE NorFlash ------------------------------
(***************************************************************************)
(* The SPI NOR flash driver (spi_s25fs512s.c): reads in chunks of the RX   *)
(* FIFO, and flashing of whole pages: one write enable, then for each page *)
(* two sector erases and a page program, each followed by polling of the   *)
(* write-in-progress bit.                                                  *)
(*                                                                         *)
(* The flash is external, modelled from how the driver uses it: it obeys   *)
(* an erase or a program only with its write enable latch set, drops the   *)
(* latch when it is done, and obeys nothing but status reads while busy.   *)
(* An operation may fail, and a flash that failed may stay busy.           *)
(***************************************************************************)
EXTENDS Integers, FiniteSetsExt

CONSTANTS NoCall, Window, Untouched,
          Chunk,    \* bytes of a chunk: 4 * SPI_HOST_PARAM_RX_DEPTH
          Sector,   \* bytes of a sector (256 in the code); a page is two
          Pages,    \* pages of the flash
          Blank     \* a byte of an erased sector

VARIABLES call, dst, ret,  \* as in Eeprom; of a "flash", addr and len are in pages
          pc, offs,
          step,    \* page under way and what of it: [page, part], part 0 and 1
                   \* for the erases, 2 for the program
          disk,    \* the flash, by address
          latch,   \* write enable latch
          wip,     \* the address of the sector being worked on; -1 if none
          err,     \* error bits of the status register
          lost     \* a command came while the flash was busy

norVars == <<offs, step, disk, latch, wip, err, lost>>
vars == <<call, dst, ret, pc, norVars>>

Page == 2 * Sector
Addresses == 0 .. Pages * Page - 1

Init == /\ offs = 0 /\ step = [page |-> 0, part |-> 0]
        /\ disk = [a \in Addresses |-> a]
        /\ latch = FALSE /\ wip = -1 /\ err = FALSE /\ lost = FALSE

Return(code) == call' = NoCall /\ ret' = code /\ pc' = "idle"
Command == lost' = (lost \/ wip # -1)
---------------------------------------------------------------------------
(* spi_s25fs512s_single_read                                               *)
Read(a, n) ==
  /\ call = NoCall /\ call' = [op |-> "read", addr |-> a, len |-> n]
  /\ dst' = [o \in Window |-> Untouched]
  /\ offs' = 0 /\ pc' = "read"
  /\ UNCHANGED <<ret, step, disk, latch, wip, err, lost>>

(* One chunk; a busy flash answers with anything, here with Untouched.     *)
ReadChunk ==
  /\ pc = "read" /\ offs < call.len
  /\ LET chunk_len == Min({Chunk, call.len - offs}) IN
     dst' = [o \in DOMAIN dst |->
               IF o - offs \in 0 .. chunk_len - 1 /\ wip = -1 THEN disk[call.addr + o] ELSE dst[o]]
  /\ Command /\ offs' = offs + Chunk
  /\ UNCHANGED <<call, ret, pc, step, disk, latch, wip, err>>

ReadReturn ==
  /\ pc = "read" /\ offs >= call.len
  /\ Return(0) /\ UNCHANGED <<dst, norVars>>

(* spi_s25fs512s_single_flash                                              *)
Flash(page, num_pages) ==
  /\ call = NoCall /\ call' = [op |-> "flash", addr |-> page, len |-> num_pages]
  /\ dst' = [o \in Window |-> Untouched]
  /\ pc' = "wren"
  /\ UNCHANGED <<ret, norVars>>

WriteEnable ==
  /\ pc = "wren"
  /\ Command /\ latch' = (latch \/ wip = -1)
  /\ step' = [page |-> call.addr, part |-> 0]
  /\ pc' = "page"
  /\ UNCHANGED <<call, dst, ret, offs, disk, wip, err>>

(* Fault: the sector address is not scaled by the size of a page.          *)
SectorAddressUnscaled == step.page * Sector + step.part * Sector

SectorAddress == step.page * Page + step.part * Sector

(* An erase, if the latch is set.                                          *)
Erase ==
  /\ pc = "page" /\ step.part < 2 /\ step.page < call.addr + call.len
  /\ Command /\ wip' = IF latch /\ wip = -1 THEN SectorAddress ELSE wip
  /\ pc' = "wip"
  /\ UNCHANGED <<call, dst, ret, offs, step, disk, latch, err>>

(* The page program: an RX segment, so the host clocks the bus into the    *)
(* caller's buffer and sends no data.                                      *)
Program ==
  /\ pc = "page" /\ step.part = 2
  /\ Command /\ wip' = IF latch /\ wip = -1 THEN step.page * Page ELSE wip
  /\ dst' = [o \in DOMAIN dst |->
               IF o \div Page = step.page - call.addr THEN Blank ELSE dst[o]]
  /\ pc' = "wip"
  /\ UNCHANGED <<call, ret, offs, step, disk, latch, err>>

FlashReturn ==
  /\ pc = "page" /\ step.page >= call.addr + call.len
  /\ Return(0) /\ UNCHANGED <<dst, norVars>>

NextStep == IF step.part < 2 THEN [step EXCEPT !.part = @ + 1]
                             ELSE [page |-> step.page + 1, part |-> 0]

(* Fault: the status is read once and the busy bit ignored.                *)
PollWipOnce ==
  /\ pc = "wip"
  /\ IF err THEN Return(32) /\ UNCHANGED step
            ELSE step' = NextStep /\ pc' = "page" /\ UNCHANGED <<call, ret>>
  /\ UNCHANGED <<dst, offs, disk, latch, wip, err, lost>>

(* Poll until the flash is no longer busy, then look at the error bits.    *)
PollWip ==
  /\ pc = "wip" /\ wip = -1
  /\ IF err THEN Return(32) /\ UNCHANGED step
            ELSE step' = NextStep /\ pc' = "page" /\ UNCHANGED <<call, ret>>
  /\ UNCHANGED <<dst, offs, disk, latch, wip, err, lost>>

(* The flash ends what it does.                                            *)
Complete ==
  /\ wip # -1 /\ ~ err
  /\ \/ /\ disk' = [a \in Addresses |-> IF a \div Sector = wip \div Sector THEN Blank ELSE disk[a]]
        /\ wip' = -1 /\ latch' = FALSE /\ UNCHANGED err
     \/ /\ err' = TRUE /\ wip' \in {wip, -1} /\ UNCHANGED <<disk, latch>>
  /\ UNCHANGED <<call, dst, ret, pc, offs, step, lost>>

Driver == \/ ReadChunk \/ ReadReturn \/ WriteEnable
          \/ Erase \/ Program \/ FlashReturn \/ PollWip
===========================================================================
