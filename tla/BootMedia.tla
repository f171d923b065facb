----------------------------- MODULE BootMedia -----------------------------
(***************************************************************************)
(* The three boot media behind the one function pointer gpt_read_t         *)
(* (gpt.h): the ROM picks the driver by boot mode, and the GPT loader      *)
(* reads, or another program writes, through it, one call after another.   *)
(* The SD card has to be brought up first.                                 *)
(***************************************************************************)
EXTENDS Integers, Sequences

CONSTANTS NoCall, Window, Untouched,
          Depth, Block, Probed,         \* of the EEPROM
          Chunk, Sector, Pages, Blank,  \* of the flash
          Disk, BlockLen, MaxReads, RespTimeout, R1bTimeout, DataTimeout, MaxNcr, MaxAccess,
          Cards, CheckedBytes,          \* of the SD card
          EepromReads, EepromWrites, NorReads, NorFlashes, SdReads  \* arguments <<addr, len>>

Ops == {"read", "write", "flash"}
ASSUME NoCallAssumption == NoCall \notin [op : Ops, addr : Nat, len : Nat]

(* The caller's memory is seen by its offset from the buffer.              *)
ASSUME WindowAssumption == Window \subseteq Int

(* A chunk's message fits the FIFO and its length a byte; an address within *)
(* a block is sent in two bytes.                                            *)
ASSUME EepromAssumption ==
  /\ Depth \in 8 .. 255 /\ Depth % 2 = 0
  /\ Block = 256 * 256 /\ Block % Depth = 0
ASSUME NorAssumption == {Chunk, Sector, Pages} \subseteq Nat \ {0}
ASSUME DiskAssumption ==
  /\ BlockLen \in Nat \ {0} /\ DOMAIN Disk \subseteq Nat
  /\ Disk \in [DOMAIN Disk -> [1 .. BlockLen -> 0 .. 255]]
ASSUME TimeoutAssumption == {RespTimeout, R1bTimeout, DataTimeout, MaxReads} \subseteq Nat \ {0}
ASSUME CardAssumption ==
  /\ Cards \subseteq {"v1", "v2", "low_volt", "zero"} /\ Cards # {}
  /\ CheckedBytes \subseteq (1 .. 5) \cup {8}
  /\ {MaxNcr, MaxAccess} \subseteq Nat

VARIABLES medium,  \* "i2c", "nor" or "sd", chosen by the boot mode
          call, dst, ret, pc, offs,                  \* the drivers
          chunk, fmt, rx, on, dev,                   \* EEPROM
          step, disk, latch, wip, err, lost,         \* flash
          b, blk, timeout, reads, cs, out, stream, lba, clock, card, \* SD card
          promised  \* history: the last read was one of those the contract covers

i2cVars == <<chunk, fmt, rx, on, dev>>
norVars == <<step, disk, latch, wip, err, lost>>
sdVars == <<b, blk, timeout, reads, out, stream, lba>>
cardVars == <<cs, clock, card>>
vars == <<medium, call, dst, ret, pc, offs, i2cVars, norVars, sdVars, cardVars, promised>>

Ee == INSTANCE Eeprom
Nor == INSTANCE NorFlash
Act == INSTANCE SdActivate
Sd == INSTANCE SdCard

(* The accesses of the callers.  What a read brings is within the memory    *)
(* looked at; of the EEPROM, its lower block is looked at where it is read, *)
(* and a read of the flash is within it.                                    *)
InWindow(r) == 0 .. r[2] - 1 \subseteq Window
InLowerBlock(a, n) == a + n <= Block
ASSUME EepromCallsAssumption ==
  /\ EepromReads \cup EepromWrites \subseteq Nat \X Nat
  /\ \A r \in EepromReads :
       LET n == Ee!Served(r[1], r[2]) IN
       /\ InWindow(<<r[1], n>>)
       /\ InLowerBlock(r[1], n) => r[1] .. r[1] + n - 1 \subseteq Probed
ASSUME NorCallsAssumption ==
  /\ NorReads \cup NorFlashes \subseteq Nat \X Nat
  /\ \A r \in NorReads : r[1] + r[2] <= Pages * 2 * Sector /\ InWindow(r)
ASSUME SdCallsAssumption ==
  SdReads \subseteq Nat \X (Nat \ {0}) /\ \A r \in SdReads : InWindow(r)

Init == /\ medium \in {"i2c", "nor", "sd"}
        /\ call = NoCall /\ dst = [o \in Window |-> Untouched] /\ ret = 0
        /\ pc = IF medium = "sd" THEN "wake" ELSE "idle"
        /\ Ee!Init /\ Nor!Init /\ Act!Init /\ Sd!Init /\ promised = TRUE
        /\ medium # "sd" => card.kind = CHOOSE k \in Cards : TRUE

I2cCall == \/ \E r \in EepromReads : Ee!Access("read", r[1], r[2])
           \/ \E w \in EepromWrites : Ee!Access("write", w[1], w[2])

NorCall == /\ ret = 0
           /\ \/ \E r \in NorReads : Nor!Read(r[1], r[2])
              \/ \E f \in NorFlashes : Nor!Flash(f[1], f[2])

SdCall == \E r \in SdReads : Sd!Read(r[1], r[2])

(* Reads that the contract covers.  Of the EEPROM, those in its lower       *)
(* block.  Of the card, those made when it has nothing left to say from    *)
(* before: a read that it answered too late leaves its response and its    *)
(* block on the line, and one of several blocks that failed without CMD12  *)
(* leaves it streaming (zsl.c:44 goes on all the same).                    *)
LineSettled == stream # "multi" /\ (out = <<>> \/ (promised /\ ret # Sd!ENoResp))
Called == pc = "idle" /\ pc' # "idle"

OnI2c(A) ==
  /\ medium = "i2c" /\ A
  /\ promised' = IF Called THEN InLowerBlock(call'.addr, Ee!Served(call'.addr, call'.len))
                 ELSE promised
  /\ UNCHANGED <<medium, norVars, sdVars, cardVars>>
OnNor(A) == medium = "nor" /\ A /\ UNCHANGED <<medium, promised, i2cVars, sdVars, cardVars>>
OnSd(A) ==
  /\ medium = "sd" /\ A
  /\ promised' = IF Called THEN LineSettled ELSE promised
  /\ UNCHANGED <<medium, offs, i2cVars, norVars>>

I2cSteps == OnI2c(I2cCall \/ Ee!Driver \/ Ee!Bus)
NorSteps == OnNor(NorCall \/ Nor!Driver \/ Nor!Complete)
Activation == OnSd((Act!Driver \/ Act!CardGetsReady) /\ UNCHANGED <<call, dst, sdVars>>)
SdSteps == OnSd((SdCall \/ Sd!Driver \/ Sd!CardStreams) /\ UNCHANGED clock)

Next == I2cSteps \/ NorSteps \/ Activation \/ SdSteps

(* The processor runs the driver, the I2C host plays its queue by itself,  *)
(* the flash ends what it was told to do, a card that was told to start    *)
(* gets ready, and a card that streams goes on.                            *)
Fairness == /\ WF_vars(OnI2c(Ee!Driver))
            /\ WF_vars(OnI2c(Ee!Bus))
            /\ WF_vars(OnNor(Nor!Driver))
            /\ WF_vars(OnNor(Nor!Complete))
            /\ WF_vars(OnSd(Act!Driver /\ UNCHANGED <<call, dst, sdVars>>))
            /\ WF_vars(OnSd(Act!CardGetsReady /\ UNCHANGED <<call, dst, sdVars>>))
            /\ WF_vars(OnSd(Sd!Driver /\ UNCHANGED clock))
            /\ WF_vars(OnSd(Sd!CardStreams /\ UNCHANGED clock))

Spec == Init /\ [][Next]_vars /\ Fairness
---------------------------------------------------------------------------
ByteOnDisk(a) == Disk[a \div BlockLen][(a % BlockLen) + 1]

BytesOf == UNION {l * BlockLen .. l * BlockLen + BlockLen - 1 : l \in DOMAIN Disk}

Medium == CASE medium = "i2c" -> [a \in Probed |-> a]
            [] medium = "nor" -> disk
            [] medium = "sd" -> [a \in BytesOf |-> ByteOnDisk(a)]

InCall == pc # "idle" /\ call # NoCall

(* Reads of every medium keep the promise of gpt_read_t: only the buffer   *)
(* is written, and a return value of zero means that it holds the bytes of *)
(* the medium that were asked for, however the read is aligned, however    *)
(* late the card was and whatever an earlier, failed read was.  That the   *)
(* bytes are right is not so of the reads that are not promised (see       *)
(* LineSettled); and the buffer of an unaligned read of the EEPROM reaches *)
(* to the next FIFO boundary at least, like the 16 bytes that the loader   *)
(* reads at 0x248 (gpt.c:32), for which 56 are stored.                     *)
Buffer == IF medium = "i2c" THEN [call EXCEPT !.len = Ee!Served(call.addr, @)] ELSE call
Contract == INSTANCE ReadFn WITH
  disk <- Medium,
  call <- IF InCall /\ call.op = "read" THEN Buffer ELSE NoCall,
  ret <- IF promised THEN ret ELSE 1
KeepsContract == Contract!Spec

(* dif_i2c_write_byte neither blocks nor checks: the queued message of a   *)
(* chunk must fit the FMT FIFO, and the host must find all of it there     *)
(* when it is switched on, or it stalls the bus in mid message             *)
(* (i2c_24fc1025.c:52).  So the host is only on while the last chunk is    *)
(* complete, never while the driver is filling.                            *)
FifoHolds == Len(fmt) <= Depth /\ Len(rx) <= Depth /\ (pc = "fill" => ~ on /\ fmt = <<>>)

(* No command but a status read is given while the flash is busy with an   *)
(* erase or a program: it would be lost.                                   *)
NothingLost == ~ lost

(* Flashing pages changes no byte of any other page.                       *)
OnlyRequestedPages ==
  [][\A a \in DOMAIN disk : disk'[a] # disk[a] =>
       call.op = "flash" /\ a \div (2 * Sector) \in call.addr .. call.addr + call.len - 1]_vars

(* A card that is read is one that accepted the voltage, has left its idle *)
(* state and is clocked at full speed, whatever card was found and however *)
(* long it took.  (Only a line stuck at zero passes the initialisation     *)
(* without: a response of zeros is its own, good, return code.)            *)
ReadsActiveCard ==
  medium = "sd" /\ pc = "idle" /\ card.kind # "zero" =>
    card.kind = "v2" /\ card.state = "ready" /\ clock = "fast"

(* After a read that succeeded, the card is released and no stream is left *)
(* running that could leak into the next read, if none had leaked into     *)
(* this one.                                                               *)
CleanAfterSuccess ==
  medium = "sd" /\ pc = "idle" /\ ret = 0 /\ promised =>
    ~ cs /\ stream # "multi" /\ \A k \in DOMAIN out : out[k] = 0

(* Every call returns: each polling loop counts down, or what it waits for *)
(* comes.  Two loops have no bound: on the busy bit of the flash, which    *)
(* may stay set after an error, and on ACMD41, for a card that refuses the *)
(* voltage, where the build compares one byte of the response to CMD8.     *)
CallsReturn ==
  (pc # "idle") ~> (pc \in {"idle", "dead"} \/ err \/ (medium = "sd" /\ card.kind = "low_volt"))
===========================================================================
