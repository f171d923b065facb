--------------------------- MODULE BootMedia_proofs ---------------------------
(***************************************************************************)
(* Proofs about the boot media, for any contents and sizes of the media,   *)
(* any FIFO depths and timeouts, and any calls: the safety of each driver, *)
(* and that the three of them implement the read function of gpt.h.        *)
(***************************************************************************)
EXTENDS BootMedia, TLAPS

Calls == [op : Ops, addr : Nat, len : Nat]
Arguments == <<call.addr, call.len>>
---------------------------------------------------------------------------
(* The EEPROM.  A message is queued into empty FIFOs; while one of a read  *)
(* is played, the device has what the FIFO has no more.  What comes back   *)
(* are the bytes asked for, if the read stays in the lower block.          *)
served == Ee!Served(call.addr, call.len)
Lower == InLowerBlock(call.addr, served)
Entries(flags) == [flag : flags, byte : 0 .. 255]
Silent == Entries({"start", "tx", "txstop"})  \* those that bring nothing into the RX FIFO

High(a) == (a % Block) \div 256
Low(a) == a % 256
Message == <<[flag |-> "start", byte |-> 160], [flag |-> "tx", byte |-> High(chunk.addr)],
             [flag |-> "txstop", byte |-> Low(chunk.addr)],
             [flag |-> "start", byte |-> 161], [flag |-> "rx", byte |-> chunk.len]>>
Left(n) == Len(fmt) = n /\ \A j \in 1 .. n : fmt[j] = Message[5 - n + j]
Sent(n) == /\ rx = <<>> /\ dev.ctrl = 160 /\ Len(dev.head) = n
           /\ n >= 1 => dev.head[1] = High(chunk.addr)
           /\ n >= 2 => dev.head[2] = Low(chunk.addr)

Receiving ==
  \/ Left(5) /\ rx = <<>>
  \/ Left(4) /\ Sent(0)
  \/ Left(3) /\ Sent(1)
  \/ (Left(2) \/ Left(1)) /\ Sent(2)
  \/ /\ Left(0) /\ Len(rx) = chunk.len
     /\ Lower => \A k \in 1 .. chunk.len : rx[k] = chunk.addr + k - 1

DevType == [ctrl : Nat, head : Seq(Nat), busy : BOOLEAN]

EepromType ==
  /\ pc \in {"idle", "loop", "wait", "fill", "receive"}
  /\ DOMAIN dst = Window /\ offs \in Nat /\ chunk \in [buf : Nat, addr : Nat, len : Nat]
  /\ fmt \in Seq(Entries({"start", "tx", "txstop", "rx"})) /\ rx \in Seq(Nat) /\ on \in BOOLEAN
  /\ dev \in DevType
  /\ pc = "idle" => call = NoCall
  /\ pc # "idle" => call \in Calls /\ call.op \in {"read", "write"}

EepromFifos ==
  /\ pc = "fill" => ~ on /\ fmt = <<>>
  /\ Len(fmt) <= Depth
  /\ pc \in {"wait", "fill", "receive"} => chunk.len \in 1 .. Depth
  /\ pc = "receive" => call.op = "read" /\ Receiving
  /\ pc # "receive" => rx = <<>> /\ fmt \in Seq(Silent)

(* What was received is in place: all before the chunk under way.          *)
Received(n) == \A o \in 0 .. served - 1 : o < n => dst[o] = call.addr + o

EepromRead ==
  pc # "idle" /\ call.op = "read" =>
    /\ Arguments \in EepromReads
    /\ call.addr % Depth # 0 => Depth - (call.addr % Depth) <= offs
    /\ pc = "loop" /\ Lower => Received(offs)
    /\ pc # "loop" => /\ chunk.addr = call.addr + chunk.buf /\ chunk.buf + chunk.len <= served
                      /\ chunk.buf + chunk.len \in {offs, served}
                      /\ Lower => Received(chunk.buf)

EepromInv == EepromType /\ EepromFifos /\ EepromRead
---------------------------------------------------------------------------
(* The flash.  Nothing is sent while a sector is worked on, and the sector *)
(* worked on is one of the page under way.                                 *)
NorType ==
  /\ pc \in {"idle", "read", "wren", "page", "wip"}
  /\ DOMAIN dst = Window /\ DOMAIN disk = Nor!Addresses /\ offs \in Nat /\ ret \in Nat
  /\ step \in [page : Nat, part : 0 .. 2] /\ wip \in Int /\ err \in BOOLEAN
  /\ pc = "idle" => call = NoCall
  /\ pc # "idle" => call \in Calls
  /\ pc = "read" => call.op = "read" /\ Arguments \in NorReads
  /\ pc \in {"wren", "page", "wip"} => call.op = "flash"

NorQuiet ==
  /\ ~ lost
  /\ pc \in {"read", "wren", "page"} => wip = -1
  /\ pc = "idle" /\ ret = 0 => wip = -1
  /\ wip # -1 => pc = "wip" \/ err

InPage(p) == call.addr <= p /\ p < call.addr + call.len
SectorOf(p) == {p * (2 * Sector), p * (2 * Sector) + Sector}

NorPages ==
  /\ pc = "page" => /\ call.addr <= step.page /\ step.page <= call.addr + call.len
                    /\ step.part > 0 => InPage(step.page)
  /\ pc = "wip" => InPage(step.page) /\ (wip # -1 => wip \in SectorOf(step.page))

NorRead == pc = "read" => \A o \in 0 .. call.len - 1 : o < offs => dst[o] = disk[call.addr + o]

NorInv == NorType /\ NorQuiet /\ NorPages /\ NorRead
---------------------------------------------------------------------------
(* The SD card, from power-up.                                             *)
Starting == {"wake", "cmd0", "cmd8", "cmd55", "acmd41"}
Activating == Starting \cup {"cmd58", "cmd16", "speed"}
Reading == {"token", "data", "crc"}
Finishing == {"stop", "stop_resp", "busy", "free"}
Polling == {"resp", "token", "stop_resp", "busy"}

Real == card.kind # "zero"
first == call.addr \div BlockLen
num_blocks == Sd!LenBlocks(call.addr, call.len)
Multi == num_blocks > 1

SdType ==
  /\ pc \in Activating \cup {"dead", "idle", "resp"} \cup Reading \cup Finishing
  /\ card \in [kind : Cards, state : {"power_up", "idle", "starting", "ready"}, app : BOOLEAN]
  /\ DOMAIN dst = Window /\ {ret, b, timeout, lba} \subseteq Nat
  /\ stream \in {"ready", "single", "multi"}
  /\ blk \in Seq(Nat) /\ out \in Seq(Nat) /\ promised \in BOOLEAN
  /\ call # NoCall => call \in Calls /\ call.op = "read" /\ Arguments \in SdReads

(* Only the card that accepted the voltage gets ready, and only a card     *)
(* that got ready is read.                                                 *)
ActivationInv ==
  /\ card.kind = "low_volt" => card.state # "ready"
  /\ pc \in {"cmd55", "acmd41"} => card.kind # "v1"
  /\ pc \notin Starting \cup {"dead"} /\ Real => card.kind = "v2" /\ card.state = "ready"
  /\ pc \notin Activating \cup {"dead"} => clock = "fast"
  /\ pc \in Activating => ret = 0
  /\ pc = "speed" => ~ cs
  /\ pc \in Activating \cup {"dead"} => call = NoCall /\ out = <<>> /\ stream = "ready"
  /\ call = NoCall => /\ pc \in Activating \cup {"dead", "idle"} /\ (pc = "idle" => ret = 0)
                      /\ out = <<>> /\ stream = "ready"

(* A line w that ends with the CRC of a block; then what precedes the      *)
(* block on it cannot be taken for a response, but for symbol r.           *)
CrcLast(w) == w # <<>> /\ w[Len(w)] > 255
Quiet(w, r) == CrcLast(w) => \A j \in 1 .. Len(w) - BlockLen - 1 : j # r => w[j] > 127

(* The block that ends with that CRC is the one waited for.                *)
Current == CrcLast(out) => out[Len(out)] = Sd!Crc(first + b)
(* Too little is left before the CRC to fill a block, or the CRC itself    *)
(* was taken for data.                                                     *)
Starved == CrcLast(out) => Len(out) + Len(blk) <= BlockLen
Spoilt == \E k \in 1 .. Len(blk) : blk[k] > 255
Zeros(w) == \A j \in 1 .. Len(w) : w[j] = 0

(* A CRC is the last thing on the line.  Polling counts down from a        *)
(* positive count.  A card streams on only after a read of several blocks, *)
(* unless it was streaming before.                                         *)
LineInv ==
  /\ \A j \in 1 .. Len(out) - 1 : out[j] < 256
  /\ pc \in Polling => timeout > 0
  /\ promised /\ call # NoCall /\ ~ Multi => stream # "multi"

(* After a read, unless it got no response, what is left on the line is    *)
(* harmless, if the card does not stream on.                               *)
IdleInv ==
  pc = "idle" /\ promised =>
    /\ ret = 0 => ~ cs /\ stream # "multi" /\ Zeros(out)
    /\ ret \notin {0, Sd!ENoResp} /\ stream # "multi" /\ Real => Quiet(out, 0)

(* Waiting for the response: of a card that was not listening and sends    *)
(* what is left of an earlier block, of one that sends the block asked     *)
(* for, or of one that begins to stream.                                   *)
ResponseInv ==
  pc = "resp" =>
    /\ b = 0 /\ blk = <<>>
    /\ promised /\ Real =>
         \/ stream # "multi" /\ Quiet(out, 0)
         \/ /\ stream # "multi" /\ ~ Multi /\ Current
            /\ \E r \in Nat : Quiet(out, r)
         \/ /\ stream = "multi" /\ Multi /\ lba = first
            /\ out # <<>> /\ out[Len(out)] = 0
            /\ \A j \in 1 .. Len(out) - 1 : out[j] = Sd!Idle

StreamInv ==
  pc \in Reading /\ promised /\ Real =>
    /\ stream # "multi" => Quiet(out, 0)
    /\ \/ Spoilt
       \/ stream # "multi" /\ Starved
       \/ stream # "multi" /\ ~ Multi /\ Current
       \/ stream = "multi" /\ Multi /\ pc = "token" /\ out = <<>> /\ lba = first + b
       \/ stream = "multi" /\ Multi /\ CrcLast(out) /\ Current /\ lba = first + b + 1

(* The block under way, of which a block that needs no swap buffer goes    *)
(* straight to its place, and the blocks before it.                        *)
InPlace(n) ==
  \A o \in 0 .. call.len - 1 : o < n =>
    (call.addr + o) \div BlockLen \in DOMAIN Disk /\ dst[o] = ByteOnDisk(call.addr + o)

BlockInv ==
  pc \in Reading =>
    /\ b < num_blocks
    /\ pc = "token" => blk = <<>>
    /\ pc = "data" => Len(blk) < BlockLen /\ Real
    /\ pc = "crc" => Len(blk) = BlockLen /\ Real
    /\ Sd!Swapped \/ \A k \in 0 .. Len(blk) - 1 : dst[Sd!Offset(k)] = blk[k + 1]
    /\ promised => InPlace(Sd!Offset(0))

(* After the last block: the stream is stopped and the card is released.   *)
FinishInv ==
  pc \in Finishing =>
    /\ Real /\ (promised => InPlace(call.len))
    /\ pc # "free" => Multi
    /\ pc = "stop_resp" => /\ stream = "ready"
                           /\ \E n \in 0 .. Len(out) : /\ \A j \in 1 .. n : out[j] = Sd!Idle
                                                       /\ \A j \in n + 1 .. Len(out) : out[j] = 0
    /\ pc = "busy" \/ (pc = "free" /\ promised) => stream # "multi" /\ Zeros(out)

SdInv == SdType /\ ActivationInv /\ LineInv /\ IdleInv /\ ResponseInv /\ StreamInv
         /\ BlockInv /\ FinishInv
---------------------------------------------------------------------------
(* The chosen driver is in order, and the others have done nothing.        *)
MediaInv ==
  /\ medium \in {"i2c", "nor", "sd"}
  /\ medium = "i2c" => EepromInv
  /\ medium = "nor" => NorInv
  /\ medium = "sd" => SdInv
  /\ medium = "i2c" /\ pc # "idle" /\ call.op = "read" => (promised <=> Lower)
  /\ medium = "nor" => promised
  /\ medium # "i2c" => fmt = <<>> /\ rx = <<>> /\ pc # "fill"
  /\ medium # "nor" => ~ lost
---------------------------------------------------------------------------
(* Integer division.                                                       *)
LEMMA DivMod ==
  ASSUME NEW a \in Nat, NEW n \in Nat \ {0}
  PROVE  a \div n \in Nat /\ a % n \in 0 .. n - 1 /\ a = (a \div n) * n + (a % n)
OBVIOUS

(* A number below the divisor is its own remainder.                        *)
LEMMA ModSmall ==
  ASSUME NEW a \in Nat, NEW n \in Nat \ {0}, a < n
  PROVE  a \div n = 0 /\ a % n = a
OBVIOUS

(* The minimum of two integers.                                            *)
LEMMA EeMinIs ==
  ASSUME NEW x \in Int, NEW y \in Int
  PROVE  Ee!Min({x, y}) = IF x <= y THEN x ELSE y
<1> DEFINE m == IF x <= y THEN x ELSE y
<1>1. m \in {x, y} /\ \A z \in {x, y} : m <= z
  OBVIOUS
<1>2. \A z \in {x, y} : (\A u \in {x, y} : z <= u) => z = m
  OBVIOUS
<1> QED
  BY <1>1, <1>2 DEF Ee!Min

(* What the EEPROM's parameters say.                                       *)
LEMMA EepromFacts ==
  /\ Depth \in 8 .. 255 /\ Block = 65536
  /\ Ee!half_fill \in Nat /\ Ee!half_fill + 4 <= Depth
BY EepromAssumption DEF Ee!half_fill

(* Only the low byte of a word is queued.                                  *)
LEMMA PutFacts ==
  ASSUME NEW flag, NEW w \in Int
  PROVE  Ee!Put(flag, w) \in [flag : {flag}, byte : 0 .. 255]
BY DEF Ee!Put, Ee!Byte

(* The header of a message brings nothing into the RX FIFO.                *)
LEMMA HeaderFacts ==
  ASSUME NEW a \in Nat, NEW last \in {"tx", "txstop"}
  PROVE  Ee!Header(a, last) \in Seq(Silent) /\ Len(Ee!Header(a, last)) = 3
<1>1. Ee!CtrlWaddr(a) \in Int /\ (a % Block) \div 256 \in Int
  BY EepromFacts, DivMod DEF Ee!CtrlWaddr
<1>2. /\ Ee!Put("start", Ee!CtrlWaddr(a)) \in Silent /\ Ee!Put(last, a) \in Silent
      /\ Ee!Put("tx", (a % Block) \div 256) \in Silent
  BY <1>1, PutFacts DEF Silent, Entries
<1> QED
  BY <1>2 DEF Ee!Header

(* A concatenation.                                                        *)
LEMMA ConcatFacts ==
  ASSUME NEW S, NEW s \in Seq(S), NEW t \in Seq(S)
  PROVE  /\ s \o t \in Seq(S) /\ Len(s \o t) = Len(s) + Len(t)
         /\ \A j \in 1 .. Len(s) : (s \o t)[j] = s[j]
         /\ \A j \in 1 .. Len(t) : (s \o t)[Len(s) + j] = t[j]
OBVIOUS

(* Silent entries are entries.                                             *)
LEMMA SilentEntries ==
  ASSUME NEW s \in Seq(Silent)
  PROVE  s \in Seq(Entries({"start", "tx", "txstop", "rx"}))
<1>1. Silent \subseteq Entries({"start", "tx", "txstop", "rx"})
  BY DEF Silent, Entries
<1> QED
  BY <1>1

(* The header holds the address within a block; the bit that selects the   *)
(* block is above the byte that is sent.                                   *)
LEMMA HeaderIs ==
  ASSUME NEW a \in Nat
  PROVE  /\ Ee!Byte(Ee!CtrlWaddr(a)) = 160 /\ Ee!Byte(Ee!CtrlWaddr(a) + 1) = 161
         /\ Ee!Byte(High(a)) = High(a) /\ Ee!Byte(a) = Low(a)
         /\ High(a) \in 0 .. 255 /\ Low(a) \in 0 .. 255
         /\ High(a) * 256 + Low(a) = a % Block
<1>1. Block = 65536 /\ Block \div 2 = 32768
  BY EepromFacts
<1>2. PICK k \in 0 .. 1 : (a \div Block) % 2 = k
  BY <1>1
<1>3. Ee!CtrlWaddr(a) = 160 + k * 32768
  BY <1>1, <1>2 DEF Ee!CtrlWaddr
<1>4. Ee!Byte(Ee!CtrlWaddr(a)) = 160 /\ Ee!Byte(Ee!CtrlWaddr(a) + 1) = 161
  <2>1. CASE k = 0
    BY <1>3, <2>1 DEF Ee!Byte
  <2>2. CASE k = 1
    BY <1>3, <2>2 DEF Ee!Byte
  <2> QED
    BY <2>1, <2>2
<1>5. High(a) \in 0 .. 255 /\ Low(a) \in 0 .. 255 /\ High(a) * 256 + Low(a) = a % Block
  BY <1>1 DEF High, Low
<1>6. Ee!Byte(High(a)) = High(a) /\ Ee!Byte(a) = Low(a)
  <2>1. \A w \in 0 .. 255 : w % 256 = w
    OBVIOUS
  <2> QED
    BY <1>5, <2>1 DEF Ee!Byte, Low
<1> QED
  BY <1>4, <1>5, <1>6

(* Where the device reads from, when the header of a was sent.             *)
LEMMA PointerFacts ==
  ASSUME NEW a \in Nat, NEW n \in Nat,
         dev.ctrl = 160, dev.head[1] = High(a), dev.head[2] = Low(a)
  PROVE  /\ Ee!FromPointer(n) \in Seq(Nat) /\ Len(Ee!FromPointer(n)) = n
         /\ a + n <= Block => \A k \in 1 .. n : Ee!FromPointer(n)[k] = a + k - 1
<1>1. Block = 65536
  BY EepromFacts
<1>2. dev.head[1] * 256 + dev.head[2] = a % Block
  BY HeaderIs
<1>3. a % Block \in Nat /\ a % Block < Block
  BY <1>1
<1>4. (160 \div 8) % 2 = 0 /\ Block * 0 = 0
  BY <1>1
<1>5. Ee!Pointer = a % Block
  BY <1>2, <1>3, <1>4, ModSmall, <1>1 DEF Ee!Pointer
<1>6. (a % Block) \div Block = 0
  BY <1>1, <1>3, ModSmall
<1>7. Ee!FromPointer(n) = [k \in 1 .. n |-> ((a % Block) + k - 1) % Block]
  <2>1. \A k \in 1 .. n : /\ ((a % Block) + k - 1) % Block \in Nat
                          /\ Block * 0 + (((a % Block) + k - 1) % Block)
                               = ((a % Block) + k - 1) % Block
    BY <1>1, <1>3
  <2> QED
    BY <1>5, <1>6, <2>1 DEF Ee!FromPointer
<1>8. \A k \in 1 .. n : ((a % Block) + k - 1) % Block \in Nat
  BY <1>1, <1>3
<1>9. ASSUME a + n <= Block, NEW k \in 1 .. n
      PROVE  ((a % Block) + k - 1) % Block = a + k - 1
  <2>1. a < Block /\ a + k - 1 \in Nat /\ a + k - 1 < Block
    BY <1>1, <1>9
  <2>2. a % Block = a
    BY <1>1, <2>1, ModSmall
  <2> QED
    BY <1>1, <2>1, <2>2, ModSmall
<1> QED
  BY <1>7, <1>8, <1>9
---------------------------------------------------------------------------
(* The inductive invariant of the EEPROM, at the start.                     *)
LEMMA EepromInit == Init /\ medium = "i2c" => EepromInv
<1> SUFFICES ASSUME Init, medium = "i2c" PROVE EepromInv
  OBVIOUS
<1>1. EepromType
  BY DEF Init, Ee!Init, EepromType, Entries, DevType
<1>2. EepromFifos /\ EepromRead
  BY EepromFacts DEF Init, Ee!Init, EepromFifos, EepromRead
<1> QED
  BY <1>1, <1>2 DEF EepromInv

(* The bytes that a read brings are no fewer than those asked for.          *)
LEMMA ServedFacts ==
  ASSUME NEW a \in Nat, NEW n \in Nat
  PROVE  /\ Ee!Served(a, n) \in Nat /\ n <= Ee!Served(a, n)
         /\ a % Depth # 0 => /\ Depth - (a % Depth) <= Ee!Served(a, n)
                             /\ Ee!Served(a, n) \in {n, Depth - (a % Depth)}
         /\ a % Depth = 0 => Ee!Served(a, n) = n
<1>1. a % Depth \in 0 .. Depth - 1 /\ Depth \in Nat
  BY EepromFacts, DivMod
<1> QED
  BY <1>1 DEF Ee!Served

(* What is known of the message of a read while it is received.            *)
LEMMA MessageFacts ==
  ASSUME EepromInv, pc \in {"fill", "receive"}, call.op = "read"
  PROVE  /\ chunk.addr \in Nat
         /\ chunk.len \in Nat /\ 0 < chunk.len /\ chunk.len < 256
         /\ Lower => chunk.addr + chunk.len <= Block
<1>1. /\ call.addr \in Nat /\ call.len \in Nat
      /\ chunk.addr = call.addr + chunk.buf /\ chunk.buf + chunk.len <= served
      /\ chunk.len \in 1 .. Depth /\ chunk.buf \in Nat
  BY DEF EepromInv, EepromType, EepromFifos, EepromRead, Calls
<1>2. served \in Nat /\ (Lower => call.addr + served <= Block)
  BY <1>1, ServedFacts DEF served, Lower, InLowerBlock
<1>3. chunk.len \in Nat /\ 0 < chunk.len /\ chunk.len < 256
  BY <1>1, EepromFacts
<1> QED
  BY <1>1, <1>2, <1>3, EepromFacts

(* A call of the EEPROM's read function is one of EepromReads.             *)
LEMMA EepromAccess ==
  ASSUME EepromInv, I2cCall
  PROVE  EepromInv'
<1>1. PICK op \in {"read", "write"}, a \in Nat, n \in Nat :
         Ee!Access(op, a, n) /\ (op = "read" => <<a, n>> \in EepromReads)
  <2>1. ASSUME NEW r \in EepromReads, Ee!Access("read", r[1], r[2])
        PROVE  \E a \in Nat, n \in Nat : Ee!Access("read", a, n) /\ <<a, n>> \in EepromReads
    <3>1. r[1] \in Nat /\ r[2] \in Nat /\ r = <<r[1], r[2]>>
      BY EepromCallsAssumption
    <3> QED
      BY <2>1, <3>1
  <2>2. ASSUME NEW w \in EepromWrites, Ee!Access("write", w[1], w[2])
        PROVE  \E a \in Nat, n \in Nat : Ee!Access("write", a, n)
    <3>1. w[1] \in Nat /\ w[2] \in Nat
      BY EepromCallsAssumption
    <3> QED
      BY <2>2, <3>1
  <2> QED
    BY <2>1, <2>2 DEF I2cCall
<1>2. pc = "idle" /\ fmt \in Seq(Silent) /\ rx = <<>>
  BY <1>1, NoCallAssumption DEF Ee!Access, EepromInv, EepromType, EepromFifos, Calls
<1>3. /\ call' = [op |-> op, addr |-> a, len |-> n] /\ dst' = [o \in Window |-> Untouched]
      /\ UNCHANGED <<fmt, rx, on, dev>>
      /\ \/ /\ a % Depth # 0 /\ offs' = Depth - (a % Depth) /\ pc' = "wait"
            /\ chunk' = [buf |-> 0, addr |-> a, len |-> Depth - (a % Depth)]
         \/ a % Depth = 0 /\ offs' = 0 /\ pc' = "loop" /\ UNCHANGED chunk
  BY <1>1 DEF Ee!Access, Ee!chipVars
<1>4. Depth - (a % Depth) \in 1 .. Depth
  BY EepromFacts, DivMod
<1>5. EepromType'
  <2>1. call' \in Calls /\ call'.op \in {"read", "write"} /\ DOMAIN dst' = Window
    BY <1>3 DEF Calls, Ops
  <2>2. offs' \in Nat /\ chunk' \in [buf : Nat, addr : Nat, len : Nat]
    BY <1>3, <1>4, EepromFacts DEF EepromInv, EepromType
  <2>3. pc' \in {"loop", "wait"}
    BY <1>3
  <2> QED
    BY <1>3, <2>1, <2>2, <2>3 DEF EepromInv, EepromType
<1>6. EepromFifos'
  BY <1>2, <1>3, <1>4 DEF EepromInv, EepromFifos
<1>7. EepromRead'
  <2> SUFFICES ASSUME op = "read" PROVE EepromRead'
    BY <1>3 DEF EepromRead
  <2>1. Arguments' = <<a, n>> /\ <<a, n>> \in EepromReads
    BY <1>1, <1>3 DEF Arguments
  <2>2. /\ call'.addr = a /\ call'.len = n
        /\ a % Depth # 0 => Depth - (a % Depth) <= served'
    BY <1>3, ServedFacts DEF served
  <2>3. Received(0)'
    BY <1>3 DEF Received
  <2> QED
    BY <1>3, <1>4, <2>1, <2>2, <2>3, EepromFacts DEF EepromRead
<1> QED
  BY <1>5, <1>6, <1>7 DEF EepromInv

(* The loop hands out a chunk, of at most the FIFO depth and within the    *)
(* buffer.                                                                 *)
LEMMA EepromNextChunk ==
  ASSUME EepromInv, Ee!NextChunk
  PROVE  EepromInv'
<1> DEFINE n == Ee!Min({Depth, call.len - offs})
<1>1. /\ pc = "loop" /\ pc' = "wait" /\ offs < call.len /\ offs' = offs + Depth
      /\ chunk' = [buf |-> offs, addr |-> call.addr + offs, len |-> n]
      /\ UNCHANGED <<call, dst, fmt, rx, on, dev>>
  BY DEF Ee!NextChunk, Ee!chipVars
<1>2. /\ call \in Calls /\ call.addr \in Nat /\ call.len \in Nat /\ offs \in Nat
      /\ rx = <<>> /\ fmt \in Seq(Silent)
  BY <1>1 DEF EepromInv, EepromType, EepromFifos, Calls
<1>3. n = IF Depth <= call.len - offs THEN Depth ELSE call.len - offs
  BY <1>2, EepromFacts, EeMinIs
<1>4. n \in 1 .. Depth /\ offs + n <= call.len /\ offs + n \in {offs + Depth, call.len}
  <2>1. Depth \in Nat /\ 0 < Depth /\ offs < call.len
    BY <1>1, EepromFacts
  <2> HIDE DEF n
  <2>2. CASE Depth <= call.len - offs
    BY <1>2, <1>3, <2>1, <2>2
  <2>3. CASE ~ (Depth <= call.len - offs)
    <3>1. n = call.len - offs
      BY <1>3, <2>3
    <3>2. call.len - offs \in 1 .. Depth /\ offs + (call.len - offs) = call.len
      BY <1>2, <2>1, <2>3
    <3>3. call.len <= call.len
      BY <1>2
    <3> QED
      BY <3>1, <3>2, <3>3
  <2> QED
    BY <2>2, <2>3
<1>5. EepromType'
  <2>1. offs' \in Nat /\ chunk' \in [buf : Nat, addr : Nat, len : Nat]
    BY <1>1, <1>2, <1>4, EepromFacts
  <2> QED
    BY <1>1, <1>2, <2>1 DEF EepromInv, EepromType
<1>6. EepromFifos'
  BY <1>1, <1>2, <1>4 DEF EepromInv, EepromFifos
<1>7. EepromRead'
  <2> SUFFICES ASSUME call.op = "read" PROVE EepromRead'
    BY <1>1 DEF EepromRead
  <2>1. /\ Arguments \in EepromReads /\ (Lower => Received(offs))
        /\ call.addr % Depth # 0 => Depth - (call.addr % Depth) <= offs
    BY <1>1 DEF EepromInv, EepromRead
  <2>2. Arguments' = Arguments /\ served' = served /\ Lower' = Lower
    BY <1>1 DEF Arguments, served, Lower
  <2>3. /\ chunk'.buf = offs /\ chunk'.addr = call'.addr + chunk'.buf /\ chunk'.len = n
        /\ Lower' => Received(chunk.buf)'
    BY <1>1, <2>1, <2>2 DEF Received
  <2>4. call.addr % Depth \in 0 .. Depth - 1 /\ Depth \in Nat
    <3>1. Depth \in Nat \ {0} /\ call.addr \in Nat
      BY <1>2, EepromFacts
    <3> QED
      BY <3>1, DivMod
  <2>5. served = call.len
    <3>1. CASE call.addr % Depth = 0
      BY <1>2, <3>1, ServedFacts DEF served
    <3>2. CASE call.addr % Depth # 0
      <4>1. served \in {call.len, Depth - (call.addr % Depth)} /\ call.len <= served
        BY <1>2, <3>2, ServedFacts DEF served
      <4>2. Depth - (call.addr % Depth) < call.len
        BY <1>1, <1>2, <2>1, <2>4, <3>2
      <4> QED
        BY <1>2, <2>4, <4>1, <4>2
    <3> QED
      BY <3>1, <3>2
  <2>6. call.addr % Depth # 0 => Depth - (call.addr % Depth) <= offs + Depth
    BY <1>2, <2>1, <2>4
  <2>7. offs + n <= served' /\ offs + n \in {offs', served'}
    BY <1>1, <1>4, <2>2, <2>5
  <2> HIDE DEF n
  <2> QED
    BY <1>1, <2>1, <2>2, <2>3, <2>6, <2>7 DEF EepromRead
<1> QED
  BY <1>5, <1>6, <1>7 DEF EepromInv

(* The access returns, and the host is switched off for the next chunk.    *)
LEMMA EepromReturnVacated ==
  ASSUME EepromInv, Ee!Return \/ Ee!Vacated
  PROVE  EepromInv'
<1>1. CASE Ee!Return
  BY <1>1 DEF Ee!Return, Ee!eepromVars, Ee!chipVars, EepromInv, EepromType, EepromFifos, EepromRead
<1>2. CASE Ee!Vacated
  <2>1. EepromType' /\ EepromFifos'
    BY <1>2 DEF Ee!Vacated, EepromInv, EepromType, EepromFifos
  <2>2. EepromRead'
    BY <1>2 DEF Ee!Vacated, EepromInv, EepromRead, Arguments, Received, served, Lower
  <2> QED
    BY <2>1, <2>2 DEF EepromInv
<1> QED
  BY <1>1, <1>2

(* A write queues a header and at most half a FIFO and a byte more.        *)
LEMMA EepromFillWrite ==
  ASSUME EepromInv, Ee!FillWrite
  PROVE  EepromInv'
<1> DEFINE m == Ee!Min({chunk.len - 1, Ee!half_fill})
           H == Ee!Header(chunk.addr, "tx")
           F == [k \in 1 .. m |-> Ee!Put("tx", chunk.buf + k - 1)]
           L == <<Ee!Put("tx", chunk.buf + chunk.len - 1)>>
<1>1. /\ pc = "fill" /\ call.op = "write" /\ fmt' = fmt \o H \o F \o L /\ on' = TRUE
      /\ \/ /\ chunk.len > Ee!half_fill /\ pc' = "wait"
            /\ chunk' = [buf |-> chunk.buf + chunk.len, addr |-> chunk.addr + chunk.len,
                         len |-> chunk.len - Ee!half_fill]
         \/ pc' = "loop" /\ UNCHANGED chunk
      /\ UNCHANGED <<call, dst, offs, rx, dev>>
  BY DEF Ee!FillWrite
<1>2. /\ fmt = <<>> /\ rx = <<>> /\ chunk.len \in 1 .. Depth
      /\ chunk.buf \in Nat /\ chunk.addr \in Nat
  BY <1>1 DEF EepromInv, EepromType, EepromFifos
<1>3. m \in Nat /\ m <= Ee!half_fill
  <2>1. m = IF chunk.len - 1 <= Ee!half_fill THEN chunk.len - 1 ELSE Ee!half_fill
    BY <1>2, EepromFacts, EeMinIs
  <2> QED
    BY <1>2, <2>1, EepromFacts
<1>4. /\ H \in Seq(Silent) /\ Len(H) = 3
      /\ F \in Seq(Silent) /\ Len(F) = m
      /\ L \in Seq(Silent) /\ Len(L) = 1
  <2>1. \A w \in Int : Ee!Put("tx", w) \in Silent
    BY PutFacts DEF Silent, Entries
  <2> HIDE DEF m
  <2>2. F \in [1 .. m -> Silent]
    BY <1>2, <1>3, <2>1
  <2>3. L \in Seq(Silent) /\ Len(L) = 1
    BY <1>2, <2>1, EepromFacts
  <2> QED
    BY <1>2, <1>3, <2>2, <2>3, HeaderFacts
<1> HIDE DEF m, H, F, L
<1>5. fmt' \in Seq(Silent) /\ Len(fmt') <= Depth
  <2>1. fmt \o H = H
    BY <1>2, <1>4
  <2>2. H \in Seq(Silent) /\ F \in Seq(Silent) /\ L \in Seq(Silent)
    BY <1>4
  <2>3. H \o F \in Seq(Silent) /\ Len(H \o F) = Len(H) + Len(F)
    BY <2>2
  <2>4. (H \o F) \o L \in Seq(Silent) /\ Len((H \o F) \o L) = Len(H \o F) + Len(L)
    BY <2>2, <2>3, ConcatFacts
  <2>5. Len(fmt') = 3 + m + 1
    BY <1>1, <1>4, <2>1, <2>3, <2>4
  <2> QED
    BY <1>1, <1>3, <2>1, <2>4, <2>5, EepromFacts
<1>6. chunk' \in [buf : Nat, addr : Nat, len : Nat] /\ (pc' = "wait" => chunk'.len \in 1 .. Depth)
  BY <1>1, <1>2, EepromFacts DEF EepromInv, EepromType
<1>7. EepromType'
  <2>1. fmt' \in Seq(Entries({"start", "tx", "txstop", "rx"}))
    BY <1>5, SilentEntries
  <2> QED
    BY <1>1, <1>6, <2>1 DEF EepromInv, EepromType
<1>8. EepromFifos' /\ EepromRead'
  BY <1>1, <1>2, <1>5, <1>6 DEF EepromFifos, EepromRead
<1> QED
  BY <1>7, <1>8 DEF EepromInv

(* A read queues its message.                                              *)
LEMMA EepromFillRead ==
  ASSUME EepromInv, Ee!FillRead
  PROVE  EepromInv'
<1> DEFINE H == Ee!Header(chunk.addr, "txstop")
           R == <<Ee!Put("start", Ee!CtrlWaddr(chunk.addr) + 1), Ee!Put("rx", chunk.len)>>
<1>1. /\ pc = "fill" /\ call.op = "read" /\ fmt' = fmt \o H \o R /\ on' = TRUE
      /\ pc' = "receive" /\ UNCHANGED <<call, dst, offs, chunk, rx, dev>>
  BY DEF Ee!FillRead
<1>2. fmt = <<>> /\ rx = <<>> /\ chunk.len \in 1 .. Depth
  BY <1>1 DEF EepromInv, EepromType, EepromFifos
<1>2a. /\ chunk.addr \in Nat
      /\ chunk.len \in Nat /\ 0 < chunk.len /\ chunk.len < 256
  BY <1>1, MessageFacts
<1>3. H = <<Message[1], Message[2], Message[3]>>
  <2>1. /\ Ee!Put("start", Ee!CtrlWaddr(chunk.addr)) = Message[1]
        /\ Ee!Put("tx", (chunk.addr % Block) \div 256) = Message[2]
        /\ Ee!Put("txstop", chunk.addr) = Message[3]
    BY <1>2a, HeaderIs DEF Ee!Put, Message, High
  <2> QED
    BY <2>1 DEF Ee!Header
<1>4. R = <<Message[4], Message[5]>>
  <2>1. Ee!Byte(chunk.len) = chunk.len
    BY <1>2a, ModSmall DEF Ee!Byte
  <2> QED
    BY <1>2a, <2>1, HeaderIs DEF Ee!Put, Message
<1> DEFINE All == Entries({"start", "tx", "txstop", "rx"})
<1>5. Message \in Seq(All) /\ Len(Message) = 5
  <2>1. High(chunk.addr) \in 0 .. 255 /\ Low(chunk.addr) \in 0 .. 255
    BY <1>2a, HeaderIs
  <2>2. chunk.len \in 0 .. 255
    BY <1>2a
  <2> QED
    BY <2>1, <2>2 DEF Message, Entries
<1>6. fmt' \in Seq(All) /\ Left(5)'
  <2> HIDE DEF All
  <2>1. /\ Message[1] \in All /\ Message[2] \in All /\ Message[3] \in All
        /\ Message[4] \in All /\ Message[5] \in All
    BY <1>5
  <2> HIDE DEF H, R
  <2>2. H \in Seq(All) /\ R \in Seq(All)
    BY <1>3, <1>4, <2>1
  <2>3. Len(H) = 3 /\ Len(R) = 2
    BY <1>3, <1>4
  <2>4. fmt' = H \o R
    BY <1>1, <1>2, <2>2
  <2>5. /\ H \o R \in Seq(All) /\ Len(H \o R) = Len(H) + Len(R)
        /\ \A j \in 1 .. Len(H) : (H \o R)[j] = H[j]
        /\ \A j \in 1 .. Len(R) : (H \o R)[Len(H) + j] = R[j]
    BY <2>2
  <2>6. /\ fmt'[1] = H[1] /\ fmt'[2] = H[2] /\ fmt'[3] = H[3]
        /\ fmt'[4] = R[1] /\ fmt'[5] = R[2] /\ Len(fmt') = 5
    <3>1. 3 + 1 = 4 /\ 3 + 2 = 5 /\ 1 \in 1 .. 2 /\ 2 \in 1 .. 2 /\ {1, 2, 3} \subseteq 1 .. 3
      OBVIOUS
    <3> QED
      BY <2>3, <2>4, <2>5, <3>1
  <2>7. \A j \in 1 .. 5 : fmt'[j] = Message[j]
    BY <1>3, <1>4, <2>6
  <2>8. Message' = Message
    BY <1>1 DEF Message
  <2> QED
    BY <2>4, <2>5, <2>6, <2>7, <2>8 DEF Left
<1>7. EepromType'
  BY <1>1, <1>6 DEF EepromInv, EepromType
<1>8. EepromFifos'
  <2>1. Len(fmt') = 5 /\ 5 <= Depth
    BY <1>6, EepromFacts DEF Left
  <2>2. Receiving'
    BY <1>1, <1>2, <1>6 DEF Receiving
  <2> QED
    BY <1>1, <1>2, <2>1, <2>2 DEF EepromFifos
<1>9. EepromRead'
  BY <1>1 DEF EepromInv, EepromRead, Arguments, Received, served, Lower
<1> QED
  BY <1>7, <1>8, <1>9 DEF EepromInv

(* The chunk that was received is what was asked for.                      *)
LEMMA EepromReceive ==
  ASSUME EepromInv, Ee!Receive
  PROVE  EepromInv'
<1>1. /\ pc = "receive" /\ Len(rx) >= chunk.len /\ pc' = "loop"
      /\ dst' = [o \in DOMAIN dst |->
                   IF o - chunk.buf \in 0 .. chunk.len - 1 THEN rx[o - chunk.buf + 1] ELSE dst[o]]
      /\ rx' = SubSeq(rx, chunk.len + 1, Len(rx))
      /\ UNCHANGED <<call, offs, chunk, fmt, on, dev>>
  BY DEF Ee!Receive
<1>2. /\ call.op = "read" /\ Receiving /\ chunk.len \in 1 .. Depth /\ chunk.buf \in Nat
      /\ call.len \in Nat /\ call.addr \in Nat /\ offs \in Nat
      /\ Arguments \in EepromReads /\ (Lower => Received(chunk.buf))
      /\ call.addr % Depth # 0 => Depth - (call.addr % Depth) <= offs
      /\ chunk.addr = call.addr + chunk.buf /\ chunk.buf + chunk.len <= served
      /\ chunk.buf + chunk.len \in {offs, served}
      /\ DOMAIN dst = Window
  BY <1>1 DEF EepromInv, EepromType, EepromFifos, EepromRead, Calls
<1>3. /\ fmt = <<>> /\ Len(rx) = chunk.len
      /\ Lower => \A k \in 1 .. chunk.len : rx[k] = chunk.addr + k - 1
  BY <1>1, <1>2 DEF Receiving, Left, Sent, EepromInv, EepromType
<1>4. rx' = <<>>
  BY <1>1, <1>2, <1>3 DEF EepromInv, EepromType
<1>5. EepromType'
  BY <1>1, <1>4 DEF EepromInv, EepromType
<1>6. EepromFifos'
  BY <1>1, <1>3, <1>4 DEF EepromInv, EepromFifos
<1>7. Lower => Received(offs)'
  <2> SUFFICES ASSUME Lower, NEW o \in 0 .. served - 1, o < offs
               PROVE  dst'[o] = call.addr + o
    BY <1>1 DEF Received, served
  <2>1. o \in DOMAIN dst
    BY <1>2, EepromCallsAssumption DEF InWindow, Arguments, served
  <2>2. CASE o < chunk.buf
    BY <1>1, <1>2, <2>1, <2>2 DEF Received
  <2>3. CASE o >= chunk.buf /\ o < chunk.buf + chunk.len
    <3>1. o - chunk.buf \in 0 .. chunk.len - 1
      BY <1>2, <2>3
    <3>2. dst'[o] = rx[o - chunk.buf + 1]
      BY <1>1, <2>1, <3>1
    <3>3. o - chunk.buf + 1 \in 1 .. chunk.len
      BY <1>2, <3>1
    <3>4. rx[o - chunk.buf + 1] = chunk.addr + (o - chunk.buf + 1) - 1
      BY <1>3, <3>3
    <3> QED
      BY <1>2, <3>2, <3>4
  <2>4. o < chunk.buf + chunk.len
    <3>1. served \in Nat
      BY <1>2, ServedFacts DEF served
    <3> QED
      BY <1>2, <3>1
  <2> QED
    BY <1>2, <2>2, <2>3, <2>4
<1>8. EepromRead'
  BY <1>1, <1>2, <1>7 DEF EepromRead, Arguments, served, Lower
<1> QED
  BY <1>5, <1>6, <1>8 DEF EepromInv

(* What an entry does to the device.                                       *)
LEMMA BusFacts ==
  ASSUME Ee!Bus, dev \in DevType, NEW flags, Head(fmt) \in Entries(flags)
  PROVE  /\ dev' \in DevType
         /\ Head(fmt).flag = "start" /\ Head(fmt).byte % 2 = 0 =>
              dev'.ctrl = Head(fmt).byte /\ dev'.head = <<>>
         /\ Head(fmt).flag \in {"tx", "txstop"} =>
              /\ dev'.ctrl = dev.ctrl
              /\ dev'.head = IF Len(dev.head) < 2 THEN Append(dev.head, Head(fmt).byte)
                                                  ELSE dev.head
         /\ Head(fmt).flag = "rx" \/ (Head(fmt).flag = "start" /\ Head(fmt).byte % 2 # 0) =>
              dev'.ctrl = dev.ctrl /\ dev'.head = dev.head
<1> DEFINE e == Head(fmt)
           hd == IF Len(dev.head) < 2 THEN Append(dev.head, e.byte) ELSE dev.head
           bz == e.flag = "tx"
<1>1. dev' = CASE e.flag = "start" /\ e.byte % 2 = 0 ->
                    [ctrl |-> e.byte, head |-> <<>>, busy |-> TRUE]
               [] e.flag \in {"tx", "txstop"} -> [dev EXCEPT !.head = hd, !.busy = bz]
               [] OTHER -> [dev EXCEPT !.busy = TRUE]
  BY DEF Ee!Bus
<1>2. e.byte \in 0 .. 255 /\ bz \in BOOLEAN
  BY DEF Entries
<1>3. e.byte \in Nat
  BY <1>2
<1>4. dev.head \in Seq(Nat)
  BY DEF DevType
<1>5. hd \in Seq(Nat)
  BY <1>3, <1>4
<1> HIDE DEF e, hd, bz
<1>6. CASE e.flag = "start" /\ e.byte % 2 = 0
  <2>1. dev' = [ctrl |-> e.byte, head |-> <<>>, busy |-> TRUE]
    BY <1>1, <1>6
  <2> QED
    BY <1>3, <1>6, <2>1 DEF e, DevType
<1>7. CASE e.flag \in {"tx", "txstop"}
  <2>1. dev' = [dev EXCEPT !.head = hd, !.busy = bz]
    BY <1>1, <1>7
  <2>2. dev' \in DevType /\ dev'.ctrl = dev.ctrl /\ dev'.head = hd
    BY <1>2, <1>5, <2>1 DEF DevType
  <2> QED
    BY <1>7, <2>2 DEF e, hd
<1>8. CASE e.flag # "start" /\ e.flag \notin {"tx", "txstop"}
  <2>1. dev' = [dev EXCEPT !.busy = TRUE]
    BY <1>1, <1>8
  <2> QED
    BY <1>8, <2>1 DEF DevType, e
<1>9. CASE e.flag = "start" /\ e.byte % 2 # 0
  <2>1. dev' = [dev EXCEPT !.busy = TRUE]
    BY <1>1, <1>9
  <2> QED
    BY <1>9, <2>1 DEF DevType, e
<1> QED
  BY <1>6, <1>7, <1>8, <1>9

(* The host plays an entry of a message that brings nothing in, while the  *)
(* driver does something else.                                             *)
LEMMA EepromBusSilent ==
  ASSUME EepromInv, Ee!Bus, pc # "receive"
  PROVE  EepromInv'
<1>1. /\ on /\ fmt # <<>> /\ fmt' = Tail(fmt)
      /\ UNCHANGED <<call, dst, pc, offs, chunk, on>>
      /\ rx' = IF Head(fmt).flag = "rx" THEN rx \o Ee!FromPointer(Head(fmt).byte) ELSE rx
  BY DEF Ee!Bus
<1>2. rx = <<>> /\ fmt \in Seq(Silent) /\ Len(fmt) <= Depth /\ pc # "fill"
  BY <1>1 DEF EepromInv, EepromFifos
<1>3. Head(fmt) \in Silent /\ fmt' \in Seq(Silent) /\ Len(fmt') = Len(fmt) - 1
  BY <1>1, <1>2
<1>4. Head(fmt).flag # "rx" /\ rx' = rx
  <2>1. Head(fmt).flag \in {"start", "tx", "txstop"}
    BY <1>3 DEF Silent, Entries
  <2> QED
    BY <1>1, <2>1
<1>5. dev' \in DevType
  <2>1. dev \in DevType /\ Head(fmt) \in Entries({"start", "tx", "txstop"})
    BY <1>3 DEF Silent, EepromInv, EepromType
  <2> QED
    BY <2>1, BusFacts
<1>6. EepromType'
  BY <1>1, <1>2, <1>3, <1>4, <1>5, SilentEntries DEF EepromInv, EepromType
<1>7. EepromFifos'
  <2>1. Len(fmt') <= Depth
    BY <1>2, <1>3, EepromFacts
  <2> QED
    BY <1>1, <1>2, <1>3, <1>4, <2>1 DEF EepromInv, EepromFifos
<1>8. EepromRead'
  BY <1>1 DEF EepromInv, EepromRead, Arguments, Received, served, Lower
<1> QED
  BY <1>6, <1>7, <1>8 DEF EepromInv

(* The host plays an entry of the message of a read: the start, the two    *)
(* bytes of the address, the start that turns the bus around, and the      *)
(* length, for which it takes the bytes from the device.                   *)
LEMMA EepromBusReceives ==
  ASSUME EepromInv, Ee!Bus, pc = "receive"
  PROVE  /\ Receiving'
         /\ fmt' = Tail(fmt) /\ Len(fmt') < Len(fmt)
         /\ rx' \in Seq(Nat) /\ dev' \in DevType
<1> DEFINE e == Head(fmt)
<1>1. /\ fmt # <<>> /\ fmt' = Tail(fmt)
      /\ UNCHANGED <<call, dst, pc, offs, chunk, on>>
      /\ rx' = IF e.flag = "rx" THEN rx \o Ee!FromPointer(e.byte) ELSE rx
  BY DEF Ee!Bus
<1>2. /\ chunk.addr \in Nat
      /\ chunk.len \in Nat /\ 0 < chunk.len /\ chunk.len < 256
      /\ Lower => chunk.addr + chunk.len <= Block
  BY <1>1, MessageFacts DEF EepromInv, EepromFifos
<1>3. High(chunk.addr) \in Nat /\ Low(chunk.addr) \in Nat
  <2>1. High(chunk.addr) \in 0 .. 255 /\ Low(chunk.addr) \in 0 .. 255
    BY <1>2, HeaderIs
  <2> QED
    BY <2>1
<1>3a. chunk' = chunk /\ Lower' = Lower
  BY <1>1 DEF Lower, served
<1>4. /\ Receiving /\ fmt \in Seq(Entries({"start", "tx", "txstop", "rx"}))
      /\ rx \in Seq(Nat) /\ dev \in DevType
  BY DEF EepromInv, EepromType, EepromFifos
<1>5. Len(fmt') = Len(fmt) - 1 /\ Len(fmt) > 0 /\ Message' = Message
  BY <1>1, <1>4 DEF Message
<1>6. ASSUME NEW n \in 1 .. 5, Left(n)
      PROVE  e = Message[6 - n] /\ Left(n - 1)'
  <2>1. e = fmt[1]
    BY <1>4, <1>5
  <2>2. e = Message[5 - n + 1]
    BY <1>6, <2>1 DEF Left
  <2>3. \A j \in 1 .. n - 1 : fmt'[j] = fmt[j + 1]
    BY <1>1, <1>4, <1>5, <1>6 DEF Left
  <2>4. \A j \in 1 .. n - 1 : fmt'[j] = Message[5 - (n - 1) + j]
    <3> TAKE j \in 1 .. n - 1
    <3>1. j + 1 \in 1 .. n /\ 5 - n + (j + 1) = 5 - (n - 1) + j
      OBVIOUS
    <3> QED
      BY <1>6, <2>3, <3>1 DEF Left
  <2>5. Len(fmt') = n - 1 /\ 5 - n + 1 = 6 - n
    BY <1>5, <1>6 DEF Left
  <2> QED
    BY <1>5, <2>2, <2>4, <2>5 DEF Left
<1>6a. /\ dev' \in DevType
       /\ e.flag = "start" /\ e.byte % 2 = 0 => dev'.ctrl = e.byte /\ dev'.head = <<>>
       /\ e.flag \in {"tx", "txstop"} =>
            /\ dev'.ctrl = dev.ctrl
            /\ dev'.head = IF Len(dev.head) < 2 THEN Append(dev.head, e.byte) ELSE dev.head
       /\ e.flag = "rx" \/ (e.flag = "start" /\ e.byte % 2 # 0) =>
            dev'.ctrl = dev.ctrl /\ dev'.head = dev.head
  <2>1. e \in Entries({"start", "tx", "txstop", "rx"})
    BY <1>4, <1>5
  <2> QED
    BY <1>4, <2>1, BusFacts
<1> HIDE DEF e
<1> DEFINE h == High(chunk.addr)
           l == Low(chunk.addr)
<1>7. ASSUME Left(5) /\ rx = <<>> PROVE Receiving'
  <2>1. e = [flag |-> "start", byte |-> 160] /\ Left(4)'
    BY <1>6, <1>7 DEF Message
  <2>2. dev'.ctrl = 160 /\ dev'.head = <<>> /\ rx' = <<>>
    BY <1>1, <1>6a, <1>7, <2>1
  <2>3. Sent(0)'
    BY <2>2 DEF Sent
  <2> QED
    BY <2>1, <2>3 DEF Receiving
<1>8. ASSUME Left(4) /\ Sent(0) PROVE Receiving'
  <2>1. e = [flag |-> "tx", byte |-> h] /\ Left(3)'
    BY <1>6, <1>8 DEF Message
  <2>2. dev.head \in Seq(Nat) /\ Len(dev.head) = 0 /\ h \in Nat
    BY <1>3, <1>4, <1>8 DEF DevType, Sent
  <2>3. dev'.ctrl = 160 /\ dev'.head = Append(dev.head, h) /\ rx' = <<>>
    BY <1>1, <1>6a, <1>8, <2>1, <2>2 DEF Sent
  <2>4. Len(dev'.head) = 1 /\ dev'.head[1] = h
    BY <2>2, <2>3
  <2>5. Sent(1)'
    BY <1>3a, <2>3, <2>4 DEF Sent
  <2> QED
    BY <2>1, <2>5 DEF Receiving
<1>9. ASSUME Left(3) /\ Sent(1) PROVE Receiving'
  <2>1. e = [flag |-> "txstop", byte |-> l] /\ Left(2)'
    BY <1>6, <1>9 DEF Message
  <2>2. dev.head \in Seq(Nat) /\ Len(dev.head) = 1 /\ dev.head[1] = h /\ l \in Nat
    BY <1>3, <1>4, <1>9 DEF DevType, Sent
  <2>3. dev'.ctrl = 160 /\ dev'.head = Append(dev.head, l) /\ rx' = <<>>
    BY <1>1, <1>6a, <1>9, <2>1, <2>2 DEF Sent
  <2>4. Len(dev'.head) = 2 /\ dev'.head[1] = h /\ dev'.head[2] = l
    BY <2>2, <2>3
  <2>5. Sent(2)'
    BY <1>3a, <2>3, <2>4 DEF Sent
  <2> QED
    BY <2>1, <2>5 DEF Receiving
<1>10. ASSUME Left(2) /\ Sent(2) PROVE Receiving'
  <2>1. e = [flag |-> "start", byte |-> 161] /\ Left(1)'
    BY <1>6, <1>10 DEF Message
  <2>2. dev'.ctrl = 160 /\ dev'.head = dev.head /\ rx' = <<>>
    BY <1>1, <1>6a, <1>10, <2>1 DEF Sent
  <2>3. Sent(2)'
    BY <1>1, <1>10, <2>2 DEF Sent
  <2> QED
    BY <2>1, <2>3 DEF Receiving
<1>11. ASSUME Left(1) /\ Sent(2) PROVE Receiving'
  <2>1. e = [flag |-> "rx", byte |-> chunk.len] /\ Left(0)'
    BY <1>6, <1>11 DEF Message
  <2>2. /\ Ee!FromPointer(chunk.len) \in Seq(Nat) /\ Len(Ee!FromPointer(chunk.len)) = chunk.len
        /\ Lower => \A k \in 1 .. chunk.len : Ee!FromPointer(chunk.len)[k] = chunk.addr + k - 1
    <3>1. dev.ctrl = 160 /\ dev.head[1] = High(chunk.addr) /\ dev.head[2] = Low(chunk.addr)
      BY <1>11 DEF Sent
    <3> DEFINE q == chunk.addr
               n == chunk.len
    <3>2. q \in Nat /\ n \in Nat
      BY <1>2
    <3> HIDE DEF q, n
    <3>3. dev.ctrl = 160 /\ dev.head[1] = High(q) /\ dev.head[2] = Low(q)
      BY <3>1 DEF q
    <3>4. /\ Ee!FromPointer(n) \in Seq(Nat) /\ Len(Ee!FromPointer(n)) = n
          /\ q + n <= Block => \A k \in 1 .. n : Ee!FromPointer(n)[k] = q + k - 1
      BY <3>2, <3>3, PointerFacts
    <3> QED
      BY <1>2, <3>4 DEF q, n
  <2>3. rx' = Ee!FromPointer(chunk.len) /\ chunk' = chunk
    BY <1>1, <1>11, <2>1, <2>2 DEF Sent
  <2>4. /\ Len(rx') = chunk'.len
        /\ Lower => \A k \in 1 .. chunk'.len : rx'[k] = chunk'.addr + k - 1
    BY <2>2, <2>3
  <2> QED
    BY <1>3a, <2>1, <2>4 DEF Receiving
<1>12. ~ Left(0)
  BY <1>5 DEF Left
<1>13. rx' \in Seq(Nat)
  <2>1. CASE e.flag = "rx"
    <3>1. Left(1) /\ Sent(2)
      BY <1>4, <1>6, <1>12, <2>1 DEF Receiving, Message
    <3>2. e = [flag |-> "rx", byte |-> chunk.len]
      BY <1>6, <3>1 DEF Message
    <3>3. Ee!FromPointer(chunk.len) \in Seq(Nat) /\ rx' = rx \o Ee!FromPointer(chunk.len)
      BY <1>1, <1>2, <2>1, <3>1, <3>2, PointerFacts DEF Sent
    <3> QED
      BY <1>4, <3>3, ConcatFacts
  <2>2. CASE e.flag # "rx"
    BY <1>1, <1>4, <2>2
  <2> QED
    BY <2>1, <2>2
<1>14. Len(fmt') < Len(fmt) /\ dev' \in DevType
  BY <1>4, <1>5, <1>6a DEF DevType
<1> QED
  BY <1>1, <1>13, <1>14, <1>4, <1>7, <1>8, <1>9, <1>10, <1>11, <1>12 DEF Receiving

(* Every step of the EEPROM's driver, its host and its callers keeps the   *)
(* invariant.                                                              *)
LEMMA EepromStep ==
  ASSUME EepromInv, I2cSteps
  PROVE  EepromInv'
<1>1. CASE I2cCall
  BY <1>1, EepromAccess
<1>2. CASE Ee!Driver
  BY <1>2, EepromNextChunk, EepromReturnVacated, EepromFillWrite, EepromFillRead, EepromReceive
     DEF Ee!Driver
<1>3. CASE Ee!Bus /\ pc = "receive"
  <2>1. UNCHANGED <<call, dst, pc, offs, chunk, on>>
    BY <1>3 DEF Ee!Bus
  <2>2. /\ Receiving' /\ fmt' = Tail(fmt) /\ Len(fmt') < Len(fmt)
        /\ rx' \in Seq(Nat) /\ dev' \in DevType
    BY <1>3, EepromBusReceives
  <2>3. EepromType'
    <3>1. fmt # <<>> /\ fmt \in Seq(Entries({"start", "tx", "txstop", "rx"}))
      BY <1>3 DEF Ee!Bus, EepromInv, EepromType
    <3>2. fmt' \in Seq(Entries({"start", "tx", "txstop", "rx"}))
      BY <2>2, <3>1
    <3> QED
      BY <2>1, <2>2, <3>2 DEF EepromInv, EepromType
  <2>4. EepromFifos'
    <3>1. Len(fmt) \in Nat /\ Len(fmt') \in Nat /\ Len(fmt) <= Depth
      BY <2>3 DEF EepromInv, EepromType, EepromFifos
    <3>2. Len(fmt') <= Depth
      BY <2>2, <3>1, EepromFacts
    <3> QED
      BY <1>3, <2>1, <2>2, <3>2 DEF EepromInv, EepromFifos
  <2>5. EepromRead'
    BY <2>1 DEF EepromInv, EepromRead, Arguments, Received, served, Lower
  <2> QED
    BY <2>3, <2>4, <2>5 DEF EepromInv
<1>4. CASE Ee!Bus /\ pc # "receive"
  BY <1>4, EepromBusSilent
<1> QED
  BY <1>1, <1>2, <1>3, <1>4 DEF I2cSteps, OnI2c
---------------------------------------------------------------------------
(* The minimum of two integers, of the flash driver.                       *)
LEMMA NorMinIs ==
  ASSUME NEW x \in Int, NEW y \in Int
  PROVE  Nor!Min({x, y}) = IF x <= y THEN x ELSE y
<1> DEFINE m == IF x <= y THEN x ELSE y
<1>1. m \in {x, y} /\ \A z \in {x, y} : m <= z
  OBVIOUS
<1>2. \A z \in {x, y} : (\A u \in {x, y} : z <= u) => z = m
  OBVIOUS
<1> QED
  BY <1>1, <1>2 DEF Nor!Min

(* A sector's address is a natural number.                                 *)
LEMMA SectorAddress ==
  ASSUME NEW p \in Nat, NEW k \in 0 .. 1
  PROVE  p * (2 * Sector) + k * Sector \in SectorOf(p) /\ SectorOf(p) \subseteq Nat
<1>1. Sector \in Nat /\ p * (2 * Sector) \in Nat /\ 0 * Sector = 0 /\ 1 * Sector = Sector
  BY NorAssumption
<1>2. k = 0 \/ k = 1
  OBVIOUS
<1> QED
  BY <1>1, <1>2 DEF SectorOf

(* A byte in a sector of a page is in that page.                           *)
LEMMA SectorInPage ==
  ASSUME NEW a \in Nat, NEW p \in Nat, NEW s \in SectorOf(p), a \div Sector = s \div Sector
  PROVE  a \div (2 * Sector) = p
<1>1. Sector \in Nat \ {0} /\ 2 * Sector \in Nat \ {0}
  BY NorAssumption
<1>2. PICK k \in {0, 1} : s = (2 * p + k) * Sector
  <2>1. p * (2 * Sector) = (2 * p + 0) * Sector /\ p * (2 * Sector) + Sector = (2 * p + 1) * Sector
    BY <1>1
  <2> QED
    BY <2>1 DEF SectorOf
<1>3. 2 * p + k \in Nat /\ s \in Nat
  BY <1>1, <1>2
<1>4. s \div Sector = 2 * p + k
  BY <1>1, <1>2, <1>3
<1>5. PICK r \in 0 .. Sector - 1 : a = (2 * p + k) * Sector + r
  <2>1. a % Sector \in 0 .. Sector - 1 /\ a = (a \div Sector) * Sector + (a % Sector)
    BY <1>1, DivMod
  <2>2. a \div Sector = 2 * p + k
    BY <1>4
  <2> QED
    BY <2>1, <2>2
<1>6. a = p * (2 * Sector) + (k * Sector + r) /\ k * Sector + r \in 0 .. 2 * Sector - 1
  BY <1>1, <1>5
<1> QED
  BY <1>1, <1>6

(* The inductive invariant of the flash, at the start.                     *)
LEMMA NorInit == Init /\ medium = "nor" => NorInv
<1> SUFFICES ASSUME Init, medium = "nor" PROVE NorInv
  OBVIOUS
<1>1. NorType
  <2>1. step \in [page : Nat, part : 0 .. 2] /\ wip \in Int /\ err \in BOOLEAN
    <3>1. step = [page |-> 0, part |-> 0] /\ wip = -1 /\ err = FALSE
      BY DEF Init, Nor!Init
    <3>2. [page |-> 0, part |-> 0] \in [page : Nat, part : 0 .. 2]
      OBVIOUS
    <3>3. wip \in Int
      BY <3>1
    <3> QED
      BY <3>1, <3>2, <3>3
  <2>2. DOMAIN dst = Window /\ DOMAIN disk = Nor!Addresses /\ offs \in Nat /\ ret \in Nat
    BY DEF Init, Ee!Init, Nor!Init
  <2>3. pc = "idle" /\ call = NoCall
    BY DEF Init
  <2> QED
    BY <2>1, <2>2, <2>3 DEF NorType
<1>2. NorQuiet /\ NorPages /\ NorRead
  BY DEF Init, Nor!Init, NorQuiet, NorPages, NorRead
<1> QED
  BY <1>1, <1>2 DEF NorInv

(* A call of the flash's functions.                                        *)
LEMMA NorCalls ==
  ASSUME NorInv, NorCall
  PROVE  NorInv'
<1>1. CASE \E r \in NorReads : Nor!Read(r[1], r[2])
  <2>1. PICK r \in NorReads : Nor!Read(r[1], r[2])
    BY <1>1
  <2>2. r[1] \in Nat /\ r[2] \in Nat /\ r = <<r[1], r[2]>>
    BY NorCallsAssumption
  <2>3. /\ call = NoCall /\ call' = [op |-> "read", addr |-> r[1], len |-> r[2]]
        /\ dst' = [o \in Window |-> Untouched] /\ offs' = 0 /\ pc' = "read" /\ ret = 0
        /\ UNCHANGED <<ret, step, disk, latch, wip, err, lost>>
    BY <2>1 DEF Nor!Read, NorCall
  <2>4. pc = "idle" /\ wip = -1 /\ ~ lost
    BY <2>3, NoCallAssumption DEF NorInv, NorType, NorQuiet, Calls
  <2>5. call' \in Calls /\ call'.op = "read" /\ Arguments' \in NorReads
    BY <2>2, <2>3 DEF Calls, Ops, Arguments
  <2>6. NorType'
    BY <2>3, <2>5 DEF NorInv, NorType
  <2>7. NorQuiet' /\ NorPages' /\ NorRead'
    BY <2>3, <2>4, <2>5 DEF NorQuiet, NorPages, NorRead, Calls
  <2> QED
    BY <2>6, <2>7 DEF NorInv
<1>2. CASE \E f \in NorFlashes : Nor!Flash(f[1], f[2])
  <2>1. PICK f \in NorFlashes : Nor!Flash(f[1], f[2])
    BY <1>2
  <2>2. f[1] \in Nat /\ f[2] \in Nat
    BY NorCallsAssumption
  <2>3. /\ call = NoCall /\ call' = [op |-> "flash", addr |-> f[1], len |-> f[2]]
        /\ dst' = [o \in Window |-> Untouched] /\ pc' = "wren" /\ ret = 0
        /\ UNCHANGED <<ret, offs, step, disk, latch, wip, err, lost>>
    BY <1>2, <2>1 DEF Nor!Flash, Nor!norVars, NorCall
  <2>4. pc = "idle" /\ wip = -1 /\ ~ lost
    BY <2>3, NoCallAssumption DEF NorInv, NorType, NorQuiet, Calls
  <2>5. call' \in Calls /\ call'.op = "flash"
    BY <2>2, <2>3 DEF Calls, Ops
  <2>6. NorType'
    BY <2>3, <2>5 DEF NorInv, NorType
  <2>7. NorQuiet' /\ NorPages' /\ NorRead'
    BY <2>3, <2>4 DEF NorQuiet, NorPages, NorRead
  <2> QED
    BY <2>6, <2>7 DEF NorInv
<1> QED
  BY <1>1, <1>2 DEF NorCall

(* A read goes on chunk by chunk, and returns.                             *)
LEMMA NorReading ==
  ASSUME NorInv, Nor!ReadChunk \/ Nor!ReadReturn
  PROVE  NorInv'
<1>1. CASE Nor!ReadChunk
  <2> DEFINE n == Nor!Min({Chunk, call.len - offs})
  <2>1. /\ pc = "read" /\ offs < call.len /\ lost' = (lost \/ wip # -1) /\ offs' = offs + Chunk
        /\ dst' = [o \in DOMAIN dst |->
                     IF o - offs \in 0 .. n - 1 /\ wip = -1 THEN disk[call.addr + o] ELSE dst[o]]
        /\ UNCHANGED <<call, ret, pc, step, disk, latch, wip, err>>
    BY <1>1 DEF Nor!ReadChunk, Nor!Command
  <2>2. /\ wip = -1 /\ ~ lost /\ offs \in Nat /\ call.len \in Nat /\ call.addr \in Nat
        /\ DOMAIN dst = Window /\ Arguments \in NorReads
    BY <2>1 DEF NorInv, NorType, NorQuiet, Calls
  <2>3. Chunk \in Nat \ {0} /\ n = IF Chunk <= call.len - offs THEN Chunk ELSE call.len - offs
    BY <2>2, NorAssumption, NorMinIs
  <2> HIDE DEF n
  <2>4. NorType'
    <3>1. Arguments' = Arguments /\ offs' \in Nat /\ DOMAIN dst' = Window
      BY <2>1, <2>2, <2>3 DEF Arguments
    <3> QED
      BY <2>1, <3>1 DEF NorInv, NorType
  <2>5. NorQuiet' /\ NorPages'
    BY <2>1, <2>2 DEF NorInv, NorQuiet, NorPages
  <2>6. NorRead'
    <3> SUFFICES ASSUME NEW o \in 0 .. call.len - 1, o < offs + Chunk
                 PROVE  dst'[o] = disk[call.addr + o]
      BY <2>1 DEF NorRead
    <3>1. o \in DOMAIN dst
      BY <2>2, NorCallsAssumption DEF InWindow, Arguments
    <3>2. CASE o < offs
      <4>1. dst[o] = disk[call.addr + o]
        BY <2>1, <3>2 DEF NorInv, NorRead
      <4> QED
        BY <2>1, <3>1, <4>1
    <3>3. CASE o >= offs
      <4>1. o - offs \in 0 .. n - 1
        BY <2>2, <2>3, <3>3
      <4> QED
        BY <2>1, <2>2, <3>1, <4>1
    <3> QED
      BY <2>2, <3>2, <3>3
  <2> QED
    BY <2>4, <2>5, <2>6 DEF NorInv
<1>2. CASE Nor!ReadReturn
  BY <1>2 DEF Nor!ReadReturn, Nor!Return, Nor!norVars, NorInv, NorType, NorQuiet, NorPages, NorRead
<1> QED
  BY <1>1, <1>2

(* The flashing of pages: nothing is sent to a busy flash.                 *)
LEMMA NorFlashing ==
  ASSUME NorInv,
         Nor!WriteEnable \/ Nor!Erase \/ Nor!Program \/ Nor!FlashReturn \/ Nor!PollWip
  PROVE  NorInv'
<1>1. CASE Nor!WriteEnable
  <2>1. /\ pc = "wren" /\ lost' = (lost \/ wip # -1) /\ pc' = "page"
        /\ step' = [page |-> call.addr, part |-> 0]
        /\ UNCHANGED <<call, dst, ret, offs, disk, wip, err>>
    BY <1>1 DEF Nor!WriteEnable, Nor!Command
  <2>2. wip = -1 /\ ~ lost /\ call \in Calls /\ call.addr \in Nat /\ call.len \in Nat
    BY <2>1 DEF NorInv, NorType, NorQuiet, Calls
  <2>3. NorType'
    BY <2>1, <2>2 DEF NorInv, NorType
  <2>4. NorQuiet' /\ NorRead'
    BY <2>1, <2>2 DEF NorQuiet, NorRead
  <2>5. call'.addr <= step'.page /\ step'.page <= call'.addr + call'.len /\ ~ (step'.part > 0)
    BY <2>1, <2>2
  <2>6. NorPages'
    BY <2>1, <2>5 DEF NorPages
  <2> QED
    BY <2>3, <2>4, <2>6 DEF NorInv
<1>2. CASE Nor!Erase \/ Nor!Program
  <2>1. /\ pc = "page" /\ lost' = (lost \/ wip # -1) /\ pc' = "wip" /\ DOMAIN dst' = DOMAIN dst
        /\ UNCHANGED <<call, ret, offs, step, disk, err>>
    BY <1>2 DEF Nor!Erase, Nor!Program, Nor!Command
  <2>2. /\ wip = -1 /\ ~ lost /\ step.page \in Nat /\ step.part \in 0 .. 2
        /\ call.addr <= step.page /\ (step.part > 0 => InPage(step.page))
    BY <2>1 DEF NorInv, NorType, NorQuiet, NorPages
  <2>3. InPage(step.page)
    BY <1>2, <2>2 DEF Nor!Erase, Nor!Program, InPage
  <2>4. wip' = -1 \/ wip' \in SectorOf(step.page)
    <3>1. CASE Nor!Erase
      <4>1. wip' = wip \/ wip' = step.page * (2 * Sector) + step.part * Sector
        BY <3>1 DEF Nor!Erase, Nor!SectorAddress, Nor!Page
      <4>2. step.part \in 0 .. 1
        BY <2>2, <3>1 DEF Nor!Erase
      <4> QED
        BY <2>2, <4>1, <4>2, SectorAddress
    <3>2. CASE Nor!Program
      BY <2>2, <3>2 DEF Nor!Program, Nor!Page, SectorOf
    <3> QED
      BY <1>2, <3>1, <3>2
  <2>5. wip' \in Int
    <3>1. SectorOf(step.page) \subseteq Nat
      BY <2>2, SectorAddress
    <3> QED
      BY <2>4, <3>1
  <2>6. NorType'
    BY <2>1, <2>5 DEF NorInv, NorType
  <2>7. NorQuiet' /\ NorPages' /\ NorRead'
    <3>1. InPage(step.page)'
      BY <2>1, <2>3 DEF InPage
    <3>2. SectorOf(step.page)' = SectorOf(step.page)
      BY <2>1 DEF SectorOf
    <3> QED
      BY <2>1, <2>2, <2>4, <3>1, <3>2 DEF NorQuiet, NorPages, NorRead
  <2> QED
    BY <2>6, <2>7 DEF NorInv
<1>3. CASE Nor!FlashReturn
  BY <1>3 DEF Nor!FlashReturn, Nor!Return, Nor!norVars, NorInv, NorType, NorQuiet, NorPages, NorRead
<1>4. CASE Nor!PollWip
  <2>1. /\ pc = "wip" /\ wip = -1 /\ UNCHANGED <<dst, offs, disk, latch, wip, err, lost>>
        /\ \/ err /\ call' = NoCall /\ ret' = 32 /\ pc' = "idle" /\ UNCHANGED step
           \/ step' = Nor!NextStep /\ pc' = "page" /\ UNCHANGED <<call, ret>>
    BY <1>4 DEF Nor!PollWip, Nor!Return
  <2>2. /\ step.page \in Nat /\ step.part \in 0 .. 2 /\ InPage(step.page) /\ ~ lost
        /\ step \in [page : Nat, part : 0 .. 2] /\ call.addr \in Nat /\ call.len \in Nat
    BY <2>1 DEF NorInv, NorType, NorQuiet, NorPages, Calls
  <2>3. CASE pc' = "idle"
    BY <2>1, <2>2, <2>3 DEF NorInv, NorType, NorQuiet, NorPages, NorRead
  <2>4. CASE pc' = "page"
    <3>1. /\ step' = Nor!NextStep /\ UNCHANGED <<call, ret>>
      BY <2>1, <2>4
    <3>2. \/ /\ step'.page = step.page /\ step'.part = step.part + 1 /\ step.part < 2
             /\ step' \in [page : Nat, part : 0 .. 2]
          \/ step' = [page |-> step.page + 1, part |-> 0]
      BY <2>2, <3>1 DEF Nor!NextStep
    <3>3. step' \in [page : Nat, part : 0 .. 2]
      BY <2>2, <3>2
    <3>4. /\ call'.addr <= step'.page /\ step'.page <= call'.addr + call'.len
          /\ step'.part > 0 => InPage(step.page)'
      BY <2>2, <3>1, <3>2 DEF InPage
    <3>5. NorType'
      BY <2>1, <2>4, <3>1, <3>3 DEF NorInv, NorType
    <3>6. NorQuiet' /\ NorPages' /\ NorRead'
      BY <2>1, <2>2, <2>4, <3>4 DEF NorQuiet, NorPages, NorRead
    <3> QED
      BY <3>5, <3>6 DEF NorInv
  <2> QED
    BY <2>1, <2>3, <2>4
<1> QED
  BY <1>1, <1>2, <1>3, <1>4

(* The flash ends what it does: it was told so by the flashing of a page.  *)
LEMMA NorComplete ==
  ASSUME NorInv, Nor!Complete
  PROVE  NorInv' /\ pc = "wip" /\ wip # -1
<1>1. /\ wip # -1 /\ ~ err /\ UNCHANGED <<call, dst, ret, pc, offs, step, lost>>
      /\ wip' \in {wip, -1} /\ (wip' = wip => err') /\ err' \in BOOLEAN
      /\ DOMAIN disk = Nor!Addresses => DOMAIN disk' = Nor!Addresses
  BY DEF Nor!Complete, NorInv, NorType
<1>2. pc = "wip"
  BY <1>1 DEF NorInv, NorQuiet
<1>3. NorType'
  BY <1>1, <1>2 DEF NorInv, NorType
<1>4. NorQuiet' /\ NorPages' /\ NorRead'
  <2>1. InPage(step.page)' <=> InPage(step.page)
    BY <1>1 DEF InPage
  <2>2. SectorOf(step.page)' = SectorOf(step.page)
    BY <1>1 DEF SectorOf
  <2> QED
    BY <1>1, <1>2, <2>1, <2>2 DEF NorInv, NorQuiet, NorPages, NorRead
<1> QED
  BY <1>1, <1>2, <1>3, <1>4 DEF NorInv

(* Every step of the flash, its driver and its callers keeps the           *)
(* invariant.                                                              *)
LEMMA NorStep ==
  ASSUME NorInv, NorSteps
  PROVE  NorInv'
BY NorCalls, NorReading, NorFlashing, NorComplete DEF NorSteps, OnNor, Nor!Driver
---------------------------------------------------------------------------
(* The inductive invariant of the SD card, at power-up.                    *)
LEMMA SdInit == Init /\ medium = "sd" => SdInv
<1> SUFFICES ASSUME Init, medium = "sd" PROVE SdInv
  OBVIOUS
<1>1. /\ pc = "wake" /\ call = NoCall /\ ret = 0 /\ b = 0 /\ timeout = 0 /\ lba = 0
      /\ blk = <<>> /\ out = <<>> /\ stream = "ready" /\ DOMAIN dst = Window
      /\ promised = TRUE
      /\ card \in [kind : Cards, state : {"power_up"}, app : {FALSE}]
  BY DEF Init, Act!Init, Sd!Init
<1>2. SdType
  <2>1. card \in [kind : Cards, state : {"power_up", "idle", "starting", "ready"}, app : BOOLEAN]
    BY <1>1
  <2>2. {ret, b, timeout, lba} \subseteq Nat
    BY <1>1
  <2>3. blk \in Seq(Nat) /\ out \in Seq(Nat)
    BY <1>1
  <2> QED
    BY <1>1, <2>1, <2>2, <2>3 DEF SdType, Activating, Starting
<1>3. ActivationInv
  BY <1>1 DEF ActivationInv, Activating, Starting
<1>4. LineInv /\ IdleInv
  BY <1>1 DEF LineInv, IdleInv, Polling
<1>5. ResponseInv /\ StreamInv /\ BlockInv /\ FinishInv
  BY <1>1 DEF ResponseInv, StreamInv, BlockInv, FinishInv, Reading, Finishing
<1> QED
  BY <1>2, <1>3, <1>4, <1>5 DEF SdInv

CardType == [kind : Cards, state : {"power_up", "idle", "starting", "ready"}, app : BOOLEAN]

(* What a command does to the card: only CMD0 takes it out of the ready    *)
(* state, and none brings it there.                                        *)
LEMMA CardAfterFacts ==
  ASSUME card \in CardType, NEW cmd
  PROVE  /\ Act!CardAfter(cmd) \in CardType /\ Act!CardAfter(cmd).kind = card.kind
         /\ Act!CardAfter(cmd).state = "ready" => card.state = "ready"
         /\ cmd # "CMD0" /\ card.state = "ready" => Act!CardAfter(cmd).state = "ready"
<1> DEFINE s == CASE cmd = "CMD0" -> "idle"
                  [] cmd = "ACMD41" /\ card.state = "idle" /\ card.app -> "starting"
                  [] OTHER -> card.state
           a == cmd = "CMD55"
<1>1. Act!CardAfter(cmd) = [card EXCEPT !.app = a, !.state = s]
  BY DEF Act!CardAfter
<1>2. s \in {"power_up", "idle", "starting", "ready"}
  BY DEF CardType
<1>3. a \in BOOLEAN
  OBVIOUS
<1>4. (s = "ready" => card.state = "ready") /\ (cmd # "CMD0" /\ card.state = "ready" => s = "ready")
  OBVIOUS
<1> HIDE DEF s, a
<1>5. /\ Act!CardAfter(cmd) \in CardType /\ Act!CardAfter(cmd).kind = card.kind
      /\ Act!CardAfter(cmd).state = s
  BY <1>1, <1>2, <1>3 DEF CardType
<1> QED
  BY <1>4, <1>5

(* A version 1 card does not pass the check of its answer to CMD8.         *)
LEMMA Version1Fails ==
  ASSUME card.kind = "v1", NEW fits \in Act!Fits(Act!Answer("CMD8"), <<1, 0, 0, 1, 170>>)
  PROVE  ~ fits /\ Act!CodeOf(Act!Answer("CMD8")) # 0
<1> DEFINE r == Act!Answer("CMD8")
           exp == <<1, 0, 0, 1, 170>>
<1>1. r = <<5, 255, 255, 255, 255>>
  BY DEF Act!Answer
<1>2. r \in Seq(Nat) /\ exp \in Seq(Nat) /\ Len(r) = 5 /\ Len(exp) = 5 /\ r[1] = 5 /\ exp[1] = 1
  <2>1. /\ <<5, 255, 255, 255, 255>> \in Seq(Nat) /\ Len(<<5, 255, 255, 255, 255>>) = 5
        /\ <<5, 255, 255, 255, 255>>[1] = 5
    OBVIOUS
  <2>2. exp \in Seq(Nat) /\ Len(exp) = 5 /\ exp[1] = 1
    OBVIOUS
  <2> HIDE DEF exp, r
  <2> QED
    BY <1>1, <2>1, <2>2
<1>3. Act!CodeOf(r) # 0
  BY <1>2 DEF Act!CodeOf, Act!EResponse
<1> HIDE DEF r, exp
<1>4. fits \in UNION {IF n < 8 THEN {SubSeq(r, 1, n) = SubSeq(exp, 1, n)}
                      ELSE IF r = exp THEN BOOLEAN ELSE {FALSE} : n \in CheckedBytes}
  <2>1. Len(r) # 1
    BY <1>2
  <2> QED
    BY <2>1, Zenon DEF Act!Fits, r, exp
<1>5. PICK n \in CheckedBytes :
         fits \in IF n < 8 THEN {SubSeq(r, 1, n) = SubSeq(exp, 1, n)}
                  ELSE IF r = exp THEN BOOLEAN ELSE {FALSE}
  BY <1>4
<1>6. n \in 1 .. 5 \/ n = 8
  BY CardAssumption
<1>7. r # exp
  BY <1>2
<1>8. CASE n \in 1 .. 5
  <2>1. SubSeq(r, 1, n)[1] = 5 /\ SubSeq(exp, 1, n)[1] = 1
    BY <1>2, <1>8
  <2>2. ASSUME SubSeq(r, 1, n) = SubSeq(exp, 1, n) PROVE FALSE
    <3>1. SubSeq(r, 1, n)[1] = SubSeq(exp, 1, n)[1]
      BY <2>2, Zenon
    <3>2. 5 # 1
      OBVIOUS
    <3> QED
      BY <2>1, <3>1, <3>2, Zenon
  <2>3. n < 8
    BY <1>8
  <2>4. ~ fits
    BY <1>5, <2>2, <2>3, Zenon
  <2> QED
    BY <1>3, <2>4 DEF r
<1>9. CASE n = 8
  BY <1>3, <1>5, <1>7, <1>9 DEF r
<1> QED
  BY <1>6, <1>8, <1>9

(* A step before the first read that keeps the activation in order.        *)
LEMMA ActivationKeeps ==
  ASSUME SdInv, pc \in Activating, UNCHANGED <<call, dst, sdVars, promised>>,
         pc' \in Activating \cup {"dead"}, card' \in CardType, ret' \in Nat, ActivationInv'
  PROVE  SdInv'
<1>1. /\ UNCHANGED <<call, dst, b, blk, timeout, out, stream, lba, promised>>
      /\ call' = NoCall
  BY DEF sdVars, ActivationInv
<1>2. pc' \notin {"idle", "resp"} \cup Polling \cup Reading \cup Finishing
  BY DEF Activating, Starting, Polling, Reading, Finishing
<1>3. SdType'
  BY <1>1 DEF SdInv, SdType, CardType
<1>4. LineInv' /\ IdleInv' /\ ResponseInv' /\ StreamInv' /\ BlockInv' /\ FinishInv'
  BY <1>1, <1>2 DEF SdInv, LineInv, IdleInv, ResponseInv, StreamInv, BlockInv, FinishInv
<1> QED
  BY <1>3, <1>4 DEF SdInv

(* The commands of the initialisation, and the card that gets ready.       *)
LEMMA SdActivation ==
  ASSUME SdInv, Activation
  PROVE  SdInv'
<1>0. promised' = promised
  <2>1. ~ Called
    BY DEF Called, Activation, OnSd, Act!Driver, Act!Wake, Act!Cmd0, Act!Cmd8, Act!Cmd55,
           Act!Acmd41, Act!Cmd58, Act!Cmd16, Act!SpeedUp, Act!Check, Act!Discard,
           Act!CardGetsReady
  <2> QED
    BY <2>1 DEF Activation, OnSd
<1>1. UNCHANGED <<call, dst, sdVars, promised>> /\ card \in CardType /\ ret \in Nat /\ ActivationInv
  BY <1>0 DEF Activation, OnSd, SdInv, SdType, CardType
<1>2. UNCHANGED <<call, out, stream>>
  BY <1>1 DEF sdVars
<1>3. ASSUME NEW cmd, card' = Act!CardAfter(cmd)
      PROVE  /\ card' \in CardType /\ card'.kind = card.kind
             /\ card'.state = "ready" => card.state = "ready"
             /\ cmd # "CMD0" /\ card.state = "ready" => card'.state = "ready"
  BY <1>1, <1>3, CardAfterFacts
<1>4. ASSUME NEW l \in {"wake", "cmd0", "cmd8", "cmd55", "acmd41", "cmd58", "cmd16", "speed"}
      PROVE  pc = l =>
               l \in Activating /\ call = NoCall /\ out = <<>> /\ stream = "ready" /\ ret = 0
  BY <1>1 DEF ActivationInv, Activating, Starting
<1>5. ASSUME pc \in Activating, pc' = "dead", ret' \in Nat, card'.kind = card.kind,
             card' \in CardType, card'.state = "ready" => card.state = "ready"
      PROVE  SdInv'
  <2>1. ActivationInv'
    BY <1>1, <1>2, <1>5 DEF ActivationInv, Activating, Starting, Real
  <2> QED
    BY <1>1, <1>5, <2>1, ActivationKeeps
<1>6. CASE Act!Wake
  <2>1. pc = "wake" /\ pc' = "cmd0" /\ UNCHANGED <<ret, card>>
    BY <1>6 DEF Act!Wake, Act!Go
  <2>2. ActivationInv'
    BY <1>1, <1>2, <1>4, <2>1 DEF ActivationInv, Activating, Starting
  <2> QED
    BY <1>1, <2>1, <2>2, ActivationKeeps DEF Activating, Starting
<1>7. ASSUME NEW here, NEW cmd, NEW exp, NEW next,
             pc = here, here \in Activating, Act!Check(here, cmd, exp, next)
      PROVE  \/ SdInv' /\ pc' = "dead"
             \/ /\ pc' = next /\ ret' = ret /\ card' = Act!CardAfter(cmd) /\ cs' = FALSE
                /\ \E fits \in Act!Fits(Act!Answer(cmd), exp) :
                     fits \/ Act!CodeOf(Act!Answer(cmd)) = 0
  <2>1. CASE Act!Silence
    <3>1. pc' = "dead" /\ ret' = 18 /\ card' = card
      BY <2>1 DEF Act!Silence, Act!Fail, Act!ENoResp
    <3> QED
      BY <1>1, <1>5, <1>7, <3>1
  <2>2. CASE /\ pc' = "dead" /\ ret' = Act!CodeOf(Act!Answer(cmd))
             /\ card' = Act!CardAfter(cmd)
    <3>1. ret' \in Nat
      BY <2>2 DEF Act!CodeOf, Act!EResponse
    <3> QED
      BY <1>3, <1>5, <1>7, <2>2, <3>1
  <2> QED
    BY <1>7, <2>1, <2>2 DEF Act!Check, Act!Go, Act!Fail
<1>8. ASSUME NEW here, NEW cmd, NEW next,
             pc = here, here \in Activating, Act!Discard(here, cmd, next)
      PROVE  \/ SdInv' /\ pc' = "dead"
             \/ pc' = next /\ ret' = ret /\ card' = Act!CardAfter(cmd)
  <2>1. CASE Act!Silence
    <3>1. pc' = "dead" /\ ret' = 18 /\ card' = card
      BY <2>1 DEF Act!Silence, Act!Fail, Act!ENoResp
    <3> QED
      BY <1>1, <1>5, <1>8, <3>1
  <2> QED
    BY <1>8, <2>1 DEF Act!Discard, Act!Go
<1>9. CASE Act!Cmd0
  <2>1. pc = "cmd0" /\ Act!Check("cmd0", "CMD0", <<1>>, "cmd8")
    BY <1>9 DEF Act!Cmd0, Act!Check
  <2>2. SdInv' \/ (pc' = "cmd8" /\ ret' = ret /\ card' = Act!CardAfter("CMD0"))
    BY <1>4, <1>7, <2>1
  <2>3. ASSUME pc' = "cmd8", ret' = ret, card' = Act!CardAfter("CMD0") PROVE SdInv'
    <3>1. ActivationInv'
      BY <1>1, <1>2, <1>3, <1>4, <2>1, <2>3 DEF ActivationInv, Activating, Starting
    <3> QED
      BY <1>1, <1>3, <1>4, <2>1, <2>3, <3>1, ActivationKeeps DEF Activating, Starting
  <2> QED
    BY <2>2, <2>3
<1>10. CASE Act!Cmd8
  <2>1. pc = "cmd8" /\ Act!Check("cmd8", "CMD8", <<1, 0, 0, 1, 170>>, "cmd55")
    BY <1>10 DEF Act!Cmd8, Act!Check, Act!Echo
  <2>2. \/ SdInv'
        \/ /\ pc' = "cmd55" /\ ret' = ret /\ card' = Act!CardAfter("CMD8")
           /\ \E fits \in Act!Fits(Act!Answer("CMD8"), <<1, 0, 0, 1, 170>>) :
                     fits \/ Act!CodeOf(Act!Answer("CMD8")) = 0
    BY <1>4, <1>7, <2>1
  <2>3. ASSUME /\ pc' = "cmd55" /\ ret' = ret /\ card' = Act!CardAfter("CMD8")
               /\ \E fits \in Act!Fits(Act!Answer("CMD8"), <<1, 0, 0, 1, 170>>) :
                     fits \/ Act!CodeOf(Act!Answer("CMD8")) = 0
        PROVE  SdInv'
    <3>1. card.kind # "v1"
      BY <2>3, Version1Fails
    <3>2. ActivationInv'
      BY <1>1, <1>2, <1>3, <1>4, <2>1, <2>3, <3>1 DEF ActivationInv, Activating, Starting
    <3> QED
      BY <1>1, <1>3, <1>4, <2>1, <2>3, <3>2, ActivationKeeps DEF Activating, Starting
  <2> QED
    BY <2>2, <2>3
<1>11. CASE Act!Cmd55
  <2>1. pc = "cmd55" /\ Act!Discard("cmd55", "CMD55", "acmd41")
    BY <1>11 DEF Act!Cmd55, Act!Discard
  <2>2. SdInv' \/ (pc' = "acmd41" /\ ret' = ret /\ card' = Act!CardAfter("CMD55"))
    BY <1>4, <1>8, <2>1
  <2>3. ASSUME pc' = "acmd41", ret' = ret, card' = Act!CardAfter("CMD55") PROVE SdInv'
    <3>1. ActivationInv'
      BY <1>1, <1>2, <1>3, <1>4, <2>1, <2>3 DEF ActivationInv, Activating, Starting
    <3> QED
      BY <1>1, <1>3, <1>4, <2>1, <2>3, <3>1, ActivationKeeps DEF Activating, Starting
  <2> QED
    BY <2>2, <2>3
<1>12. CASE Act!Acmd41
  <2>1. /\ pc = "acmd41"
        /\ \/ Act!Silence
           \/ /\ pc' = IF Act!Answer("ACMD41") = <<0>> THEN "cmd58" ELSE "cmd55"
              /\ ret' = ret /\ card' = Act!CardAfter("ACMD41")
    BY <1>12 DEF Act!Acmd41, Act!Go
  <2>2. CASE Act!Silence
    <3>1. pc' = "dead" /\ ret' = 18 /\ card' = card
      BY <2>2 DEF Act!Silence, Act!Fail, Act!ENoResp
    <3> QED
      BY <1>1, <1>4, <1>5, <2>1, <3>1
  <2>3. CASE /\ pc' = IF Act!Answer("ACMD41") = <<0>> THEN "cmd58" ELSE "cmd55"
             /\ ret' = ret /\ card' = Act!CardAfter("ACMD41")
    <3>1. Act!Answer("ACMD41") = <<0>> /\ Real => card.state = "ready"
      <4>1. Real => Act!Answer("ACMD41") = IF card.app THEN <<Act!R1>> ELSE <<Act!R1 + 4>>
        BY DEF Act!Answer, Real
      <4>2. Act!R1 + 4 # 0 /\ (Act!R1 = 0 => card.state = "ready")
        BY DEF Act!R1
      <4> QED
        BY <4>1, <4>2
    <3>2. /\ card.kind \in {"v2", "low_volt", "zero"}
          /\ card.state = "ready" => card.kind # "low_volt"
      BY <1>1, <2>1, CardAssumption DEF ActivationInv, CardType
    <3>3. ActivationInv'
      BY <1>1, <1>2, <1>3, <1>4, <2>1, <2>3, <3>1, <3>2
         DEF ActivationInv, Activating, Starting, Real
    <3> QED
      BY <1>1, <1>3, <1>4, <2>1, <2>3, <3>3, ActivationKeeps DEF Activating, Starting
  <2> QED
    BY <2>1, <2>2, <2>3
<1>13. CASE Act!Cmd58
  <2>1. pc = "cmd58" /\ Act!Discard("cmd58", "CMD58", "cmd16")
    BY <1>13 DEF Act!Cmd58, Act!Discard
  <2>2. SdInv' \/ (pc' = "cmd16" /\ ret' = ret /\ card' = Act!CardAfter("CMD58"))
    BY <1>4, <1>8, <2>1
  <2>3. ASSUME pc' = "cmd16", ret' = ret, card' = Act!CardAfter("CMD58") PROVE SdInv'
    <3>1. ActivationInv'
      BY <1>1, <1>2, <1>3, <1>4, <2>1, <2>3 DEF ActivationInv, Activating, Starting, Real
    <3> QED
      BY <1>1, <1>3, <1>4, <2>1, <2>3, <3>1, ActivationKeeps DEF Activating, Starting
  <2> QED
    BY <2>2, <2>3
<1>14. CASE Act!Cmd16
  <2>1. pc = "cmd16" /\ Act!Check("cmd16", "CMD16", <<0>>, "speed")
    BY <1>14 DEF Act!Cmd16, Act!Check
  <2>2. SdInv' \/ (pc' = "speed" /\ ret' = ret /\ card' = Act!CardAfter("CMD16") /\ cs' = FALSE)
    BY <1>4, <1>7, <2>1
  <2>3. ASSUME pc' = "speed", ret' = ret, card' = Act!CardAfter("CMD16"), cs' = FALSE PROVE SdInv'
    <3>1. ActivationInv'
      BY <1>1, <1>2, <1>3, <1>4, <2>1, <2>3 DEF ActivationInv, Activating, Starting, Real
    <3> QED
      BY <1>1, <1>3, <1>4, <2>1, <2>3, <3>1, ActivationKeeps DEF Activating, Starting
  <2> QED
    BY <2>2, <2>3
<1>15. CASE Act!SpeedUp
  <2>1. pc = "speed" /\ pc' = "idle" /\ clock' = "fast" /\ UNCHANGED <<ret, cs, card>>
    BY <1>15 DEF Act!SpeedUp, Act!Go
  <2>2. UNCHANGED <<call, dst, b, blk, timeout, out, stream, lba, promised>>
    BY <1>1 DEF sdVars
  <2>3. SdType'
    BY <2>1, <2>2 DEF SdInv, SdType, Arguments
  <2>4. ActivationInv'
    BY <1>1, <1>4, <2>1, <2>2 DEF ActivationInv, Activating, Starting, Real
  <2>5. LineInv' /\ IdleInv'
    <3>1. ~ cs /\ call = NoCall /\ out = <<>> /\ stream = "ready" /\ ret = 0
      BY <1>1, <1>4, <2>1 DEF ActivationInv
    <3> QED
      BY <2>1, <2>2, <3>1 DEF LineInv, IdleInv, Zeros, Polling
  <2>6. ResponseInv' /\ StreamInv' /\ BlockInv' /\ FinishInv'
    BY <2>1 DEF ResponseInv, StreamInv, BlockInv, FinishInv, Reading, Finishing
  <2> QED
    BY <2>3, <2>4, <2>5, <2>6 DEF SdInv
<1>16. CASE Act!CardGetsReady
  <2>1. /\ card.state = "starting" /\ card.kind # "low_volt"
        /\ card' = [card EXCEPT !.state = "ready"] /\ UNCHANGED <<pc, ret, cs, clock>>
    BY <1>16 DEF Act!CardGetsReady
  <2>2. UNCHANGED <<call, dst, b, blk, timeout, out, stream, lba, promised>>
    BY <1>1 DEF sdVars
  <2>3. card' \in CardType /\ card'.kind = card.kind /\ card'.state = "ready"
    BY <1>1, <2>1 DEF CardType
  <2>4. SdType'
    BY <2>1, <2>2, <2>3 DEF SdInv, SdType, CardType, Arguments
  <2>5. ActivationInv'
    BY <1>1, <2>1, <2>2, <2>3 DEF ActivationInv, Real
  <2>6. Real' = Real
    BY <2>3 DEF Real
  <2>7. LineInv' /\ IdleInv'
    BY <2>1, <2>2, <2>6
       DEF SdInv, LineInv, IdleInv, Multi, num_blocks, Quiet, CrcLast, Zeros, Sd!ENoResp
  <2>8. ResponseInv' /\ StreamInv'
    BY <2>1, <2>2, <2>6
       DEF SdInv, ResponseInv, StreamInv, Multi, num_blocks, first, Quiet, CrcLast, Current,
           Starved, Spoilt
  <2>9. BlockInv' /\ FinishInv'
    BY <2>1, <2>2, <2>6
       DEF SdInv, BlockInv, FinishInv, Multi, num_blocks, Zeros, InPlace, Sd!Swapped,
           Sd!first_block, Sd!last_block, Sd!Offset, Sd!addr, Sd!len
  <2> QED
    BY <2>4, <2>5, <2>7, <2>8, <2>9 DEF SdInv
<1> QED
  BY <1>6, <1>9, <1>10, <1>11, <1>12, <1>13, <1>14, <1>15, <1>16
     DEF Activation, OnSd, Act!Driver

(* Quotient and remainder are unique.                                      *)
LEMMA DivUnique ==
  ASSUME NEW n \in Nat \ {0}, NEW q \in Nat, NEW r \in 0 .. n - 1
  PROVE  (q * n + r) \div n = q /\ (q * n + r) % n = r
OBVIOUS

(* What the SD card's parameters say.                                      *)
LEMMA SdFacts ==
  /\ BlockLen \in Nat \ {0} /\ DOMAIN Disk \subseteq Nat
  /\ {RespTimeout, R1bTimeout, DataTimeout} \subseteq Nat \ {0}
  /\ {MaxNcr, MaxAccess} \subseteq Nat
BY DiskAssumption, TimeoutAssumption, CardAssumption

(* A read of n bytes at a covers whole blocks but for the first and last.  *)
LEMMA Blocks ==
  ASSUME NEW a \in Nat, NEW n \in Nat \ {0}
  PROVE  /\ Sd!FirstOffs(a) \in 0 .. BlockLen - 1
         /\ Sd!LenBlocks(a, n) \in Nat \ {0} /\ Sd!LastLen(a, n) \in 1 .. BlockLen
         /\ Sd!FirstOffs(a) + n = (Sd!LenBlocks(a, n) - 1) * BlockLen + Sd!LastLen(a, n)
<1> DEFINE f == a % BlockLen
           q == a \div BlockLen
           m == (f + n - 1) \div BlockLen
           r == (f + n - 1) % BlockLen
<1>1. BlockLen \in Nat \ {0}
  BY SdFacts
<1>2. f \in 0 .. BlockLen - 1 /\ q \in Nat /\ a = q * BlockLen + f
  BY <1>1, DivMod
<1>3. f + n - 1 \in Nat
  BY <1>1, <1>2
<1>4. m \in Nat /\ r \in 0 .. BlockLen - 1 /\ f + n - 1 = m * BlockLen + r
  BY <1>1, <1>3, DivMod
<1> HIDE DEF f, q, m, r
<1>5. Sd!LenBlocks(a, n) = m + 1
  <2>1. n + f + BlockLen - 1 = (m + 1) * BlockLen + r
    BY <1>1, <1>2, <1>4
  <2>2. ((m + 1) * BlockLen + r) \div BlockLen = m + 1
    <3>1. m + 1 \in Nat
      BY <1>4
    <3> QED
      BY <1>1, <1>4, <3>1, DivUnique
  <2>3. (n + f + BlockLen - 1) \div BlockLen = m + 1
    BY <2>1, <2>2
  <2> QED
    BY <2>3 DEF Sd!LenBlocks, Sd!FirstOffs, f
<1>6. a + n = (q + m) * BlockLen + (r + 1)
  BY <1>1, <1>2, <1>4
<1>7. Sd!LastLen(a, n) = r + 1
  <2>1. CASE r + 1 < BlockLen
    <3>1. r + 1 \in 0 .. BlockLen - 1 /\ q + m \in Nat
      BY <1>1, <1>2, <1>4, <2>1
    <3>2. (a + n) % BlockLen = r + 1
      <4>1. ((q + m) * BlockLen + (r + 1)) % BlockLen = r + 1
        BY <1>1, <3>1, DivUnique
      <4> QED
        BY <1>6, <4>1
    <3> QED
      BY <1>4, <3>2 DEF Sd!LastLen
  <2>2. CASE r + 1 = BlockLen
    <3>1. a + n = (q + m + 1) * BlockLen + 0 /\ q + m + 1 \in Nat /\ 0 \in 0 .. BlockLen - 1
      BY <1>1, <1>2, <1>4, <1>6, <2>2
    <3>2. (a + n) % BlockLen = 0
      <4>1. ((q + m + 1) * BlockLen + 0) % BlockLen = 0
        BY <1>1, <3>1, DivUnique
      <4> QED
        BY <3>1, <4>1
    <3> QED
      BY <2>2, <3>2 DEF Sd!LastLen
  <2> QED
    BY <1>1, <1>4, <2>1, <2>2
<1>8. f + n = (m + 1 - 1) * BlockLen + (r + 1)
  BY <1>1, <1>2, <1>4
<1> QED
  BY <1>1, <1>2, <1>4, <1>5, <1>7, <1>8 DEF Sd!FirstOffs, f

(* Where byte k of block b belongs: in the buffer when it goes there       *)
(* straight, and exactly when it is relevant.                              *)
LEMMA Offsets ==
  ASSUME call \in Calls, Arguments \in SdReads, b \in Nat, b < num_blocks,
         NEW k \in 0 .. BlockLen - 1
  PROVE  /\ Sd!Offset(k) \in Int /\ Sd!Offset(k) = Sd!Offset(0) + k
         /\ ~ Sd!Swapped => Sd!Offset(k) \in 0 .. call.len - 1
         /\ k \in Sd!Relevant <=> Sd!Offset(k) \in 0 .. call.len - 1
         /\ Sd!Offset(k) \in 0 .. call.len - 1 =>
              /\ (call.addr + Sd!Offset(k)) \div BlockLen = first + b
              /\ (call.addr + Sd!Offset(k)) % BlockLen = k
         /\ b + 1 = num_blocks => call.len <= Sd!Offset(0) + BlockLen
<1> DEFINE f == Sd!FirstOffs(call.addr)
           last == Sd!LastLen(call.addr, call.len)
           N == num_blocks
           P == BlockLen * b
<1>1. /\ BlockLen \in Nat \ {0} /\ call.addr \in Nat /\ call.len \in Nat \ {0}
  BY SdFacts, SdCallsAssumption DEF Calls, Arguments
<1>2. /\ f \in 0 .. BlockLen - 1 /\ N \in Nat \ {0} /\ last \in 1 .. BlockLen
      /\ f + call.len = (N - 1) * BlockLen + last
  BY <1>1, Blocks DEF num_blocks
<1>3. P \in Nat /\ (b = 0 => P = 0) /\ (b # 0 => BlockLen <= P)
  BY <1>1
<1>4. /\ b = N - 1 => P = (N - 1) * BlockLen
      /\ b # N - 1 => P + BlockLen <= (N - 1) * BlockLen
  <2>1. b # N - 1 => b + 1 <= N - 1
    BY <1>2
  <2>2. P + BlockLen = (b + 1) * BlockLen
    BY <1>1
  <2>3. b + 1 <= N - 1 => (b + 1) * BlockLen <= (N - 1) * BlockLen
    BY <1>1, <1>2
  <2> QED
    BY <1>1, <1>2, <2>1, <2>2, <2>3
<1>5. /\ Sd!Offset(k) = P + k - f /\ Sd!Offset(0) = P + 0 - f
      /\ Sd!first_block <=> b = 0 /\ f # 0
      /\ Sd!last_block <=> b = N - 1 /\ last # BlockLen
      /\ Sd!Relevant = (IF Sd!first_block THEN f ELSE 0) ..
                       (IF Sd!last_block THEN last ELSE BlockLen) - 1
  BY DEF Sd!Offset, Sd!first_block, Sd!last_block, Sd!Relevant, Sd!addr, Sd!len, num_blocks
<1>6. call.addr = first * BlockLen + f /\ first \in Nat
  BY <1>1, DivMod DEF first, Sd!FirstOffs
<1> HIDE DEF f, last, N
<1> DEFINE M == (N - 1) * BlockLen
<1>7. M \in Int
  BY <1>1, <1>2
<1>8. /\ call.addr + (P + k - f) = (first + b) * BlockLen + k
  BY <1>1, <1>2, <1>6
<1>9. /\ (call.addr + (P + k - f)) \div BlockLen = first + b
      /\ (call.addr + (P + k - f)) % BlockLen = k
  <2>1. first + b \in Nat
    BY <1>6
  <2>2. /\ ((first + b) * BlockLen + k) \div BlockLen = first + b
        /\ ((first + b) * BlockLen + k) % BlockLen = k
    BY <1>1, <2>1, DivUnique
  <2> QED
    BY <1>8, <2>2
<1> HIDE DEF P, M
<1>10. /\ f + call.len = M + last
       /\ b = N - 1 => P = M
       /\ b # N - 1 => P + BlockLen <= M
  BY <1>2, <1>4 DEF M
<1>11. Sd!Offset(k) \in Int /\ Sd!Offset(k) = Sd!Offset(0) + k
  BY <1>1, <1>2, <1>3, <1>5
<1>12. k \in Sd!Relevant <=> P + k - f \in 0 .. call.len - 1
  <2>1. (IF Sd!first_block THEN f ELSE 0) <= k <=> 0 <= P + k - f
    BY <1>1, <1>2, <1>3, <1>5
  <2>2. k <= (IF Sd!last_block THEN last ELSE BlockLen) - 1 <=> P + k - f <= call.len - 1
    <3>1. CASE b = N - 1
      BY <1>1, <1>2, <1>3, <1>5, <1>7, <1>10, <3>1
    <3>2. CASE b # N - 1
      BY <1>1, <1>2, <1>3, <1>5, <1>7, <1>10, <3>2
    <3> QED
      BY <3>1, <3>2
  <2>3. P + k - f \in Int
    BY <1>1, <1>2, <1>3
  <2> QED
    BY <1>1, <1>2, <1>5, <2>1, <2>2, <2>3
<1>13. ~ Sd!Swapped => k \in Sd!Relevant
  BY <1>1, <1>5 DEF Sd!Swapped
<1>14. b + 1 = num_blocks => call.len <= Sd!Offset(0) + BlockLen
  BY <1>1, <1>2, <1>3, <1>5, <1>7, <1>10 DEF N
<1> QED
  BY <1>5, <1>9, <1>11, <1>12, <1>13, <1>14
---------------------------------------------------------------------------
(* The next symbol on the line, and what is left after it.                 *)
LEMMA Transfer ==
  ASSUME SdType, LineInv, Sd!Xfer
  PROVE  /\ UNCHANGED <<stream, lba, card>> /\ (stream = "multi" => out # <<>>)
         /\ out' \in Seq(Nat) /\ \A j \in 1 .. Len(out') - 1 : out'[j] < 256
         /\ Sd!NextSymbol \in Nat /\ (~ Real => Sd!NextSymbol = 0)
         /\ \/ out = <<>> /\ out' = <<>> /\ (Real => Sd!NextSymbol = 255)
            \/ /\ out # <<>> /\ Len(out') = Len(out) - 1 /\ Len(out) >= 1
               /\ \A j \in 1 .. Len(out') : out'[j] = out[j + 1]
               /\ Real => Sd!NextSymbol = out[1]
<1>1. out \in Seq(Nat) /\ \A j \in 1 .. Len(out) - 1 : out[j] < 256
  BY DEF SdType, LineInv
<1>2. /\ UNCHANGED <<stream, lba, card>> /\ (stream = "multi" => out # <<>>)
      /\ out' = IF out = <<>> THEN <<>> ELSE Tail(out)
  BY DEF Sd!Xfer
<1>3. Sd!NextSymbol = IF ~ Real THEN 0 ELSE IF out = <<>> THEN 255 ELSE Head(out)
  BY DEF Sd!NextSymbol, Sd!Idle, Real
<1>4. CASE out = <<>>
  BY <1>1, <1>2, <1>3, <1>4
<1>5. CASE out # <<>>
  <2>1. /\ out' \in Seq(Nat) /\ Len(out') = Len(out) - 1 /\ Len(out) >= 1 /\ Head(out) = out[1]
        /\ \A j \in 1 .. Len(out') : out'[j] = out[j + 1]
    BY <1>1, <1>2, <1>5
  <2>2. ASSUME NEW j \in 1 .. Len(out') - 1 PROVE out'[j] < 256
    <3>1. Len(out') \in Nat /\ Len(out) \in Nat
      BY <1>1, <2>1
    <3>2. j + 1 \in 1 .. Len(out) - 1 /\ j \in 1 .. Len(out')
      BY <2>1, <3>1
    <3> QED
      BY <1>1, <2>1, <3>2
  <2>3. out[1] \in Nat
    BY <1>1, <2>1
  <2> QED
    BY <1>2, <1>3, <1>5, <2>1, <2>2, <2>3
<1> QED
  BY <1>4, <1>5

(* What is left of a line says less of what it ends with.                  *)
LEMMA LineMoves ==
  ASSUME SdType, LineInv, Sd!Xfer
  PROVE  /\ CrcLast(out') => /\ CrcLast(out) /\ out'[Len(out')] = out[Len(out)]
                             /\ Len(out') = Len(out) - 1 /\ Len(out') >= 1
                             /\ Real => Sd!NextSymbol < 256
         /\ Real /\ Sd!NextSymbol > 255 => /\ CrcLast(out) /\ out' = <<>>
                                           /\ Sd!NextSymbol = out[Len(out)]
         /\ Real /\ CrcLast(out) /\ Sd!NextSymbol < 256 => CrcLast(out')
         /\ \A r \in Nat : Quiet(out, r) => Quiet(out', IF r > 0 THEN r - 1 ELSE 0)
         /\ Zeros(out) => Zeros(out')
<1>1. out \in Seq(Nat) /\ \A j \in 1 .. Len(out) - 1 : out[j] < 256
  BY DEF SdType, LineInv
<1>2. BlockLen \in Nat
  BY SdFacts
<1>3. CASE out = <<>> /\ out' = <<>> /\ (Real => Sd!NextSymbol = 255)
  <2>1. ~ CrcLast(out') /\ Zeros(out') /\ ~ CrcLast(out)
    BY <1>3 DEF CrcLast, Zeros
  <2> QED
    BY <1>3, <2>1 DEF Quiet
<1>4. CASE /\ out # <<>> /\ Len(out') = Len(out) - 1 /\ Len(out) >= 1
           /\ \A j \in 1 .. Len(out') : out'[j] = out[j + 1]
           /\ Real => Sd!NextSymbol = out[1]
  <2>1. out' \in Seq(Nat) /\ Len(out) \in Nat /\ Len(out') \in Nat
    BY <1>1, Transfer
  <2>2. ASSUME CrcLast(out')
        PROVE  /\ CrcLast(out) /\ out'[Len(out')] = out[Len(out)]
               /\ Len(out') = Len(out) - 1 /\ Len(out') >= 1
               /\ Real => Sd!NextSymbol < 256
    <3>1. Len(out') >= 1
      BY <2>1, <2>2 DEF CrcLast
    <3>2. out'[Len(out')] = out[Len(out)] /\ 1 \in 1 .. Len(out) - 1
      BY <1>4, <2>1, <3>1
    <3> QED
      BY <1>1, <1>4, <2>2, <3>1, <3>2 DEF CrcLast
  <2>3. ASSUME Real, Sd!NextSymbol > 255
        PROVE  CrcLast(out) /\ out' = <<>> /\ Sd!NextSymbol = out[Len(out)]
    <3>1. out[1] > 255 /\ Sd!NextSymbol = out[1] /\ out[1] \in Nat
      BY <1>1, <1>4, <2>3
    <3>2. Len(out) = 1
      <4>1. ~ (1 \in 1 .. Len(out) - 1)
        BY <1>1, <3>1
      <4> QED
        BY <1>4, <2>1, <4>1
    <3> QED
      BY <1>4, <2>1, <3>1, <3>2 DEF CrcLast
  <2>4. ASSUME NEW r \in Nat, Quiet(out, r)
        PROVE  Quiet(out', IF r > 0 THEN r - 1 ELSE 0)
    <3> DEFINE q == IF r > 0 THEN r - 1 ELSE 0
    <3> SUFFICES ASSUME CrcLast(out'), NEW j \in 1 .. Len(out') - BlockLen - 1, j # q
                 PROVE  out'[j] > 127
      BY DEF Quiet
    <3>1. j + 1 \in 1 .. Len(out) - BlockLen - 1 /\ j + 1 # r /\ j \in 1 .. Len(out')
      BY <1>2, <1>4, <2>1
    <3>2. out[j + 1] > 127
      BY <2>2, <2>4, <3>1 DEF Quiet
    <3> QED
      BY <1>4, <3>1, <3>2
  <2>5. Zeros(out) => Zeros(out')
    <3> SUFFICES ASSUME Zeros(out), NEW j \in 1 .. Len(out') PROVE out'[j] = 0
      BY DEF Zeros
    <3>1. j + 1 \in 1 .. Len(out)
      BY <1>4, <2>1
    <3> QED
      BY <1>4, <3>1 DEF Zeros
  <2>6. ASSUME Real, CrcLast(out), Sd!NextSymbol < 256 PROVE CrcLast(out')
    <3>1. out[1] < 256 /\ out[Len(out)] > 255
      BY <1>4, <2>6 DEF CrcLast
    <3>2. Len(out) # 1
      <4>1. out[1] \in Nat
        BY <1>1, <1>4
      <4> SUFFICES ASSUME Len(out) = 1 PROVE FALSE
        OBVIOUS
      <4>2. out[1] > 255
        BY <3>1
      <4> QED
        BY <3>1, <4>1, <4>2
    <3>3. Len(out') \in 1 .. Len(out') /\ Len(out') + 1 = Len(out)
      BY <1>4, <2>1, <3>2
    <3>4. out'[Len(out')] = out[Len(out)]
      BY <1>4, <3>3
    <3>5. out' # <<>>
      BY <3>3
    <3> QED
      BY <3>1, <3>4, <3>5 DEF CrcLast
  <2> QED
    BY <2>2, <2>3, <2>4, <2>5, <2>6
<1> QED
  BY <1>3, <1>4, Transfer
---------------------------------------------------------------------------
Joined(s, t) == s \o t

(* A line that consists of two parts has the length of both ...            *)
LEMMA JoinedLen ==
  ASSUME NEW s \in Seq(Nat), NEW t \in Seq(Nat), NEW w, w = Joined(s, t)
  PROVE  w \in Seq(Nat) /\ Len(w) = Len(s) + Len(t)
BY ConcatFacts DEF Joined

(* ... and the elements of both.                                           *)
LEMMA JoinedElements ==
  ASSUME NEW s \in Seq(Nat), NEW t \in Seq(Nat), NEW w, w = Joined(s, t)
  PROVE  /\ \A j \in 1 .. Len(s) : w[j] = s[j]
         /\ \A j \in 1 .. Len(t) : w[Len(s) + j] = t[j]
BY ConcatFacts DEF Joined

Late(n, s) == Sd!IdleBytes(n) \o <<s>>

(* A late symbol is a line of n idle bytes and that symbol.                *)
LEMMA LateParts ==
  ASSUME NEW n \in Nat, NEW s \in Nat
  PROVE  /\ Late(n, s) = Joined(Sd!IdleBytes(n), <<s>>)
         /\ Sd!IdleBytes(n) \in Seq(Nat) /\ <<s>> \in Seq(Nat)
BY DEF Late, Joined, Sd!IdleBytes, Sd!Idle

(* It has the idle bytes and the symbol, and nothing else.                 *)
LEMMA LateLen ==
  ASSUME NEW n \in Nat, NEW s \in Nat, NEW w, w = Late(n, s)
  PROVE  w \in Seq(Nat) /\ Len(w) = n + 1
<1> DEFINE i == Sd!IdleBytes(n)
           t == <<s>>
<1>1. i \in Seq(Nat) /\ t \in Seq(Nat) /\ w = Joined(i, t)
  BY LateParts
<1>2. Len(i) = n /\ Len(t) = 1
  BY DEF Sd!IdleBytes
<1> HIDE DEF i, t
<1>3. w \in Seq(Nat) /\ Len(w) = Len(i) + Len(t)
  BY <1>1, JoinedLen
<1> QED
  BY <1>2, <1>3

(* The idle bytes come first, then the symbol.                             *)
LEMMA LateElements ==
  ASSUME NEW n \in Nat, NEW s \in Nat, NEW w, w = Late(n, s)
  PROVE  (\A j \in 1 .. n : w[j] = 255) /\ w[n + 1] = s
<1> DEFINE i == Sd!IdleBytes(n)
           t == <<s>>
<1>1. i \in Seq(Nat) /\ t \in Seq(Nat) /\ w = Joined(i, t)
  BY LateParts
<1>2. /\ Len(i) = n /\ Len(t) = 1 /\ t[1] = s
      /\ \A j \in 1 .. n : i[j] = 255
  BY DEF Sd!IdleBytes, Sd!Idle
<1> HIDE DEF i, t
<1>3. /\ \A j \in 1 .. Len(i) : w[j] = i[j]
      /\ \A j \in 1 .. Len(t) : w[Len(i) + j] = t[j]
  BY <1>1, JoinedElements
<1>4. 1 \in 1 .. Len(t)
  BY <1>2
<1> QED
  BY <1>2, <1>3, <1>4

(* A block is a sequence.                                                  *)
LEMMA BlockIsSeq ==
  ASSUME NEW n \in Nat, NEW d \in [1 .. n -> 0 .. 255]
  PROVE  d \in Seq(Nat) /\ Len(d) = n /\ \A j \in 1 .. Len(d) : d[j] \in 0 .. 255
<1>1. d \in [1 .. n -> Nat]
  <2>1. ASSUME NEW j \in 1 .. n PROVE d[j] \in Nat
    <3>1. d[j] \in 0 .. 255
      OBVIOUS
    <3>2. 0 .. 255 \subseteq Nat
      OBVIOUS
    <3> QED
      BY <3>1, <3>2, Zenon
  <2> QED
    BY <2>1
<1>2. d \in Seq(Nat) /\ Len(d) = n
  BY <1>1
<1> QED
  BY <1>2

(* An answer is an error token, or it ends with the CRC of the block, and  *)
(* what precedes the block cannot be taken for a response.                 *)
LEMMA AnswerFacts ==
  ASSUME NEW l \in DOMAIN Disk, NEW a \in Sd!Answers(l)
  PROVE  /\ a \in Seq(Nat) /\ Len(a) >= 1 /\ \A j \in 1 .. Len(a) - 1 : a[j] < 256
         /\ \/ a[Len(a)] = 8 /\ a = <<Sd!ErrToken>>
            \/ a[Len(a)] = Sd!Crc(l) /\ \A j \in 1 .. Len(a) - BlockLen - 1 : a[j] > 127
<1>1. BlockLen \in Nat \ {0} /\ l \in Nat /\ MaxAccess \in Nat /\ Sd!Crc(l) = 256 + l
  BY SdFacts DEF Sd!Crc
<1>2. CASE a = <<Sd!ErrToken>>
  <2>1. <<8>> \in Seq(Nat) /\ Len(<<8>>) = 1 /\ <<8>>[1] = 8
    OBVIOUS
  <2> QED
    BY <1>2, <2>1 DEF Sd!ErrToken
<1>3. ASSUME NEW n \in 0 .. MaxAccess,
             NEW d \in {Disk[l], [Disk[l] EXCEPT ![BlockLen] = 255 - @]},
             a = Sd!IdleBytes(n) \o <<Sd!Token>> \o d \o <<Sd!Crc(l)>>
      PROVE  /\ a \in Seq(Nat) /\ Len(a) >= 1 /\ \A j \in 1 .. Len(a) - 1 : a[j] < 256
             /\ a[Len(a)] = Sd!Crc(l) /\ \A j \in 1 .. Len(a) - BlockLen - 1 : a[j] > 127
  <2> DEFINE h == Sd!IdleBytes(n) \o <<Sd!Token>>
             c == <<Sd!Crc(l)>>
             m == Joined(h, d)
  <2>1. n \in Nat
    BY <1>1, <1>3
  <2>2. h \in Seq(Nat) /\ Len(h) = n + 1 /\ \A j \in 1 .. Len(h) : h[j] > 127 /\ h[j] < 256
    <3>1. Sd!Token \in Nat /\ Sd!Token = 254
      BY DEF Sd!Token
    <3>2. /\ h \in Seq(Nat) /\ Len(h) = n + 1
          /\ \A j \in 1 .. n : h[j] = 255
          /\ h[n + 1] = Sd!Token
      <4>1. h = Late(n, Sd!Token)
        BY DEF Late
      <4> HIDE DEF h
      <4>2. h \in Seq(Nat) /\ Len(h) = n + 1
        BY <2>1, <3>1, <4>1, LateLen
      <4>3. (\A j \in 1 .. n : h[j] = 255) /\ h[n + 1] = Sd!Token
        BY <2>1, <3>1, <4>1, LateElements
      <4> QED
        BY <4>2, <4>3
    <3> HIDE DEF h
    <3>3. ASSUME NEW j \in 1 .. Len(h) PROVE h[j] > 127 /\ h[j] < 256
      <4>1. j \in 1 .. n \/ j = n + 1
        BY <2>1, <3>2
      <4> QED
        BY <3>1, <3>2, <4>1
    <3> QED
      BY <3>2, <3>3
  <2>3. d \in Seq(Nat) /\ Len(d) = BlockLen /\ \A j \in 1 .. Len(d) : d[j] < 256
    <3>1. Disk[l] \in [1 .. BlockLen -> 0 .. 255]
      BY DiskAssumption
    <3>2. d \in [1 .. BlockLen -> 0 .. 255]
      <4>1. CASE d = Disk[l]
        BY <3>1, <4>1
      <4>2. CASE d = [Disk[l] EXCEPT ![BlockLen] = 255 - @]
        <5>1. BlockLen \in 1 .. BlockLen
          BY <1>1
        <5>2. 255 - Disk[l][BlockLen] \in 0 .. 255
          <6>1. Disk[l][BlockLen] \in 0 .. 255
            BY <3>1, <5>1
          <6> QED
            BY <6>1
        <5> QED
          BY <3>1, <4>2, <5>2
      <4> QED
        BY <1>3, <4>1, <4>2
    <3>3. BlockLen \in Nat
      BY <1>1
    <3>4. d \in Seq(Nat) /\ Len(d) = BlockLen /\ \A j \in 1 .. Len(d) : d[j] \in 0 .. 255
      BY <3>2, <3>3, BlockIsSeq
    <3> QED
      <4>1. ASSUME NEW j \in 1 .. Len(d) PROVE d[j] < 256
        <5>1. d[j] \in 0 .. 255
          BY <3>4
        <5>2. \A x \in 0 .. 255 : x < 256
          OBVIOUS
        <5> QED
          BY <5>1, <5>2, Zenon
      <4> QED
        BY <3>4, <4>1
  <2>4. c \in Seq(Nat) /\ Len(c) = 1 /\ c[1] = Sd!Crc(l)
    BY <1>1
  <2> HIDE DEF h, c
  <2>5. /\ m \in Seq(Nat) /\ Len(m) = Len(h) + Len(d)
        /\ \A j \in 1 .. Len(h) : m[j] = h[j]
        /\ \A j \in 1 .. Len(d) : m[Len(h) + j] = d[j]
    <3>1. h \in Seq(Nat) /\ d \in Seq(Nat) /\ m = Joined(h, d)
      BY <2>2, <2>3
    <3> HIDE DEF m
    <3>2. m \in Seq(Nat) /\ Len(m) = Len(h) + Len(d)
      BY <3>1, JoinedLen
    <3>3. /\ \A j \in 1 .. Len(h) : m[j] = h[j]
          /\ \A j \in 1 .. Len(d) : m[Len(h) + j] = d[j]
      BY <3>1, JoinedElements
    <3> QED
      BY <3>2, <3>3
  <2> HIDE DEF m
  <2>6. a = Joined(m, c)
    BY <1>3 DEF m, h, c, Joined
  <2>7. /\ a \in Seq(Nat) /\ Len(a) = Len(m) + Len(c)
        /\ \A j \in 1 .. Len(m) : a[j] = m[j]
        /\ \A j \in 1 .. Len(c) : a[Len(m) + j] = c[j]
    <3>1. m \in Seq(Nat) /\ c \in Seq(Nat)
      BY <2>4, <2>5
    <3>2. a \in Seq(Nat) /\ Len(a) = Len(m) + Len(c)
      BY <2>6, <3>1, JoinedLen
    <3>3. /\ \A j \in 1 .. Len(m) : a[j] = m[j]
          /\ \A j \in 1 .. Len(c) : a[Len(m) + j] = c[j]
      BY <2>6, <3>1, JoinedElements
    <3> QED
      BY <3>2, <3>3
  <2>8. Len(m) = n + 1 + BlockLen /\ Len(a) = n + BlockLen + 2
    <3>1. Len(m) = n + 1 + BlockLen
      BY <2>2, <2>3, <2>5
    <3> QED
      BY <1>1, <2>1, <2>4, <2>7, <3>1
  <2>9. a[Len(a)] = Sd!Crc(l)
    <3>1. Len(c) = 1 /\ c[1] = Sd!Crc(l) /\ Len(a) = Len(m) + 1
      BY <2>4, <2>7
    <3>2. a[Len(m) + 1] = c[1]
      BY <2>7, <3>1
    <3> QED
      BY <3>1, <3>2
  <2>10. ASSUME NEW j \in 1 .. n + 1 PROVE a[j] > 127 /\ a[j] < 256
    <3>1. j \in 1 .. Len(h) /\ j \in 1 .. Len(m)
      BY <1>1, <2>1, <2>2, <2>8
    <3> QED
      <4>1. a[j] = m[j] /\ m[j] = h[j]
        BY <2>5, <2>7, <3>1
      <4>2. h[j] > 127 /\ h[j] < 256
        BY <2>2, <3>1
      <4> QED
        BY <4>1, <4>2
  <2>11. ASSUME NEW j \in 1 .. Len(a) - 1 PROVE a[j] < 256
    <3> USE <2>1
    <3>0. j \in Nat /\ 1 <= j /\ j <= Len(m)
      BY <1>1, <2>8
    <3>1. CASE j <= n + 1
      <4>1. a[j] > 127 /\ a[j] < 256
        BY <2>10, <3>0, <3>1
      <4> QED
        BY <4>1
    <3>2. CASE j > n + 1
      <4>1. j - (n + 1) \in 1 .. Len(d) /\ j \in 1 .. Len(m) /\ Len(h) + (j - (n + 1)) = j
        <5>1. Len(d) = BlockLen /\ Len(h) = n + 1
          BY <2>2, <2>3
        <5> QED
          BY <1>1, <2>8, <3>0, <3>2, <5>1
      <4>2. a[j] = m[j] /\ m[Len(h) + (j - (n + 1))] = d[j - (n + 1)]
        BY <2>5, <2>7, <4>1
      <4> QED
        BY <2>3, <4>1, <4>2
    <3> QED
      BY <3>0, <3>1, <3>2
  <2>12. ASSUME NEW j \in 1 .. Len(a) - BlockLen - 1 PROVE a[j] > 127
    <3>1. j \in 1 .. n + 1
      BY <1>1, <2>1, <2>8
    <3>2. a[j] > 127 /\ a[j] < 256
      BY <2>10, <3>1
    <3> QED
      BY <3>2
  <2>13. a \in Seq(Nat) /\ Len(a) >= 1
    BY <1>1, <2>1, <2>7, <2>8
  <2> QED
    BY <2>9, <2>11, <2>12, <2>13
<1> DEFINE D == {Disk[l], [Disk[l] EXCEPT ![BlockLen] = 255 - @]}
           B(n, d) == Sd!IdleBytes(n) \o <<Sd!Token>> \o d \o <<Sd!Crc(l)>>
           E == <<Sd!ErrToken>>
<1>4. Sd!Answers(l) = {B(n, d) : n \in 0 .. MaxAccess, d \in D} \cup {E}
  BY DEF Sd!Answers
<1>5. ASSUME NEW n \in 0 .. MaxAccess, NEW d \in D, a = B(n, d)
      PROVE  /\ a \in Seq(Nat) /\ Len(a) >= 1 /\ \A j \in 1 .. Len(a) - 1 : a[j] < 256
             /\ a[Len(a)] = Sd!Crc(l) /\ \A j \in 1 .. Len(a) - BlockLen - 1 : a[j] > 127
  BY <1>3, <1>5, Zenon
<1> HIDE DEF D, B
<1>6. CASE \E n \in 0 .. MaxAccess, d \in D : a = B(n, d)
  BY <1>5, <1>6, Zenon
<1>7. a = E \/ \E n \in 0 .. MaxAccess, d \in D : a = B(n, d)
  <2> HIDE DEF E
  <2>1. a \in {B(n, d) : n \in 0 .. MaxAccess, d \in D} \/ a = E
    BY <1>4
  <2> QED
    BY <2>1
<1> QED
  BY <1>2, <1>6, <1>7, Zenon

(* The response of a card that refuses a command ...                       *)
LEMMA LateError ==
  ASSUME NEW n \in Nat, NEW w, w = Late(n, Sd!ErrR1)
  PROVE  (\A j \in 1 .. n : w[j] = 255) /\ w[n + 1] = 64
<1>1. w = Late(n, 64) /\ 64 \in Nat
  BY DEF Sd!ErrR1
<1> QED
  BY <1>1, LateElements

(* ... and the one of a card that takes the command.                       *)
LEMMA LateZero ==
  ASSUME NEW n \in Nat, NEW w, w = Late(n, 0)
  PROVE  (\A j \in 1 .. n : w[j] = 255) /\ w[n + 1] = 0
<1>1. 0 \in Nat
  OBVIOUS
<1> QED
  BY <1>1, LateElements, SMTT(30)

(* What the card says after a read command, when it is not streaming       *)
(* without end: what was left of the line, an error, the block asked for   *)
(* after the response, or the response with which a stream begins.         *)
LEMMA ReadCommand ==
  ASSUME SdType, LineInv, NEW cmd \in {"CMD17", "CMD18"}, NEW arg \in Nat,
         Sd!React(cmd, arg)
  PROVE  /\ UNCHANGED card /\ lba' \in Nat /\ stream' \in {"ready", "single", "multi"}
         /\ out' \in Seq(Nat) /\ \A j \in 1 .. Len(out') - 1 : out'[j] < 256
         /\ \/ /\ stream # "multi" => stream' # "multi"
               /\ Quiet(out, 0) => Quiet(out', 0)
            \/ /\ cmd = "CMD17" /\ stream' = "single" /\ out'[Len(out')] = Sd!Crc(arg)
               /\ \E r \in Nat : Quiet(out', r)
            \/ /\ cmd = "CMD18" /\ stream' = "multi" /\ lba' = arg
               /\ out' # <<>> /\ out'[Len(out')] = 0
               /\ \A j \in 1 .. Len(out') - 1 : out'[j] = 255
<1>1. out \in Seq(Nat) /\ Len(out) \in Nat /\ \A j \in 1 .. Len(out) - 1 : out[j] < 256
  BY DEF SdType, LineInv
<1>2. BlockLen \in Nat \ {0} /\ MaxNcr \in Nat
  BY SdFacts
<1>3. lba \in Nat /\ stream \in {"ready", "single", "multi"} /\ UNCHANGED card
  BY DEF SdType, Sd!React
<1>4. ASSUME NEW n \in 0 .. MaxNcr, out' = Sd!IdleBytes(n) \o <<Sd!ErrR1>>,
             stream' = "ready", UNCHANGED lba
      PROVE  /\ out' \in Seq(Nat) /\ \A j \in 1 .. Len(out') - 1 : out'[j] < 256
             /\ Quiet(out', 0)
  <2>1. /\ out' \in Seq(Nat) /\ Len(out') = n + 1 /\ out'[n + 1] = 64 /\ n \in Nat
        /\ \A j \in 1 .. n : out'[j] = 255
    <3>1. n \in Nat /\ Sd!ErrR1 \in Nat /\ Sd!ErrR1 = 64
      BY <1>2 DEF Sd!ErrR1
    <3>2. out' = Late(n, Sd!ErrR1)
      BY <1>4 DEF Late
    <3>3. out' \in Seq(Nat) /\ Len(out') = n + 1
      BY <3>1, <3>2, LateLen
    <3>4. (\A j \in 1 .. n : out'[j] = 255) /\ out'[n + 1] = 64
      BY <3>1, <3>2, LateError
    <3> QED
      BY <3>1, <3>3, <3>4
  <2> QED
    BY <2>1 DEF Quiet, CrcLast
<1>5. ASSUME NEW n \in 0 .. MaxNcr, arg \in DOMAIN Disk, NEW a \in Sd!Answers(arg),
             out' = Sd!IdleBytes(n) \o << 0 >> \o a
      PROVE  /\ out' \in Seq(Nat) /\ \A j \in 1 .. Len(out') - 1 : out'[j] < 256
             /\ Quiet(out', 0) \/ (out'[Len(out')] = Sd!Crc(arg) /\ Quiet(out', n + 1))
  <2> DEFINE h == Sd!IdleBytes(n) \o <<0>>
  <2>1. /\ h \in Seq(Nat) /\ Len(h) = n + 1 /\ h[n + 1] = 0 /\ n \in Nat
        /\ \A j \in 1 .. n : h[j] = 255
    <3>1. n \in Nat
      BY <1>2
    <3>2. h = Late(n, 0)
      BY DEF Late
    <3> HIDE DEF h
    <3>3. h \in Seq(Nat) /\ Len(h) = n + 1
      BY <3>1, <3>2, LateLen
    <3>4. (\A j \in 1 .. n : h[j] = 255) /\ h[n + 1] = 0
      BY <3>1, <3>2, LateZero
    <3> QED
      BY <3>1, <3>3, <3>4
  <2>2. out' = Joined(h, a)
    BY <1>5 DEF Joined
  <2> HIDE DEF h
  <2>3. /\ a \in Seq(Nat) /\ Len(a) >= 1 /\ \A j \in 1 .. Len(a) - 1 : a[j] < 256
        /\ \/ a[Len(a)] = 8
           \/ a[Len(a)] = Sd!Crc(arg) /\ \A j \in 1 .. Len(a) - BlockLen - 1 : a[j] > 127
    BY <1>5, AnswerFacts
  <2>4. /\ out' \in Seq(Nat) /\ Len(out') = Len(h) + Len(a)
        /\ \A j \in 1 .. Len(h) : out'[j] = h[j]
        /\ \A j \in 1 .. Len(a) : out'[Len(h) + j] = a[j]
    <3>1. h \in Seq(Nat) /\ a \in Seq(Nat)
      BY <2>1, <2>3
    <3>2. out' \in Seq(Nat) /\ Len(out') = Len(h) + Len(a)
      BY <2>2, <3>1, JoinedLen
    <3>3. /\ \A j \in 1 .. Len(h) : out'[j] = h[j]
          /\ \A j \in 1 .. Len(a) : out'[Len(h) + j] = a[j]
      BY <2>2, <3>1, JoinedElements
    <3> QED
      BY <3>2, <3>3
  <2>5. Len(out') = n + 1 + Len(a) /\ Len(a) \in Nat
    BY <2>1, <2>3, <2>4
  <2>6. ASSUME NEW j \in 1 .. Len(out'), j > n + 1
        PROVE  j - (n + 1) \in 1 .. Len(a) /\ out'[j] = a[j - (n + 1)]
    <3>1. j - (n + 1) \in 1 .. Len(a) /\ Len(h) + (j - (n + 1)) = j
      BY <2>1, <2>5, <2>6
    <3> QED
      BY <2>4, <3>1
  <2>7. out'[Len(out')] = a[Len(a)]
    <3>1. Len(out') \in 1 .. Len(out') /\ Len(out') > n + 1 /\ Len(out') - (n + 1) = Len(a)
      BY <2>1, <2>3, <2>5
    <3> QED
      BY <2>6, <3>1
  <2>8. ASSUME NEW j \in 1 .. Len(out') - 1 PROVE out'[j] < 256
    <3>1. CASE j <= n + 1
      BY <2>1, <2>4, <3>1
    <3>2. CASE j > n + 1
      <4>1. j \in 1 .. Len(out') /\ j - (n + 1) \in 1 .. Len(a) - 1
        BY <2>1, <2>5, <3>2
      <4> QED
        <5>1. a[j - (n + 1)] < 256
          BY <2>3, <4>1
        <5>2. out'[j] = a[j - (n + 1)]
          BY <2>6, <3>2, <4>1
        <5> QED
          BY <5>1, <5>2
    <3> QED
      BY <2>1, <3>1, <3>2
  <2>9. CASE a[Len(a)] = 8
    BY <2>4, <2>7, <2>8, <2>9 DEF Quiet, CrcLast
  <2>10. CASE a[Len(a)] = Sd!Crc(arg) /\ \A j \in 1 .. Len(a) - BlockLen - 1 : a[j] > 127
    <3>1. ASSUME NEW j \in 1 .. Len(out') - BlockLen - 1, j # n + 1 PROVE out'[j] > 127
      <4>1. CASE j <= n
        <5>1. j \in 1 .. Len(h) /\ j \in 1 .. n
          BY <2>1, <4>1
        <5> QED
          BY <2>1, <2>4, <5>1
      <4>2. CASE j > n + 1
        <5>1. j \in 1 .. Len(out') /\ j - (n + 1) \in 1 .. Len(a) - BlockLen - 1
          BY <1>2, <2>1, <2>5, <4>2
        <5> QED
          BY <2>6, <2>10, <4>2, <5>1
      <4> QED
        BY <2>1, <3>1, <4>1, <4>2
    <3> QED
      BY <2>4, <2>7, <2>8, <2>10, <3>1 DEF Quiet
  <2> QED
    BY <2>3, <2>4, <2>8, <2>9, <2>10
<1>6. ASSUME NEW n \in 0 .. MaxNcr, out' = Sd!IdleBytes(n) \o << 0 >>
      PROVE  /\ out' \in Seq(Nat) /\ \A j \in 1 .. Len(out') - 1 : out'[j] = 255
             /\ out' # <<>> /\ out'[Len(out')] = 0
  <2>1. /\ out' \in Seq(Nat) /\ Len(out') = n + 1 /\ out'[n + 1] = 0 /\ n \in Nat
        /\ \A j \in 1 .. n : out'[j] = 255
    <3>1. n \in Nat
      BY <1>2
    <3>2. out' = Late(n, 0)
      BY <1>6 DEF Late
    <3>3. out' \in Seq(Nat) /\ Len(out') = n + 1
      BY <3>1, <3>2, LateLen
    <3>4. (\A j \in 1 .. n : out'[j] = 255) /\ out'[n + 1] = 0
      BY <3>1, <3>2, LateZero
    <3> QED
      BY <3>1, <3>3, <3>4
  <2> QED
    BY <2>1
<1>7. ASSUME NEW n \in 0 .. MaxNcr PROVE n + 1 \in Nat
  BY <1>2
<1>8. PICK k \in 0 .. Len(out) :
        LET rest == SubSeq(out, k + 1, Len(out)) IN
        \/ out' = rest /\ UNCHANGED <<stream, lba>>
        \/ \E n \in 0 .. MaxNcr :
             \/ /\ out' = Sd!IdleBytes(n) \o <<Sd!ErrR1>>
                /\ stream' = "ready" /\ UNCHANGED lba
             \/ /\ cmd = "CMD17" /\ arg \in DOMAIN Disk
                /\ \E a \in Sd!Answers(arg) : out' = Sd!IdleBytes(n) \o <<0>> \o a
                /\ stream' = "single" /\ UNCHANGED lba
             \/ /\ cmd = "CMD18" /\ out' = Sd!IdleBytes(n) \o <<0>>
                /\ stream' = "multi" /\ lba' = arg
  BY DEF Sd!React, Sd!Lbas
<1>9. CASE out' = SubSeq(out, k + 1, Len(out)) /\ UNCHANGED <<stream, lba>>
  <2>1. /\ out' \in Seq(Nat) /\ Len(out') = Len(out) - k
        /\ \A j \in 1 .. Len(out') : out'[j] = out[j + k]
    BY <1>1, <1>8, <1>9
  <2>2. ASSUME NEW j \in 1 .. Len(out') - 1 PROVE out'[j] < 256
    <3>1. j + k \in 1 .. Len(out) - 1 /\ j \in 1 .. Len(out')
      BY <1>1, <1>8, <2>1
    <3> QED
      BY <1>1, <2>1, <3>1
  <2>3. ASSUME Quiet(out, 0), CrcLast(out'), NEW j \in 1 .. Len(out') - BlockLen - 1
        PROVE  out'[j] > 127
    <3>1. Len(out') >= 1
      BY <2>1, <2>3 DEF CrcLast
    <3>2. Len(out') \in 1 .. Len(out') /\ Len(out') + k = Len(out)
      BY <1>1, <1>8, <2>1, <3>1
    <3>3. CrcLast(out)
      <4>1. out'[Len(out')] = out[Len(out)] /\ out # <<>>
        <5>1. out'[Len(out')] = out[Len(out') + k]
          BY <2>1, <3>2
        <5>2. Len(out) # 0
          BY <1>8, <2>1, <3>1
        <5>3. out # <<>>
          BY <5>2
        <5> QED
          BY <3>2, <5>1, <5>3
      <4> QED
        BY <2>3, <4>1 DEF CrcLast
    <3>4. j + k \in 1 .. Len(out) - BlockLen - 1 /\ j + k # 0 /\ j \in 1 .. Len(out')
      <4>1. Len(out') \in Nat /\ Len(out') + k = Len(out) /\ k \in Nat
        BY <1>1, <1>8, <2>1
      <4> QED
        BY <1>1, <1>2, <4>1
    <3> QED
      BY <2>1, <2>3, <3>3, <3>4 DEF Quiet
  <2>4. Quiet(out, 0) => Quiet(out', 0)
    BY <2>3 DEF Quiet
  <2> QED
    BY <1>3, <1>9, <2>1, <2>2, <2>4
<1>10. CASE \E n \in 0 .. MaxNcr : /\ out' = Sd!IdleBytes(n) \o <<Sd!ErrR1>>
                                   /\ stream' = "ready" /\ UNCHANGED lba
  BY <1>3, <1>4, <1>10
<1>11. CASE \E n \in 0 .. MaxNcr :
              /\ cmd = "CMD17" /\ arg \in DOMAIN Disk
              /\ \E a \in Sd!Answers(arg) : out' = Sd!IdleBytes(n) \o <<0>> \o a
              /\ stream' = "single" /\ UNCHANGED lba
  <2>1. PICK n \in 0 .. MaxNcr, a \in Sd!Answers(arg) : out' = Sd!IdleBytes(n) \o <<0>> \o a
    BY <1>11
  <2>2. cmd = "CMD17" /\ arg \in DOMAIN Disk /\ stream' = "single" /\ UNCHANGED lba
    BY <1>11
  <2>3. /\ out' \in Seq(Nat) /\ \A j \in 1 .. Len(out') - 1 : out'[j] < 256
        /\ Quiet(out', 0) \/ (out'[Len(out')] = Sd!Crc(arg) /\ Quiet(out', n + 1))
    BY <1>5, <2>1, <2>2
  <2> QED
    BY <1>3, <1>7, <2>2, <2>3
<1>12. CASE \E n \in 0 .. MaxNcr :
              /\ cmd = "CMD18" /\ out' = Sd!IdleBytes(n) \o <<0>>
              /\ stream' = "multi" /\ lba' = arg
  <2>1. /\ out' \in Seq(Nat) /\ \A j \in 1 .. Len(out') - 1 : out'[j] = 255
        /\ out' # <<>> /\ out'[Len(out')] = 0
    BY <1>6, <1>12
  <2>2. \A j \in 1 .. Len(out') - 1 : out'[j] < 256
    BY <2>1
  <2> QED
    BY <1>3, <1>12, <2>1, <2>2
<1> QED
  BY <1>8, <1>9, <1>10, <1>11, <1>12
---------------------------------------------------------------------------
(* Zeros are not taken for data, nor for the end of a block.               *)
LEMMA ZerosAreQuiet ==
  ASSUME NEW w \in Seq(Nat), Zeros(w)
  PROVE  ~ CrcLast(w) /\ \A r : Quiet(w, r)
<1>1. ~ CrcLast(w)
  BY DEF Zeros, CrcLast
<1> QED
  BY <1>1 DEF Quiet

(* A step of a read keeps the types and what the activation has reached.   *)
LEMMA ReadKeeps ==
  ASSUME SdType, ActivationInv, pc \notin Activating \cup {"dead"},
         UNCHANGED <<call, card, clock, promised>>, call # NoCall,
         pc' \in {"idle", "resp"} \cup Reading \cup Finishing,
         DOMAIN dst' = Window, ret' \in Nat, b' \in Nat, timeout' \in Nat, lba' \in Nat,
         stream' \in {"ready", "single", "multi"}, blk' \in Seq(Nat), out' \in Seq(Nat)
  PROVE  SdType' /\ ActivationInv'
<1>1. pc' \notin Activating \cup {"dead"} /\ Starting \subseteq Activating
  BY DEF Activating, Starting, Reading, Finishing
<1>2. pc' # "speed" /\ pc' \notin {"cmd55", "acmd41"}
  BY <1>1 DEF Activating, Starting
<1>3. {ret', b', timeout', lba'} \subseteq Nat
  OBVIOUS
<1>4. SdType'
  BY <1>3 DEF SdType, Arguments
<1>5. ActivationInv'
  BY <1>1, <1>2 DEF ActivationInv, Real
<1> QED
  BY <1>4, <1>5

(* A read command.                                                         *)
LEMMA SdRead ==
  ASSUME SdInv, SdCall, UNCHANGED clock, promised' = LineSettled
  PROVE  SdInv'
<1>1. PICK r \in SdReads : Sd!Read(r[1], r[2])
  BY DEF SdCall
<1> DEFINE n == Sd!LenBlocks(r[1], r[2])
           cmd == IF n > 1 THEN "CMD18" ELSE "CMD17"
           arg == r[1] \div BlockLen
<1>2. r \in Nat \X (Nat \ {0}) /\ r[1] \in Nat /\ r[2] \in Nat \ {0} /\ r = <<r[1], r[2]>>
  BY SdCallsAssumption
<1>3. BlockLen \in Nat \ {0} /\ RespTimeout \in Nat /\ RespTimeout > 0
  BY SdFacts
<1>4. arg \in Nat /\ Sd!FirstOffs(r[1]) \in 0 .. BlockLen - 1 /\ n \in Nat \ {0}
  BY <1>2, <1>3, DivMod, Blocks
<1>5. /\ pc = "idle" /\ Sd!React(cmd, arg)
      /\ pc' = "resp" /\ timeout' = RespTimeout
      /\ call' = [op |-> "read", addr |-> r[1], len |-> r[2]]
      /\ dst' = [o \in Window |-> Untouched] /\ b' = 0 /\ blk' = <<>>
      /\ UNCHANGED <<ret, clock>>
  BY <1>1 DEF Sd!Read
<1>6. SdType /\ ActivationInv /\ LineInv /\ IdleInv
  BY DEF SdInv
<1>7. promised' => stream # "multi" /\ (Real => Quiet(out, 0))
  <2> SUFFICES ASSUME LineSettled PROVE stream # "multi" /\ (Real => Quiet(out, 0))
    OBVIOUS
  <2>1. stream # "multi" /\ out \in Seq(Nat)
    BY <1>6 DEF LineSettled, SdType
  <2>2. CASE out = <<>>
    BY <2>1, <2>2 DEF Quiet, CrcLast
  <2>3. CASE out # <<>> /\ ret = 0
    <3>1. Zeros(out)
      BY <1>5, <1>6, <2>3 DEF LineSettled, IdleInv
    <3> QED
      BY <2>1, <3>1, ZerosAreQuiet
  <2>4. CASE out # <<>> /\ ret # 0
    BY <1>5, <1>6, <2>1, <2>4 DEF LineSettled, IdleInv
  <2> QED
    BY <2>1, <2>2, <2>3, <2>4
<1>8. cmd \in {"CMD17", "CMD18"} /\ (cmd = "CMD18" <=> n > 1)
  OBVIOUS
<1>9. /\ call' \in Calls /\ call'.op = "read" /\ call' # NoCall /\ Arguments' \in SdReads
      /\ first' = arg /\ (Multi' <=> cmd = "CMD18")
  <2>1. call' \in [op : Ops, addr : Nat, len : Nat] /\ call'.op = "read"
    BY <1>2, <1>5 DEF Ops
  <2>2. call'.addr = r[1] /\ call'.len = r[2]
    BY <1>5
  <2>3. Arguments' = r
    BY <1>2, <2>2 DEF Arguments
  <2>4. first' = arg /\ num_blocks' = n
    BY <2>2 DEF first, num_blocks
  <2> QED
    BY <1>8, <2>1, <2>3, <2>4, NoCallAssumption DEF Calls, Multi
<1> HIDE DEF n, cmd, arg
<1>10. /\ UNCHANGED card /\ lba' \in Nat /\ stream' \in {"ready", "single", "multi"}
       /\ out' \in Seq(Nat) /\ \A j \in 1 .. Len(out') - 1 : out'[j] < 256
       /\ \/ /\ stream # "multi" => stream' # "multi"
             /\ Quiet(out, 0) => Quiet(out', 0)
          \/ /\ cmd = "CMD17" /\ stream' = "single" /\ out'[Len(out')] = Sd!Crc(arg)
             /\ \E q \in Nat : Quiet(out', q)
          \/ /\ cmd = "CMD18" /\ stream' = "multi" /\ lba' = arg
             /\ out' # <<>> /\ out'[Len(out')] = 0
             /\ \A j \in 1 .. Len(out') - 1 : out'[j] = 255
  BY <1>4, <1>5, <1>6, <1>8, ReadCommand
<1>11. SdType'
  <2>1. {ret', b', timeout', lba'} \subseteq Nat
    BY <1>3, <1>5, <1>6, <1>10 DEF SdType
  <2>2. blk' \in Seq(Nat) /\ DOMAIN dst' = Window
    BY <1>5
  <2>3. promised' \in BOOLEAN
    BY <1>6 DEF LineSettled, SdType
  <2> QED
    BY <1>5, <1>6, <1>9, <1>10, <2>1, <2>2, <2>3 DEF SdType
<1>12. ActivationInv'
  BY <1>5, <1>6, <1>9, <1>10 DEF ActivationInv, Activating, Starting, Real
<1>13. LineInv'
  <2>1. promised' /\ ~ Multi' => stream' # "multi"
    BY <1>7, <1>8, <1>9, <1>10
  <2> QED
    BY <1>3, <1>5, <1>10, <2>1 DEF LineInv, Polling
<1>14. ResponseInv'
  <2> SUFFICES ASSUME promised', Real'
               PROVE  \/ stream' # "multi" /\ Quiet(out', 0)
                      \/ /\ stream' # "multi" /\ ~ Multi' /\ Current'
                         /\ \E q \in Nat : Quiet(out', q)
                      \/ /\ stream' = "multi" /\ Multi' /\ lba' = first'
                         /\ out' # <<>> /\ out'[Len(out')] = 0
                         /\ \A j \in 1 .. Len(out') - 1 : out'[j] = Sd!Idle
    BY <1>5 DEF ResponseInv
  <2>1. Real
    BY <1>10 DEF Real
  <2>2. CASE /\ stream # "multi" => stream' # "multi"
             /\ Quiet(out, 0) => Quiet(out', 0)
    BY <1>7, <2>1, <2>2
  <2>3. CASE /\ cmd = "CMD17" /\ stream' = "single" /\ out'[Len(out')] = Sd!Crc(arg)
             /\ \E q \in Nat : Quiet(out', q)
    <3>3. first' + b' = arg
      BY <1>4, <1>5, <1>9
    <3>4. Current'
      BY <2>3, <3>3 DEF Current
    <3>5. ~ Multi'
      BY <1>9, <2>3
    <3> QED
      BY <2>3, <3>4, <3>5
  <2>4. CASE /\ cmd = "CMD18" /\ stream' = "multi" /\ lba' = arg
             /\ out' # <<>> /\ out'[Len(out')] = 0
             /\ \A j \in 1 .. Len(out') - 1 : out'[j] = 255
    BY <1>9, <2>4 DEF Sd!Idle
  <2> QED
    BY <1>10, <2>2, <2>3, <2>4
<1>15. IdleInv' /\ StreamInv' /\ BlockInv' /\ FinishInv'
  BY <1>5 DEF IdleInv, StreamInv, BlockInv, FinishInv, Reading, Finishing
<1> QED
  BY <1>11, <1>12, <1>13, <1>14, <1>15 DEF SdInv
---------------------------------------------------------------------------
(* While a read is under way, its arguments are known.                     *)
LEMMA InRead ==
  ASSUME SdInv, pc \in {"resp"} \cup Reading \cup Finishing
  PROVE  /\ call # NoCall /\ call \in Calls /\ call.op = "read" /\ Arguments \in SdReads
         /\ pc \notin Activating \cup {"dead"}
         /\ SdType /\ ActivationInv /\ LineInv
<1>1. pc \notin Activating \cup {"dead", "idle"}
  BY DEF Activating, Starting, Reading, Finishing
<1> QED
  BY <1>1 DEF SdInv, SdType, ActivationInv

(* What looks like a response.                                             *)
LEMMA ResponseIs ==
  ASSUME NEW s \in Nat, NEW resp \in Sd!LooksLikeResponse(s), s < 256
  PROVE  resp <=> s < 128
<1>1. Sd!LooksLikeResponse(s) = {s < 128}
  BY DEF Sd!LooksLikeResponse, Sd!Bytes
<1> QED
  BY <1>1, Zenon

(* A read that ends with a failure: a caller goes on only if what is left  *)
(* on the line is harmless.                                                *)
LEMMA FailedRead ==
  ASSUME SdInv, pc \in {"resp"} \cup Reading \cup Finishing, Sd!Xfer,
         UNCHANGED <<call, dst, b, blk, clock, promised>>,
         pc' = "idle", ret' \in Nat \ {0}, timeout' \in Nat,
         promised /\ Real /\ ret' # 18 /\ stream # "multi" => Quiet(out', 0)
  PROVE  SdInv'
<1>1. /\ call # NoCall /\ pc \notin Activating \cup {"dead"}
      /\ SdType /\ ActivationInv /\ LineInv
  BY InRead
<1>2. /\ UNCHANGED <<stream, lba, card>> /\ out' \in Seq(Nat)
      /\ \A j \in 1 .. Len(out') - 1 : out'[j] < 256
  BY <1>1, Transfer
<1>3. b \in Nat /\ lba \in Nat /\ DOMAIN dst = Window /\ blk \in Seq(Nat)
      /\ stream \in {"ready", "single", "multi"}
  BY <1>1 DEF SdType
<1>4. SdType' /\ ActivationInv'
  BY <1>1, <1>2, <1>3, ReadKeeps
<1>5. (Multi' <=> Multi) /\ (Real' <=> Real)
  BY <1>2 DEF Multi, num_blocks, Real
<1>6. LineInv'
  BY <1>1, <1>2, <1>5 DEF LineInv, Polling
<1>7. IdleInv'
  BY <1>2, <1>5 DEF IdleInv, Sd!ENoResp
<1>8. ResponseInv' /\ StreamInv' /\ BlockInv' /\ FinishInv'
  BY DEF ResponseInv, StreamInv, BlockInv, FinishInv, Reading, Finishing
<1> QED
  BY <1>4, <1>6, <1>7, <1>8 DEF SdInv

(* Polling for the response to the read command.                           *)
LEMMA SdResponse ==
  ASSUME SdInv, Sd!PollReadResponse, UNCHANGED <<clock, promised>>
  PROVE  SdInv'
<1>1. pc = "resp" /\ Sd!Xfer /\ UNCHANGED <<call, dst, b, blk>>
  BY DEF Sd!PollReadResponse, Sd!PollResponse
<1>2. PICK resp \in Sd!LooksLikeResponse(Sd!NextSymbol) :
        CASE timeout = 1 -> Sd!Return(Sd!ENoResp) /\ timeout' = 0
          [] timeout > 1 /\ resp -> Sd!Go("token") /\ timeout' = DataTimeout
          [] OTHER -> timeout' = timeout - 1 /\ UNCHANGED <<pc, ret>>
  BY DEF Sd!PollReadResponse, Sd!PollResponse
<1>3. /\ call # NoCall /\ call \in Calls /\ Arguments \in SdReads
      /\ pc \notin Activating \cup {"dead"} /\ SdType /\ ActivationInv /\ LineInv
  BY <1>1, InRead
<1>4. /\ UNCHANGED <<stream, lba, card>> /\ (stream = "multi" => out # <<>>)
      /\ out' \in Seq(Nat) /\ \A j \in 1 .. Len(out') - 1 : out'[j] < 256
      /\ Sd!NextSymbol \in Nat
      /\ \/ out = <<>> /\ out' = <<>> /\ (Real => Sd!NextSymbol = 255)
         \/ /\ out # <<>> /\ Len(out') = Len(out) - 1 /\ Len(out) >= 1
            /\ \A j \in 1 .. Len(out') : out'[j] = out[j + 1]
            /\ Real => Sd!NextSymbol = out[1]
  BY <1>1, <1>3, Transfer
<1>5. /\ CrcLast(out') => /\ CrcLast(out) /\ out'[Len(out')] = out[Len(out)]
                          /\ Len(out') = Len(out) - 1 /\ Len(out') >= 1
                          /\ Real => Sd!NextSymbol < 256
      /\ \A r \in Nat : Quiet(out, r) => Quiet(out', IF r > 0 THEN r - 1 ELSE 0)
  BY <1>1, <1>3, LineMoves
<1>6. /\ timeout \in Nat /\ timeout > 0 /\ ret \in Nat /\ b \in Nat /\ lba \in Nat
      /\ DOMAIN dst = Window /\ blk \in Seq(Nat) /\ out \in Seq(Nat)
      /\ stream \in {"ready", "single", "multi"}
  BY <1>1, <1>3 DEF SdType, LineInv, Polling
<1>7. (Multi' <=> Multi) /\ (Real' <=> Real) /\ first' = first
  BY <1>1, <1>4 DEF Multi, num_blocks, Real, first
<1>8. /\ b = 0 /\ blk = <<>>
      /\ promised /\ Real =>
         \/ stream # "multi" /\ Quiet(out, 0)
         \/ /\ stream # "multi" /\ ~ Multi /\ Current
            /\ \E r \in Nat : Quiet(out, r)
         \/ /\ stream = "multi" /\ Multi /\ lba = first
            /\ out # <<>> /\ out[Len(out)] = 0
            /\ \A j \in 1 .. Len(out) - 1 : out[j] = 255
  BY <1>1 DEF SdInv, ResponseInv, Sd!Idle
<1>9. CrcLast(out') /\ Current => Current'
  BY <1>1, <1>5, <1>7 DEF Current
<1>10. BlockLen \in Nat \ {0} /\ DataTimeout \in Nat /\ DataTimeout > 0
  BY SdFacts
<1>11. Quiet(out, 0) => Quiet(out', 0)
  BY <1>5
<1>12. CASE timeout = 1
  <2>1. pc' = "idle" /\ ret' = 18 /\ timeout' = 0
    BY <1>2, <1>12 DEF Sd!Return, Sd!ENoResp
  <2> QED
    BY <1>1, <2>1, FailedRead
<1>13. CASE timeout > 1 /\ resp
  <2>0. ASSUME Sd!NextSymbol < 256 PROVE Sd!NextSymbol < 128
    <3>1. resp <=> Sd!NextSymbol < 128
      BY <1>4, <2>0, ResponseIs
    <3>2. resp
      BY <1>13
    <3> QED
      BY <3>1, <3>2, Zenon
  <2>1. pc' = "token" /\ timeout' = DataTimeout /\ UNCHANGED ret
    BY <1>2, <1>6, <1>13 DEF Sd!Go
  <2>2. SdType' /\ ActivationInv'
    BY <1>1, <1>3, <1>4, <1>6, <1>10, <2>1, ReadKeeps DEF Reading
  <2>3. LineInv'
    BY <1>1, <1>3, <1>4, <1>7, <1>10, <2>1 DEF LineInv
  <2>4. StreamInv'
    <3> SUFFICES ASSUME promised, Real
                 PROVE  /\ stream # "multi" => Quiet(out', 0)
                        /\ \/ stream # "multi" /\ Starved'
                           \/ stream # "multi" /\ ~ Multi /\ Current'
                           \/ stream = "multi" /\ Multi /\ out' = <<>> /\ lba = first + b
      BY <1>1, <1>4, <1>7, <2>1 DEF StreamInv
    <3>1. CrcLast(out') => out # <<>> /\ out[1] < 128
      <4>1. CrcLast(out') => out' # <<>> /\ Sd!NextSymbol < 256
        BY <1>5 DEF CrcLast
      <4>2. CrcLast(out') => Sd!NextSymbol < 128
        BY <2>0, <4>1
      <4> QED
        BY <1>4, <4>1, <4>2
    <3>2. ASSUME CrcLast(out'), NEW r \in Nat, r # 1, Quiet(out, r)
          PROVE  Len(out') <= BlockLen
      <4>1. CrcLast(out) /\ Len(out') = Len(out) - 1 /\ out[1] \in Nat
        BY <1>5, <1>6, <3>1, <3>2
      <4>2. ~ (1 \in 1 .. Len(out) - BlockLen - 1)
        BY <3>1, <3>2, <4>1 DEF Quiet
      <4> QED
        BY <1>6, <1>10, <4>1, <4>2
    <3>3. ASSUME NEW r \in Nat, r # 1, Quiet(out, r)
          PROVE  Starved' /\ Quiet(out', 0)
      <4>1. CrcLast(out') => Len(out') <= BlockLen
        BY <3>2, <3>3
      <4>2. Len(out') \in Nat /\ Len(blk') = 0
        BY <1>1, <1>4, <1>8
      <4>3. Starved'
        BY <1>10, <4>1, <4>2 DEF Starved
      <4>4. CrcLast(out') => 1 .. Len(out') - BlockLen - 1 = {}
        BY <1>10, <4>1, <4>2
      <4> QED
        BY <4>3, <4>4 DEF Quiet
    <3>4. CASE stream # "multi" /\ Quiet(out, 0)
      BY <3>3, <3>4
    <3>5. CASE stream # "multi" /\ ~ Multi /\ Current /\ \E r \in Nat : Quiet(out, r)
      <4>1. PICK r \in Nat : Quiet(out, r)
        BY <3>5
      <4>2. r \in Nat
        OBVIOUS
      <4>3. CASE r = 1
        <5>1. Quiet(out', 0)
          <6>1. (IF r > 0 THEN r - 1 ELSE 0) = 0
            BY <4>3
          <6> QED
            BY <1>5, <4>1, <4>2, <6>1
        <5>2. Current'
          BY <1>9, <3>5 DEF Current
        <5> QED
          BY <3>5, <5>1, <5>2
      <4>4. CASE r # 1
        BY <3>3, <3>5, <4>1, <4>2, <4>4
      <4> QED
        BY <4>3, <4>4
    <3>6. CASE /\ stream = "multi" /\ Multi /\ lba = first
               /\ out # <<>> /\ out[Len(out)] = 0
               /\ \A j \in 1 .. Len(out) - 1 : out[j] = 255
      <4>1. Len(out) \in Nat /\ Len(out) >= 1 /\ Sd!NextSymbol = out[1]
        BY <1>4, <1>6, <3>6
      <4>2. Len(out) = 1 \/ 1 \in 1 .. Len(out) - 1
        BY <4>1
      <4>3. out[1] = 0 \/ out[1] = 255
        BY <3>6, <4>2
      <4>4. Sd!NextSymbol < 128
        <5>1. Sd!NextSymbol < 256
          BY <4>1, <4>3
        <5> QED
          BY <2>0, <5>1
      <4>5. Len(out) = 1
        BY <3>6, <4>1, <4>2, <4>4
      <4>6. out' = <<>>
        BY <1>4, <3>6, <4>5
      <4>7. lba = first + b
        <5>1. first = lba /\ lba \in Nat /\ b = 0
          BY <1>6, <1>8, <3>6
        <5> QED
          BY <5>1
      <4> QED
        BY <3>6, <4>6, <4>7
    <3> QED
      BY <1>8, <3>4, <3>5, <3>6
  <2>5. BlockInv'
    <3>1. b' = 0 /\ blk' = <<>> /\ num_blocks' = num_blocks
      BY <1>1, <1>8 DEF num_blocks
    <3>2. /\ num_blocks \in Nat \ {0} /\ Sd!FirstOffs(call.addr) \in 0 .. BlockLen - 1
      <4>1. call.addr \in Nat /\ call.len \in Nat \ {0}
        BY <1>3, SdCallsAssumption DEF Calls, Arguments
      <4> QED
        BY <4>1, Blocks DEF num_blocks
    <3>3. InPlace(Sd!Offset(0))'
      <4>1. Sd!Offset(0)' = BlockLen * 0 + 0 - Sd!FirstOffs(call.addr)
        BY <1>1, <3>1 DEF Sd!Offset, Sd!addr
      <4>2. Sd!Offset(0)' \in Int /\ Sd!Offset(0)' <= 0
        BY <1>10, <3>2, <4>1
      <4> QED
        BY <4>2 DEF InPlace
    <3>4. b' < num_blocks'
      BY <3>1, <3>2
    <3>5. Len(blk') = 0
      BY <3>1
    <3> QED
      BY <2>1, <3>1, <3>3, <3>4, <3>5 DEF BlockInv
  <2>6. IdleInv' /\ ResponseInv' /\ FinishInv'
    BY <2>1 DEF IdleInv, ResponseInv, FinishInv, Finishing
  <2> QED
    BY <2>2, <2>3, <2>4, <2>5, <2>6 DEF SdInv
<1>14. CASE timeout > 1 /\ ~ resp
  <2>1. pc' = "resp" /\ timeout' = timeout - 1 /\ UNCHANGED ret
    BY <1>1, <1>2, <1>6, <1>14
  <2>2. SdType' /\ ActivationInv'
    <3>1. timeout' \in Nat
      BY <1>6, <2>1, <1>14
    <3> QED
      BY <1>1, <1>3, <1>4, <1>6, <2>1, <3>1, ReadKeeps
  <2>3. LineInv'
    <3>1. timeout' > 0
      BY <1>6, <1>14, <2>1
    <3> QED
      BY <1>1, <1>3, <1>4, <1>7, <3>1 DEF LineInv
  <2>4. ResponseInv'
    <3> SUFFICES ASSUME promised, Real
                 PROVE  \/ stream # "multi" /\ Quiet(out', 0)
                        \/ /\ stream # "multi" /\ ~ Multi /\ Current'
                           /\ \E r \in Nat : Quiet(out', r)
                        \/ /\ stream = "multi" /\ Multi /\ lba = first
                           /\ out' # <<>> /\ out'[Len(out')] = 0
                           /\ \A j \in 1 .. Len(out') - 1 : out'[j] = 255
      BY <1>1, <1>4, <1>7, <1>8, <2>1 DEF ResponseInv, Sd!Idle
    <3>1. CASE stream # "multi" /\ Quiet(out, 0)
      BY <1>11, <3>1
    <3>2. CASE stream # "multi" /\ ~ Multi /\ Current /\ \E r \in Nat : Quiet(out, r)
      <4>1. PICK r \in Nat : Quiet(out, r)
        BY <3>2
      <4> DEFINE q == IF r > 0 THEN r - 1 ELSE 0
      <4>2. r \in Nat /\ q \in Nat
        OBVIOUS
      <4>3. Quiet(out', q)
        BY <1>5, <4>1, <4>2
      <4>4. Current'
        BY <1>9, <3>2 DEF Current
      <4> QED
        BY <3>2, <4>2, <4>3, <4>4
    <3>3. CASE /\ stream = "multi" /\ Multi /\ lba = first
               /\ out # <<>> /\ out[Len(out)] = 0
               /\ \A j \in 1 .. Len(out) - 1 : out[j] = 255
      <4>1. /\ Len(out) \in Nat /\ Len(out) >= 1 /\ Sd!NextSymbol = out[1]
            /\ Len(out') = Len(out) - 1 /\ \A j \in 1 .. Len(out') : out'[j] = out[j + 1]
        BY <1>4, <1>6, <3>3
      <4>2. out[1] # 0
        <5>1. ASSUME out[1] = 0 PROVE FALSE
          <6>1. Sd!NextSymbol < 256 /\ Sd!NextSymbol < 128
            BY <4>1, <5>1
          <6> QED
            BY <1>4, <1>14, <6>1, ResponseIs
        <5> QED
          BY <5>1
      <4>3. Len(out) # 1
        BY <3>3, <4>2
      <4>4. Len(out') \in 1 .. Len(out') /\ Len(out') + 1 = Len(out)
        BY <4>1, <4>3
      <4>5. out' # <<>> /\ out'[Len(out')] = 0
        BY <3>3, <4>1, <4>4
      <4>6. ASSUME NEW j \in 1 .. Len(out') - 1 PROVE out'[j] = 255
        <5>1. j \in 1 .. Len(out') /\ j + 1 \in 1 .. Len(out) - 1
          BY <4>1, <4>4
        <5> QED
          BY <3>3, <4>1, <5>1
      <4> QED
        BY <3>3, <4>5, <4>6
    <3> QED
      BY <1>8, <3>1, <3>2, <3>3
  <2>5. IdleInv' /\ StreamInv' /\ BlockInv' /\ FinishInv'
    BY <2>1 DEF IdleInv, StreamInv, BlockInv, FinishInv, Reading, Finishing
  <2> QED
    BY <2>2, <2>3, <2>4, <2>5 DEF SdInv
<1>15. timeout = 1 \/ (timeout > 1 /\ resp) \/ (timeout > 1 /\ ~ resp)
  BY <1>6
<1> QED
  BY <1>12, <1>13, <1>14, <1>15
---------------------------------------------------------------------------
(* While symbols of a block, or before it, are taken, what is known of the *)
(* line stays so.                                                          *)
LEMMA StreamMoves ==
  ASSUME SdInv, pc \in Reading, Sd!Xfer, UNCHANGED <<call, b, promised>>, promised, Real,
         blk' \in Seq(Nat),
         Len(blk') <= Len(blk) + 1, Spoilt => Spoilt', Sd!NextSymbol > 255 => Spoilt'
  PROVE  StreamInv'
<1>1. SdType /\ LineInv
  BY InRead
<1>2. /\ UNCHANGED <<stream, lba, card>> /\ (stream = "multi" => out # <<>>)
      /\ out' \in Seq(Nat) /\ Sd!NextSymbol \in Nat
  BY <1>1, Transfer
<1>3. /\ CrcLast(out') => /\ CrcLast(out) /\ out'[Len(out')] = out[Len(out)]
                          /\ Len(out') = Len(out) - 1 /\ Len(out') >= 1
      /\ CrcLast(out) /\ Sd!NextSymbol < 256 => CrcLast(out')
      /\ \A r \in Nat : Quiet(out, r) => Quiet(out', IF r > 0 THEN r - 1 ELSE 0)
  BY <1>1, LineMoves
<1>4. (Multi' <=> Multi) /\ first' = first /\ out \in Seq(Nat) /\ blk \in Seq(Nat)
  BY <1>1 DEF Multi, num_blocks, first, SdType
<1>5. /\ stream # "multi" => Quiet(out, 0)
      /\ \/ Spoilt
         \/ stream # "multi" /\ Starved
         \/ stream # "multi" /\ ~ Multi /\ Current
         \/ stream = "multi" /\ Multi /\ pc = "token" /\ out = <<>> /\ lba = first + b
         \/ stream = "multi" /\ Multi /\ CrcLast(out) /\ Current /\ lba = first + b + 1
  BY DEF SdInv, StreamInv
<1>6. stream # "multi" => Quiet(out', 0)
  BY <1>3, <1>5
<1>7. Starved => Starved'
  <2> SUFFICES ASSUME Starved, CrcLast(out') PROVE Len(out') + Len(blk') <= BlockLen
    BY DEF Starved
  <2>1. CrcLast(out) /\ Len(out') = Len(out) - 1
    BY <1>3
  <2>2. Len(out) + Len(blk) <= BlockLen
    BY <2>1 DEF Starved
  <2>3. Len(out) \in Nat /\ Len(blk) \in Nat /\ Len(blk') \in Nat /\ BlockLen \in Nat
    BY <1>4, SdFacts
  <2> QED
    BY <2>1, <2>2, <2>3
<1>8. Current => Current'
  BY <1>3, <1>4 DEF Current
<1>9. Spoilt' \/ (CrcLast(out) => CrcLast(out'))
  BY <1>2, <1>3
<1>10. \/ Spoilt'
       \/ stream' # "multi" /\ Starved'
       \/ stream' # "multi" /\ ~ Multi' /\ Current'
       \/ stream' = "multi" /\ Multi' /\ CrcLast(out') /\ Current' /\ lba' = first' + b' + 1
  <2>1. stream' = stream /\ lba' = lba /\ b' = b
    BY <1>2
  <2>2. ~ (stream = "multi" /\ out = <<>>)
    BY <1>2
  <2> QED
    BY <1>4, <1>5, <1>7, <1>8, <1>9, <2>1, <2>2
<1> QED
  BY <1>2, <1>4, <1>6, <1>10 DEF StreamInv

(* Polling for the token of a block.                                       *)
LEMMA SdToken ==
  ASSUME SdInv, Sd!PollToken, UNCHANGED <<clock, promised>>
  PROVE  SdInv'
<1>1. pc = "token" /\ Sd!Xfer /\ timeout' = timeout - 1 /\ UNCHANGED <<call, dst, b, blk>>
  BY DEF Sd!PollToken
<1>2. /\ call # NoCall /\ call \in Calls /\ Arguments \in SdReads
      /\ pc \notin Activating \cup {"dead"} /\ SdType /\ ActivationInv /\ LineInv
  BY <1>1, InRead DEF Reading
<1>3. /\ UNCHANGED <<stream, lba, card>>
      /\ out' \in Seq(Nat) /\ \A j \in 1 .. Len(out') - 1 : out'[j] < 256
      /\ Sd!NextSymbol \in Nat /\ (~ Real => Sd!NextSymbol = 0)
  BY <1>1, <1>2, Transfer
<1>4. /\ timeout \in Nat /\ timeout > 0 /\ ret \in Nat /\ b \in Nat /\ lba \in Nat
      /\ DOMAIN dst = Window /\ blk \in Seq(Nat) /\ out \in Seq(Nat)
      /\ stream \in {"ready", "single", "multi"}
  BY <1>1, <1>2 DEF SdType, LineInv, Polling
<1>5. BlockInv /\ StreamInv /\ blk = <<>>
  BY <1>1 DEF SdInv, BlockInv, Reading
<1>6. (Multi' <=> Multi) /\ (Real' <=> Real)
  BY <1>1, <1>3 DEF Multi, num_blocks, Real
<1>7. promised /\ Real /\ stream # "multi" => Quiet(out', 0)
  <2>1. promised /\ Real /\ stream # "multi" => Quiet(out, 0)
    BY <1>1, <1>5 DEF StreamInv, Reading
  <2> QED
    BY <1>1, <1>2, <2>1, LineMoves
<1>8. \/ pc' = "idle" /\ ret' \in {25, 32}
      \/ /\ timeout > 1 /\ UNCHANGED ret
         /\ \/ pc' = "token" /\ Sd!NextSymbol = 255
            \/ pc' = "data" /\ Sd!NextSymbol = 254
  BY <1>1, <1>4
     DEF Sd!PollToken, Sd!Return, Sd!Go, Sd!Idle, Sd!Token, Sd!EToken, Sd!ENoToken
<1>9. timeout' \in Nat
  BY <1>1, <1>4
<1>10. CASE pc' = "idle" /\ ret' \in {25, 32}
  BY <1>1, <1>7, <1>9, <1>10, FailedRead DEF Reading
<1>11. CASE /\ timeout > 1 /\ UNCHANGED ret
            /\ \/ pc' = "token" /\ Sd!NextSymbol = 255
               \/ pc' = "data" /\ Sd!NextSymbol = 254
  <2>1. Real /\ Sd!NextSymbol < 256
    BY <1>3, <1>11
  <2>2. SdType' /\ ActivationInv'
    BY <1>1, <1>2, <1>3, <1>4, <1>9, <1>11, ReadKeeps DEF Reading
  <2>3. LineInv'
    <3>1. timeout' > 0
      BY <1>1, <1>4, <1>11
    <3> QED
      BY <1>1, <1>2, <1>3, <1>6, <3>1 DEF LineInv
  <2>4. StreamInv'
    <3>1. Spoilt => Spoilt'
      BY <1>1 DEF Spoilt
    <3>2. blk' \in Seq(Nat) /\ Len(blk') <= Len(blk) + 1
      BY <1>1, <1>4
    <3>3. ~ (Sd!NextSymbol > 255)
      BY <2>1, <1>3
    <3>4. CASE promised
      BY <1>1, <2>1, <3>1, <3>2, <3>3, <3>4, StreamMoves DEF Reading
    <3>5. CASE ~ promised
      BY <3>5 DEF StreamInv
    <3> QED
      BY <3>4, <3>5
  <2>5. BlockInv'
    <3>1. Len(blk') < BlockLen
      BY <1>1, <1>5, SdFacts
    <3>2. /\ b < num_blocks
          /\ Sd!Swapped \/ \A k \in 0 .. Len(blk) - 1 : dst[Sd!Offset(k)] = blk[k + 1]
          /\ promised => InPlace(Sd!Offset(0))
      BY <1>1, <1>5 DEF BlockInv, Reading
    <3> QED
      BY <1>1, <1>5, <1>6, <1>11, <2>1, <3>1, <3>2
         DEF BlockInv, num_blocks, InPlace, Sd!Swapped, Sd!first_block, Sd!last_block,
             Sd!Offset, Sd!addr, Sd!len
  <2>6. IdleInv' /\ ResponseInv' /\ FinishInv'
    BY <1>11 DEF IdleInv, ResponseInv, FinishInv, Finishing
  <2> QED
    BY <2>2, <2>3, <2>4, <2>5, <2>6 DEF SdInv
<1> QED
  BY <1>8, <1>10, <1>11
---------------------------------------------------------------------------
(* A byte of a block.                                                      *)
LEMMA SdData ==
  ASSUME SdInv, Sd!ReadData, UNCHANGED <<clock, promised>>
  PROVE  SdInv'
<1>1. /\ pc = "data" /\ Sd!Xfer /\ blk' = Append(blk, Sd!NextSymbol)
      /\ dst' = IF Sd!Swapped THEN dst ELSE Sd!Put({Len(blk)}, blk')
      /\ pc' = (IF Len(blk') = BlockLen THEN "crc" ELSE "data")
      /\ UNCHANGED <<ret, call, b, timeout>>
  BY DEF Sd!ReadData, Sd!Go
<1>2. /\ call # NoCall /\ call \in Calls /\ Arguments \in SdReads
      /\ pc \notin Activating \cup {"dead"} /\ SdType /\ ActivationInv /\ LineInv
  BY <1>1, InRead DEF Reading
<1>3. /\ UNCHANGED <<stream, lba, card>>
      /\ out' \in Seq(Nat) /\ \A j \in 1 .. Len(out') - 1 : out'[j] < 256
      /\ Sd!NextSymbol \in Nat
  BY <1>1, <1>2, Transfer
<1>4. /\ timeout \in Nat /\ ret \in Nat /\ b \in Nat /\ lba \in Nat
      /\ DOMAIN dst = Window /\ blk \in Seq(Nat)
      /\ stream \in {"ready", "single", "multi"}
  BY <1>2 DEF SdType
<1>5. /\ b < num_blocks /\ Len(blk) < BlockLen /\ Real
      /\ Sd!Swapped \/ \A k \in 0 .. Len(blk) - 1 : dst[Sd!Offset(k)] = blk[k + 1]
      /\ promised => InPlace(Sd!Offset(0))
  BY <1>1 DEF SdInv, BlockInv, Reading
<1>6. (Multi' <=> Multi) /\ (Real' <=> Real) /\ num_blocks' = num_blocks
  BY <1>1, <1>3 DEF Multi, num_blocks, Real
<1>7. /\ blk' \in Seq(Nat) /\ Len(blk') = Len(blk) + 1 /\ blk'[Len(blk) + 1] = Sd!NextSymbol
      /\ \A j \in 1 .. Len(blk) : blk'[j] = blk[j]
  BY <1>1, <1>3, <1>4
<1>8. BlockLen \in Nat \ {0} /\ Len(blk) \in Nat /\ Len(blk') \in Nat
  BY <1>4, <1>7, SdFacts
<1>9. /\ (Sd!Swapped' <=> Sd!Swapped)
      /\ \A k \in Nat : Sd!Offset(k)' = Sd!Offset(k)
  BY <1>1 DEF Sd!Swapped, Sd!first_block, Sd!last_block, Sd!Offset, Sd!addr, Sd!len
<1>10. ASSUME NEW k \in 0 .. BlockLen - 1
       PROVE  /\ Sd!Offset(k) \in Int /\ Sd!Offset(k) = Sd!Offset(0) + k
              /\ ~ Sd!Swapped => Sd!Offset(k) \in 0 .. call.len - 1
  BY <1>2, <1>4, <1>5, Offsets
<1>11. 0 \in 0 .. BlockLen - 1 /\ Sd!Offset(0) \in Int
  <2>1. 0 \in 0 .. BlockLen - 1
    BY <1>8
  <2> QED
    BY <1>10, <2>1
<1>12. 0 .. call.len - 1 \subseteq Window /\ call.len \in Nat
  BY <1>2, SdCallsAssumption DEF InWindow, Arguments, Calls
<1>13. ~ Sd!Swapped =>
         /\ DOMAIN dst' = Window
         /\ \A o \in Window : dst'[o] = IF o - Sd!Offset(0) = Len(blk) THEN blk'[Len(blk) + 1]
                                        ELSE dst[o]
  <2> SUFFICES ASSUME ~ Sd!Swapped
               PROVE  /\ DOMAIN dst' = Window
                      /\ \A o \in Window :
                           dst'[o] = IF o - Sd!Offset(0) = Len(blk) THEN blk'[Len(blk) + 1]
                                     ELSE dst[o]
    OBVIOUS
  <2>1. dst' = [o \in Window |-> IF o - Sd!Offset(0) \in {Len(blk)}
                                 THEN blk'[o - Sd!Offset(0) + 1] ELSE dst[o]]
    BY <1>1, <1>4 DEF Sd!Put
  <2> QED
    BY <2>1
<1>14. DOMAIN dst' = Window
  BY <1>1, <1>4, <1>13
<1>15. SdType' /\ ActivationInv'
  BY <1>1, <1>2, <1>3, <1>4, <1>7, <1>14, ReadKeeps DEF Reading
<1>16. LineInv'
  BY <1>1, <1>2, <1>3, <1>6 DEF LineInv, Polling
<1>17. StreamInv'
  <2>1. Spoilt => Spoilt'
    <3> SUFFICES ASSUME NEW k \in 1 .. Len(blk), blk[k] > 255
                 PROVE  \E j \in 1 .. Len(blk') : blk'[j] > 255
      BY DEF Spoilt
    <3>1. k \in 1 .. Len(blk') /\ blk'[k] = blk[k]
      BY <1>7, <1>8
    <3> QED
      BY <3>1
  <2>2. Sd!NextSymbol > 255 => Spoilt'
    <3>1. Len(blk) + 1 \in 1 .. Len(blk')
      BY <1>7, <1>8
    <3> QED
      BY <1>7, <3>1 DEF Spoilt
  <2>3. Len(blk') <= Len(blk) + 1
    BY <1>7, <1>8
  <2>4. CASE promised
    BY <1>1, <1>5, <1>7, <2>1, <2>2, <2>3, <2>4, StreamMoves DEF Reading
  <2>5. CASE ~ promised
    BY <2>5 DEF StreamInv
  <2> QED
    BY <2>4, <2>5
<1>18. BlockInv'
  <2>1. Sd!Swapped \/ \A k \in 0 .. Len(blk') - 1 : dst'[Sd!Offset(k)] = blk'[k + 1]
    <3> SUFFICES ASSUME ~ Sd!Swapped, NEW k \in 0 .. Len(blk') - 1
                 PROVE  dst'[Sd!Offset(k)] = blk'[k + 1]
      OBVIOUS
    <3>1. k \in 0 .. BlockLen - 1 /\ k \in Nat
      BY <1>5, <1>7, <1>8
    <3>2. /\ Sd!Offset(k) \in Window /\ Sd!Offset(k) - Sd!Offset(0) = k
      BY <1>10, <1>11, <1>12, <3>1
    <3>3. CASE k = Len(blk)
      BY <1>13, <3>2, <3>3
    <3>4. CASE k # Len(blk)
      <4>1. k \in 0 .. Len(blk) - 1 /\ k + 1 \in 1 .. Len(blk)
        BY <1>7, <1>8, <3>1, <3>4
      <4>2. dst'[Sd!Offset(k)] = dst[Sd!Offset(k)]
        BY <1>13, <3>2, <3>4
      <4>3. dst[Sd!Offset(k)] = blk[k + 1]
        BY <1>5, <4>1
      <4> QED
        BY <1>7, <4>1, <4>2, <4>3
    <3> QED
      BY <3>3, <3>4
  <2>2. \A k \in 0 .. Len(blk') - 1 : Sd!Offset(k)' = Sd!Offset(k)
    BY <1>8, <1>9
  <2>3. ASSUME promised, NEW o \in 0 .. call.len - 1, o < Sd!Offset(0)
        PROVE  /\ (call.addr + o) \div BlockLen \in DOMAIN Disk
               /\ dst'[o] = ByteOnDisk(call.addr + o)
    <3>1. o \in Int /\ o \in Window /\ o - Sd!Offset(0) # Len(blk)
      BY <1>8, <1>11, <1>12, <2>3
    <3>2. dst'[o] = dst[o]
      BY <1>1, <1>13, <3>1
    <3> QED
      BY <1>5, <2>3, <3>2 DEF InPlace
  <2>4. promised => InPlace(Sd!Offset(0))'
    <3>1. Sd!Offset(0)' = Sd!Offset(0)
      BY <1>9
    <3> QED
      BY <1>1, <2>3, <3>1 DEF InPlace, ByteOnDisk
  <2>5. pc' = "data" => Len(blk') < BlockLen
    BY <1>1, <1>5, <1>7, <1>8
  <2>6. pc' = "crc" => Len(blk') = BlockLen
    BY <1>1
  <2>7. Sd!Swapped' \/ \A k \in 0 .. Len(blk') - 1 : dst'[Sd!Offset(k)'] = blk'[k + 1]
    BY <1>9, <2>1, <2>2
  <2> QED
    BY <1>1, <1>5, <1>6, <2>4, <2>5, <2>6, <2>7 DEF BlockInv
<1>19. IdleInv' /\ ResponseInv' /\ FinishInv'
  BY <1>1 DEF IdleInv, ResponseInv, FinishInv, Finishing
<1> QED
  BY <1>15, <1>16, <1>17, <1>18, <1>19 DEF SdInv
---------------------------------------------------------------------------
(* The CRC fits only the block waited for: then the block is that block.   *)
LEMMA FitIsBlock ==
  ASSUME SdInv, promised, pc = "crc", Sd!Xfer, Sd!CrcFits(Sd!NextSymbol, blk)
  PROVE  /\ first + b \in DOMAIN Disk /\ blk = Disk[first + b] /\ out' = <<>>
         /\ \/ ~ Multi
            \/ stream = "multi" /\ Multi /\ lba = first + b + 1
<1>1. SdType /\ LineInv
  BY InRead DEF Reading
<1>2. PICK l \in DOMAIN Disk : Sd!NextSymbol = Sd!Crc(l) /\ blk = Disk[l]
  BY DEF Sd!CrcFits, Sd!Lbas
<1>3. l \in Nat /\ Sd!Crc(l) = 256 + l /\ Sd!NextSymbol > 255 /\ BlockLen \in Nat \ {0}
  BY <1>2, SdFacts DEF Sd!Crc
<1>4. Real /\ Len(blk) = BlockLen
  BY DEF SdInv, BlockInv, Reading
<1>5. CrcLast(out) /\ out' = <<>> /\ Sd!NextSymbol = out[Len(out)]
  BY <1>1, <1>3, <1>4, LineMoves
<1>6. ~ Spoilt
  <2> SUFFICES ASSUME NEW k \in 1 .. Len(blk), blk[k] > 255 PROVE FALSE
    BY DEF Spoilt
  <2>1. Disk[l] \in [1 .. BlockLen -> 0 .. 255] /\ k \in 1 .. BlockLen
    BY <1>4, DiskAssumption
  <2>2. Disk[l][k] \in 0 .. 255
    BY <2>1
  <2>3. blk[k] \in 0 .. 255
    BY <1>2, <2>2
  <2>4. \A x \in 0 .. 255 : ~ (x > 255)
    OBVIOUS
  <2> QED
    BY <2>3, <2>4, Zenon
<1>7. ~ Starved
  <2>1. Len(out) \in Nat /\ Len(out) > 0
    BY <1>1, <1>5 DEF SdType, CrcLast
  <2> QED
    BY <1>3, <1>4, <1>5, <2>1 DEF Starved
<1>8. \/ ~ Multi /\ Current
      \/ stream = "multi" /\ Multi /\ Current /\ lba = first + b + 1
  BY <1>4, <1>6, <1>7 DEF SdInv, StreamInv, Reading
<1>9. l = first + b
  <2>1. first \in Nat /\ b \in Nat
    <3>1. call.addr \in Nat
      BY InRead DEF Reading, Calls
    <3> QED
      BY <1>1, <1>3, <3>1, DivMod DEF first, SdType
  <2>2. 256 + l = 256 + (first + b)
    BY <1>2, <1>3, <1>5, <1>8 DEF Current, Sd!Crc
  <2> QED
    BY <1>3, <2>1, <2>2
<1> QED
  BY <1>2, <1>5, <1>8, <1>9

(* Then the block, in the buffer or copied to it, is in place.             *)
LEMMA BlockInPlace ==
  ASSUME SdInv, promised, pc = "crc", Sd!Xfer, Sd!CrcFits(Sd!NextSymbol, blk),
         dst' = IF Sd!Swapped THEN Sd!Put(Sd!Relevant, blk) ELSE dst,
         UNCHANGED call, NEW o \in 0 .. call.len - 1, o < Sd!Offset(0) + BlockLen
  PROVE  /\ (call.addr + o) \div BlockLen \in DOMAIN Disk
         /\ dst'[o] = ByteOnDisk(call.addr + o)
<1>1. /\ call \in Calls /\ Arguments \in SdReads /\ SdType
  BY InRead DEF Reading
<1>2. /\ b < num_blocks /\ Len(blk) = BlockLen
      /\ Sd!Swapped \/ \A k \in 0 .. Len(blk) - 1 : dst[Sd!Offset(k)] = blk[k + 1]
      /\ InPlace(Sd!Offset(0))
  BY DEF SdInv, BlockInv, Reading
<1>3. BlockLen \in Nat \ {0} /\ b \in Nat /\ DOMAIN dst = Window
  BY <1>1, SdFacts DEF SdType
<1>4. 0 \in 0 .. BlockLen - 1 /\ BlockLen - 1 \in 0 .. BlockLen - 1
  BY <1>3
<1>5. ASSUME NEW k \in 0 .. BlockLen - 1
      PROVE  /\ Sd!Offset(k) \in Int /\ Sd!Offset(k) = Sd!Offset(0) + k
             /\ k \in Sd!Relevant <=> Sd!Offset(k) \in 0 .. call.len - 1
             /\ Sd!Offset(k) \in 0 .. call.len - 1 =>
                  /\ (call.addr + Sd!Offset(k)) \div BlockLen = first + b
                  /\ (call.addr + Sd!Offset(k)) % BlockLen = k
  BY <1>1, <1>2, <1>3, Offsets
<1>6. Sd!Offset(0) \in Int /\ o \in Int /\ o \in Window
  <2>1. 0 .. call.len - 1 \subseteq Window
    BY <1>1, SdCallsAssumption DEF InWindow, Arguments
  <2> QED
    BY <1>4, <1>5, <2>1
<1> DEFINE k == o - Sd!Offset(0)
<1>7. /\ ~ Sd!Swapped => dst'[o] = dst[o]
      /\ Sd!Swapped => dst'[o] = IF k \in Sd!Relevant THEN blk[k + 1] ELSE dst[o]
  <2>1. Sd!Swapped => dst' = [p \in Window |-> IF p - Sd!Offset(0) \in Sd!Relevant
                                               THEN blk[p - Sd!Offset(0) + 1] ELSE dst[p]]
    BY <1>3 DEF Sd!Put
  <2> QED
    BY <1>6, <2>1
<1>8. CASE o < Sd!Offset(0)
  <2>1. k \notin Sd!Relevant
    <3>1. Sd!Relevant \subseteq Nat
      <4>1. Sd!FirstOffs(Sd!addr) \in Nat
        BY <1>1, <1>3, DivMod DEF Sd!FirstOffs, Sd!addr, Calls
      <4> QED
        BY <4>1 DEF Sd!Relevant
    <3>2. k \notin Nat
      BY <1>6, <1>8
    <3> HIDE DEF k
    <3> QED
      BY <3>1, <3>2, Zenon
  <2>2. dst'[o] = dst[o]
    BY <1>7, <2>1
  <2> QED
    BY <1>2, <1>8, <2>2 DEF InPlace
<1>9. CASE ~ (o < Sd!Offset(0))
  <2>1. k \in 0 .. BlockLen - 1
    BY <1>3, <1>6, <1>9
  <2>2. Sd!Offset(k) = o
    <3>1. Sd!Offset(k) = Sd!Offset(0) + k
      BY <1>5, <2>1
    <3> QED
      BY <1>6, <3>1
  <2>3. /\ k \in Sd!Relevant
        /\ (call.addr + o) \div BlockLen = first + b /\ (call.addr + o) % BlockLen = k
    BY <1>5, <2>1, <2>2
  <2>4. dst'[o] = blk[k + 1]
    <3>1. CASE Sd!Swapped
      BY <1>7, <2>3, <3>1
    <3>2. CASE ~ Sd!Swapped
      <4>1. k \in 0 .. Len(blk) - 1
        BY <1>2, <2>1
      <4>2. dst[Sd!Offset(k)] = blk[k + 1]
        BY <1>2, <3>2, <4>1
      <4> QED
        BY <1>7, <2>2, <3>2, <4>2
    <3> QED
      BY <3>1, <3>2
  <2>5. first + b \in DOMAIN Disk /\ blk = Disk[first + b]
    BY FitIsBlock
  <2> HIDE DEF k
  <2> QED
    BY <2>3, <2>4, <2>5 DEF ByteOnDisk
<1> QED
  BY <1>8, <1>9

(* The check of a block's CRC.                                             *)
LEMMA SdCheck ==
  ASSUME SdInv, Sd!CheckCrc, UNCHANGED <<clock, promised>>
  PROVE  SdInv'
<1>1. pc = "crc" /\ Sd!Xfer /\ UNCHANGED call
  BY DEF Sd!CheckCrc
<1>2. /\ call # NoCall /\ call \in Calls /\ Arguments \in SdReads
      /\ pc \notin Activating \cup {"dead"} /\ SdType /\ ActivationInv /\ LineInv
  BY <1>1, InRead DEF Reading
<1>3. /\ UNCHANGED <<stream, lba, card>>
      /\ out' \in Seq(Nat) /\ \A j \in 1 .. Len(out') - 1 : out'[j] < 256
      /\ Sd!NextSymbol \in Nat
  BY <1>1, <1>2, Transfer
<1>4. /\ timeout \in Nat /\ ret \in Nat /\ b \in Nat /\ lba \in Nat
      /\ DOMAIN dst = Window /\ blk \in Seq(Nat)
      /\ stream \in {"ready", "single", "multi"}
  BY <1>2 DEF SdType
<1>5. /\ b < num_blocks /\ Real
  BY <1>1 DEF SdInv, BlockInv, Reading
<1>6. (Multi' <=> Multi) /\ (Real' <=> Real) /\ num_blocks' = num_blocks /\ first' = first
  BY <1>1, <1>3 DEF Multi, num_blocks, Real, first
<1>7. CASE ~ Sd!CrcFits(Sd!NextSymbol, blk)
  <2>1. pc' = "idle" /\ ret' = 33 /\ UNCHANGED <<dst, b, blk, timeout>>
    BY <1>7 DEF Sd!CheckCrc, Sd!Return, Sd!ECrc
  <2>2. promised /\ Real /\ stream # "multi" => Quiet(out', 0)
    <3>1. promised /\ Real /\ stream # "multi" => Quiet(out, 0)
      BY <1>1 DEF SdInv, StreamInv, Reading
    <3> QED
      BY <1>1, <1>2, <3>1, LineMoves
  <2> QED
    BY <1>1, <1>4, <2>1, <2>2, FailedRead DEF Reading
<1>8. CASE Sd!CrcFits(Sd!NextSymbol, blk)
  <2>1. /\ dst' = IF Sd!Swapped THEN Sd!Put(Sd!Relevant, blk) ELSE dst
        /\ b' = b + 1 /\ blk' = <<>> /\ timeout' = DataTimeout /\ UNCHANGED ret
        /\ pc' = (IF b + 1 < num_blocks THEN "token" ELSE IF Multi THEN "stop" ELSE "free")
    BY <1>8 DEF Sd!CheckCrc, Sd!Go, Multi, num_blocks, Sd!Multi, Sd!addr, Sd!len
  <2>2. promised => /\ out' = <<>>
                    /\ ~ Multi \/ (stream = "multi" /\ Multi /\ lba = first + b + 1)
    BY <1>1, <1>8, FitIsBlock
  <2>3. /\ num_blocks \in Nat \ {0} /\ DataTimeout \in Nat /\ DataTimeout > 0
        /\ BlockLen \in Nat \ {0} /\ call.addr \in Nat /\ call.len \in Nat \ {0}
    <3>1. call.addr \in Nat /\ call.len \in Nat \ {0}
      BY <1>2, SdCallsAssumption DEF Calls, Arguments
    <3>2. Sd!LenBlocks(call.addr, call.len) \in Nat \ {0}
      BY <3>1, Blocks
    <3> QED
      BY <3>1, <3>2, SdFacts DEF num_blocks
  <2>4. DOMAIN dst' = Window
    BY <1>4, <2>1 DEF Sd!Put
  <2>5. b' \in Nat /\ timeout' \in Nat /\ blk' \in Seq(Nat) /\ pc' \in {"token", "stop", "free"}
    BY <1>4, <2>1, <2>3
  <2>6. SdType' /\ ActivationInv'
    BY <1>1, <1>2, <1>3, <1>4, <2>1, <2>4, <2>5, ReadKeeps DEF Reading, Finishing
  <2>7. LineInv'
    BY <1>1, <1>2, <1>3, <1>6, <2>1, <2>3 DEF LineInv
  <2>8. promised => ~ CrcLast(out') /\ Zeros(out')
    BY <2>2 DEF CrcLast, Zeros
  <2>9. pc' = "token" => Multi
    BY <1>4, <2>1, <2>3 DEF Multi
  <2>10. StreamInv'
    <3> SUFFICES ASSUME promised PROVE StreamInv'
      BY DEF StreamInv
    <3>1. pc' = "token" => stream = "multi" /\ Multi /\ lba' = first' + b'
      <4>1. first \in Nat
        BY <2>3, DivMod DEF first
      <4> QED
        BY <1>3, <1>4, <1>6, <2>1, <2>2, <2>9, <4>1
    <3>2. pc' \in Reading => pc' = "token"
      BY <2>5 DEF Reading
    <3> QED
      BY <1>3, <1>6, <2>2, <3>1, <3>2 DEF StreamInv
  <2>11. ASSUME promised, NEW o \in 0 .. call.len - 1, o < Sd!Offset(0) + BlockLen
         PROVE  /\ (call.addr + o) \div BlockLen \in DOMAIN Disk
                /\ dst'[o] = ByteOnDisk(call.addr + o)
    BY <1>1, <1>8, <2>1, <2>11, BlockInPlace
  <2>12. /\ Sd!Offset(0) \in Int /\ Sd!Offset(0)' = Sd!Offset(0) + BlockLen
         /\ b + 1 = num_blocks => call.len <= Sd!Offset(0) + BlockLen
    <3>1. 0 \in 0 .. BlockLen - 1
      BY <2>3
    <3>2. /\ Sd!Offset(0) \in Int
          /\ b + 1 = num_blocks => call.len <= Sd!Offset(0) + BlockLen
      BY <1>2, <1>4, <1>5, <3>1, Offsets
    <3>3. Sd!FirstOffs(call.addr) \in Nat
      BY <2>3, DivMod DEF Sd!FirstOffs
    <3>4. /\ Sd!Offset(0) = BlockLen * b + 0 - Sd!FirstOffs(call.addr)
          /\ Sd!Offset(0)' = BlockLen * (b + 1) + 0 - Sd!FirstOffs(call.addr)
      BY <1>1, <2>1 DEF Sd!Offset, Sd!addr
    <3> QED
      BY <1>4, <2>3, <3>2, <3>3, <3>4
  <2>13. BlockInv'
    <3>1. pc' = "token" => b' < num_blocks'
      BY <1>6, <2>1
    <3>2. promised => InPlace(Sd!Offset(0))'
      <4>1. promised => \A o \in 0 .. call.len - 1 : o < Sd!Offset(0)' =>
              /\ (call.addr + o) \div BlockLen \in DOMAIN Disk
              /\ dst'[o] = ByteOnDisk(call.addr + o)
        BY <2>11, <2>12
      <4> QED
        BY <1>1, <4>1 DEF InPlace, ByteOnDisk
    <3>3. Len(blk') = 0 /\ 0 .. Len(blk') - 1 = {}
      BY <2>1
    <3>4. pc' \in Reading => pc' = "token"
      BY <2>5 DEF Reading
    <3> QED
      BY <2>1, <3>1, <3>2, <3>3, <3>4 DEF BlockInv
  <2>14. FinishInv'
    <3> SUFFICES ASSUME pc' \in {"stop", "free"}
                 PROVE  /\ Real' /\ (promised => InPlace(call.len)')
                        /\ pc' # "free" => Multi'
                        /\ pc' = "free" /\ promised => stream' # "multi" /\ Zeros(out')
      BY <2>5 DEF FinishInv, Finishing
    <3>1. b + 1 = num_blocks
      BY <1>4, <1>5, <2>1, <2>3
    <3>2. ASSUME promised PROVE InPlace(call.len)'
      <4>1. \A o \in 0 .. call.len - 1 :
              /\ (call.addr + o) \div BlockLen \in DOMAIN Disk
              /\ dst'[o] = ByteOnDisk(call.addr + o)
        <5> TAKE o \in 0 .. call.len - 1
        <5>1. o < Sd!Offset(0) + BlockLen
          BY <2>3, <2>12, <3>1
        <5> QED
          BY <2>11, <3>2, <5>1
      <4> QED
        BY <1>1, <4>1 DEF InPlace, ByteOnDisk
    <3>3. (pc' # "free" => Multi') /\ (pc' = "free" => ~ Multi)
      BY <1>6, <2>1
    <3>4. promised /\ ~ Multi => stream # "multi"
      BY <1>2 DEF LineInv
    <3> QED
      BY <1>3, <1>5, <1>6, <2>8, <3>2, <3>3, <3>4
  <2>15. IdleInv' /\ ResponseInv'
    BY <2>5 DEF IdleInv, ResponseInv
  <2> QED
    BY <2>6, <2>7, <2>10, <2>13, <2>14, <2>15 DEF SdInv
<1> QED
  BY <1>7, <1>8
---------------------------------------------------------------------------
(* A step after the last block that leaves the buffer alone.               *)
LEMMA FinishKeeps ==
  ASSUME SdInv, pc \in Finishing, UNCHANGED <<call, dst, b, blk, card, clock, promised>>,
         pc' \in {"idle"} \cup Finishing, ret' \in Nat, timeout' \in Nat, lba' \in Nat,
         stream' \in {"ready", "single", "multi"}, out' \in Seq(Nat),
         \A j \in 1 .. Len(out') - 1 : out'[j] < 256,
         pc' \in Polling => timeout' > 0, stream' = "multi" => stream = "multi",
         IdleInv', FinishInv'
  PROVE  SdInv'
<1>1. /\ call # NoCall /\ pc \notin Activating \cup {"dead"}
      /\ SdType /\ ActivationInv /\ LineInv
  BY InRead
<1>2. b \in Nat /\ DOMAIN dst = Window /\ blk \in Seq(Nat)
  BY <1>1 DEF SdType
<1>3. SdType' /\ ActivationInv'
  BY <1>1, <1>2, ReadKeeps
<1>4. LineInv'
  BY <1>1 DEF LineInv, Multi, num_blocks
<1>5. pc' \notin Reading \cup {"resp"}
  BY DEF Reading, Finishing
<1>6. ResponseInv' /\ StreamInv' /\ BlockInv'
  BY <1>5 DEF ResponseInv, StreamInv, BlockInv
<1> QED
  BY <1>3, <1>4, <1>6 DEF SdInv

(* The stream is told to stop: a response, late, and then busy.            *)
LEMMA SdStop ==
  ASSUME SdInv, Sd!StopStream, UNCHANGED <<clock, promised>>
  PROVE  SdInv'
<1>1. /\ pc = "stop" /\ Sd!React("CMD12", 0) /\ pc' = "stop_resp" /\ UNCHANGED ret
      /\ timeout' = RespTimeout /\ UNCHANGED <<call, dst, b, blk>>
  BY DEF Sd!StopStream, Sd!Go
<1>2. /\ SdType /\ LineInv
  BY <1>1, InRead DEF Finishing
<1>3. Real /\ (promised => InPlace(call.len)) /\ Multi
  BY <1>1 DEF SdInv, FinishInv, Finishing
<1>4. UNCHANGED card
  BY <1>1 DEF Sd!React
<1>5. \E n \in 0 .. MaxNcr, busy \in 0 .. R1bTimeout :
        /\ out' = Sd!IdleBytes(n) \o <<0>> \o [j \in 1 .. busy |-> 0]
        /\ stream' = "ready" /\ UNCHANGED lba
  BY <1>1 DEF Sd!React
<1>6. PICK n \in 0 .. MaxNcr, busy \in 0 .. R1bTimeout :
        /\ out' = Sd!IdleBytes(n) \o <<0>> \o [j \in 1 .. busy |-> 0]
        /\ stream' = "ready" /\ UNCHANGED lba
  BY <1>5
<1> DEFINE h == Sd!IdleBytes(n) \o <<0>>
           z == [j \in 1 .. busy |-> 0]
<1>7. n \in Nat /\ busy \in Nat /\ RespTimeout \in Nat /\ RespTimeout > 0
  BY SdFacts
<1>8. /\ h \in Seq(Nat) /\ Len(h) = n + 1
      /\ (\A j \in 1 .. n : h[j] = 255) /\ h[n + 1] = 0
  <2>1. h = Late(n, 0)
    BY DEF Late
  <2> HIDE DEF h
  <2>2. h \in Seq(Nat) /\ Len(h) = n + 1
    BY <1>7, <2>1, LateLen
  <2>3. (\A j \in 1 .. n : h[j] = 255) /\ h[n + 1] = 0
    BY <1>7, <2>1, LateZero
  <2> QED
    BY <2>2, <2>3
<1>9. z \in Seq(Nat) /\ Len(z) = busy /\ \A j \in 1 .. Len(z) : z[j] = 0
  BY <1>7
<1>10. out' = Joined(h, z)
  BY <1>6 DEF Joined
<1> HIDE DEF h, z
<1>11. /\ out' \in Seq(Nat) /\ Len(out') = Len(h) + Len(z)
       /\ \A j \in 1 .. Len(h) : out'[j] = h[j]
       /\ \A j \in 1 .. Len(z) : out'[Len(h) + j] = z[j]
  <2>1. h \in Seq(Nat) /\ z \in Seq(Nat)
    BY <1>8, <1>9
  <2>2. out' \in Seq(Nat) /\ Len(out') = Len(h) + Len(z)
    BY <1>10, <2>1, JoinedLen
  <2>3. /\ \A j \in 1 .. Len(h) : out'[j] = h[j]
        /\ \A j \in 1 .. Len(z) : out'[Len(h) + j] = z[j]
    BY <1>10, <2>1, JoinedElements, SMTT(30)
  <2> QED
    BY <2>2, <2>3
<1>12. Len(out') = n + 1 + busy /\ Len(h) = n + 1
  BY <1>7, <1>8, <1>9, <1>11
<1>13. ASSUME NEW j \in 1 .. n PROVE out'[j] = 255
  <2>1. j \in 1 .. Len(h)
    BY <1>7, <1>12
  <2> QED
    BY <1>8, <1>11, <2>1
<1>14. ASSUME NEW j \in n + 1 .. Len(out') PROVE out'[j] = 0
  <2>1. CASE j = n + 1
    <3>1. n + 1 \in 1 .. Len(h)
      BY <1>7, <1>12
    <3> QED
      BY <1>8, <1>11, <2>1, <3>1
  <2>2. CASE j # n + 1
    <3>1. j - (n + 1) \in 1 .. Len(z) /\ Len(h) + (j - (n + 1)) = j
      BY <1>7, <1>9, <1>12, <2>2
    <3> QED
      BY <1>9, <1>11, <3>1
  <2> QED
    BY <2>1, <2>2
<1>15. \A j \in 1 .. Len(out') - 1 : out'[j] < 256
  <2> TAKE j \in 1 .. Len(out') - 1
  <2>1. j \in 1 .. n \/ j \in n + 1 .. Len(out')
    BY <1>7, <1>12
  <2> QED
    BY <1>13, <1>14, <2>1
<1>16. FinishInv'
  <2>1. n \in 0 .. Len(out')
    BY <1>7, <1>12
  <2>2. \E m \in 0 .. Len(out') : /\ \A j \in 1 .. m : out'[j] = Sd!Idle
                                  /\ \A j \in m + 1 .. Len(out') : out'[j] = 0
    BY <1>13, <1>14, <2>1 DEF Sd!Idle
  <2>3. Real' /\ Multi' /\ (promised => InPlace(call.len)')
    BY <1>1, <1>3, <1>4 DEF Real, Multi, num_blocks, InPlace, ByteOnDisk
  <2> QED
    BY <1>1, <1>6, <2>2, <2>3 DEF FinishInv
<1>17. IdleInv'
  BY <1>1 DEF IdleInv
<1>18. ret' \in Nat /\ lba' \in Nat
  BY <1>1, <1>2, <1>6 DEF SdType
<1> QED
  BY <1>1, <1>4, <1>6, <1>7, <1>11, <1>15, <1>16, <1>17, <1>18, FinishKeeps
     DEF Finishing

(* Polling for its response.                                               *)
LEMMA SdStopResponse ==
  ASSUME SdInv, Sd!PollStopResponse, UNCHANGED <<clock, promised>>
  PROVE  SdInv'
<1>1. pc = "stop_resp" /\ Sd!Xfer /\ UNCHANGED <<call, dst, b, blk>>
  BY DEF Sd!PollStopResponse, Sd!PollResponse
<1>2. PICK resp \in Sd!LooksLikeResponse(Sd!NextSymbol) :
        CASE timeout = 1 -> Sd!Return(Sd!ENoResp) /\ timeout' = 0
          [] timeout > 1 /\ resp -> Sd!Go("busy") /\ timeout' = R1bTimeout
          [] OTHER -> timeout' = timeout - 1 /\ UNCHANGED <<pc, ret>>
  BY DEF Sd!PollStopResponse, Sd!PollResponse
<1>3. SdType /\ LineInv
  BY <1>1, InRead DEF Finishing
<1>4. /\ UNCHANGED <<stream, lba, card>>
      /\ out' \in Seq(Nat) /\ \A j \in 1 .. Len(out') - 1 : out'[j] < 256
      /\ Sd!NextSymbol \in Nat
      /\ \/ out = <<>> /\ out' = <<>> /\ (Real => Sd!NextSymbol = 255)
         \/ /\ out # <<>> /\ Len(out') = Len(out) - 1 /\ Len(out) >= 1
            /\ \A j \in 1 .. Len(out') : out'[j] = out[j + 1]
            /\ Real => Sd!NextSymbol = out[1]
  BY <1>1, <1>3, Transfer
<1>5. /\ timeout \in Nat /\ timeout > 0 /\ ret \in Nat /\ lba \in Nat /\ out \in Seq(Nat)
      /\ stream \in {"ready", "single", "multi"}
  BY <1>1, <1>3 DEF SdType, LineInv, Polling
<1>6. /\ Real /\ (promised => InPlace(call.len)) /\ Multi /\ stream = "ready"
      /\ \E n \in 0 .. Len(out) : /\ \A j \in 1 .. n : out[j] = 255
                                  /\ \A j \in n + 1 .. Len(out) : out[j] = 0
  BY <1>1 DEF SdInv, FinishInv, Finishing, Sd!Idle
<1>7. PICK n \in 0 .. Len(out) : /\ \A j \in 1 .. n : out[j] = 255
                                 /\ \A j \in n + 1 .. Len(out) : out[j] = 0
  BY <1>6
<1>8. Real' /\ Multi' /\ (promised => InPlace(call.len)')
  BY <1>1, <1>4, <1>6 DEF Real, Multi, num_blocks, InPlace, ByteOnDisk
<1>9. R1bTimeout \in Nat /\ R1bTimeout > 0 /\ Len(out) \in Nat
  BY <1>5, SdFacts
<1>10. CASE timeout = 1
  <2>1. pc' = "idle" /\ ret' = 18 /\ timeout' = 0
    BY <1>2, <1>10 DEF Sd!Return, Sd!ENoResp
  <2> QED
    BY <1>1, <1>6, <2>1, FailedRead DEF Finishing
<1>11. CASE timeout > 1 /\ resp
  <2>1. pc' = "busy" /\ timeout' = R1bTimeout /\ UNCHANGED ret
    BY <1>2, <1>5, <1>11 DEF Sd!Go
  <2>2. Sd!NextSymbol < 256 => Sd!NextSymbol < 128
    <3> SUFFICES ASSUME Sd!NextSymbol < 256 PROVE Sd!NextSymbol < 128
      OBVIOUS
    <3>1. resp <=> Sd!NextSymbol < 128
      BY <1>4, ResponseIs
    <3>2. resp
      BY <1>11
    <3> QED
      BY <3>1, <3>2, Zenon
  <2>3. Zeros(out')
    <3>1. CASE out = <<>> /\ out' = <<>>
      BY <3>1 DEF Zeros
    <3>2. CASE /\ out # <<>> /\ Len(out') = Len(out) - 1 /\ Len(out) >= 1
               /\ \A j \in 1 .. Len(out') : out'[j] = out[j + 1]
               /\ Sd!NextSymbol = out[1]
      <4>1. n = 0
        <5> SUFFICES ASSUME n # 0 PROVE FALSE
          OBVIOUS
        <5>1. 1 \in 1 .. n
          BY <1>9
        <5>2. Sd!NextSymbol = 255
          BY <1>7, <3>2, <5>1
        <5> QED
          BY <2>2, <5>2
      <4>2. ASSUME NEW j \in 1 .. Len(out') PROVE out'[j] = 0
        <5>1. j + 1 \in n + 1 .. Len(out)
          BY <1>9, <3>2, <4>1
        <5> QED
          BY <1>7, <3>2, <5>1
      <4> QED
        BY <4>2 DEF Zeros
    <3> QED
      BY <1>4, <1>6, <3>1, <3>2
  <2>4. FinishInv' /\ IdleInv'
    BY <1>4, <1>6, <1>8, <2>1, <2>3 DEF FinishInv, IdleInv
  <2> QED
    BY <1>1, <1>4, <1>5, <1>9, <2>1, <2>4, FinishKeeps DEF Finishing
<1>12. CASE timeout > 1 /\ ~ resp
  <2>1. pc' = "stop_resp" /\ timeout' = timeout - 1 /\ UNCHANGED ret
    BY <1>1, <1>2, <1>5, <1>12
  <2>2. timeout' \in Nat /\ timeout' > 0
    BY <1>5, <1>12, <2>1
  <2> DEFINE m == IF n > 0 THEN n - 1 ELSE 0
  <2>3. /\ m \in 0 .. Len(out') /\ \A j \in 1 .. m : out'[j] = 255
        /\ \A j \in m + 1 .. Len(out') : out'[j] = 0
    <3>1. CASE out = <<>> /\ out' = <<>>
      <4>1. Len(out) = 0 /\ Len(out') = 0
        BY <3>1
      <4>2. n = 0
        BY <4>1
      <4>3. m = 0
        BY <4>2
      <4> HIDE DEF m
      <4> QED
        BY <4>1, <4>3
    <3>2. CASE /\ out # <<>> /\ Len(out') = Len(out) - 1 /\ Len(out) >= 1
               /\ \A j \in 1 .. Len(out') : out'[j] = out[j + 1]
      <4>1. n \in Nat /\ m \in 0 .. Len(out') /\ m + 1 >= n
        BY <1>9, <3>2
      <4>2. ASSUME NEW j \in 1 .. m PROVE out'[j] = 255
        <5>1. j \in 1 .. Len(out') /\ j + 1 \in 1 .. n
          BY <1>9, <3>2, <4>1
        <5> QED
          BY <1>7, <3>2, <5>1
      <4>3. ASSUME NEW j \in m + 1 .. Len(out') PROVE out'[j] = 0
        <5>1. j \in 1 .. Len(out') /\ j + 1 \in n + 1 .. Len(out)
          BY <1>9, <3>2, <4>1
        <5> QED
          BY <1>7, <3>2, <5>1
      <4> QED
        BY <4>1, <4>2, <4>3
    <3> QED
      BY <1>4, <3>1, <3>2
  <2> HIDE DEF m
  <2>4. FinishInv'
    <3>1. \E k \in 0 .. Len(out') : /\ \A j \in 1 .. k : out'[j] = Sd!Idle
                                    /\ \A j \in k + 1 .. Len(out') : out'[j] = 0
      BY <2>3 DEF Sd!Idle
    <3> QED
      BY <1>4, <1>6, <1>8, <2>1, <3>1 DEF FinishInv
  <2>5. IdleInv'
    BY <2>1 DEF IdleInv
  <2> QED
    BY <1>1, <1>4, <1>5, <2>1, <2>2, <2>4, <2>5, FinishKeeps DEF Finishing
<1> QED
  BY <1>5, <1>10, <1>11, <1>12

(* Polling for the end of busy.                                            *)
LEMMA SdBusy ==
  ASSUME SdInv, Sd!PollBusy, UNCHANGED <<clock, promised>>
  PROVE  SdInv'
<1>1. /\ pc = "busy" /\ Sd!Xfer /\ timeout' = timeout - 1 /\ UNCHANGED <<call, dst, b, blk>>
      /\ IF timeout = 1 THEN pc' = "idle" /\ ret' = 19
         ELSE pc' \in {"busy", "free"} /\ UNCHANGED ret
  BY DEF Sd!PollBusy, Sd!Return, Sd!Go, Sd!EBusy
<1>2. SdType /\ LineInv
  BY <1>1, InRead DEF Finishing
<1>3. /\ UNCHANGED <<stream, lba, card>> /\ out' \in Seq(Nat)
      /\ \A j \in 1 .. Len(out') - 1 : out'[j] < 256
  BY <1>1, <1>2, Transfer
<1>4. /\ timeout \in Nat /\ timeout > 0 /\ ret \in Nat /\ lba \in Nat
      /\ stream \in {"ready", "single", "multi"}
  BY <1>1, <1>2 DEF SdType, LineInv, Polling
<1>5. Real /\ (promised => InPlace(call.len)) /\ Multi /\ stream # "multi" /\ Zeros(out)
  BY <1>1 DEF SdInv, FinishInv, Finishing
<1>6. Zeros(out')
  BY <1>1, <1>2, <1>5, LineMoves
<1>7. Real' /\ Multi' /\ (promised => InPlace(call.len)')
  BY <1>1, <1>3, <1>5 DEF Real, Multi, num_blocks, InPlace, ByteOnDisk
<1>8. timeout' \in Nat /\ (timeout # 1 => timeout' > 0)
  BY <1>1, <1>4
<1>9. CASE timeout = 1
  <2>1. Quiet(out', 0)
    BY <1>3, <1>6, ZerosAreQuiet
  <2> QED
    BY <1>1, <1>8, <1>9, <2>1, FailedRead DEF Finishing
<1>10. CASE timeout # 1
  <2>1. FinishInv' /\ IdleInv'
    BY <1>1, <1>3, <1>5, <1>6, <1>7, <1>10 DEF FinishInv, IdleInv
  <2> QED
    BY <1>1, <1>3, <1>4, <1>8, <1>10, <2>1, FinishKeeps DEF Finishing
<1> QED
  BY <1>9, <1>10

(* The card is released.                                                   *)
LEMMA SdFree ==
  ASSUME SdInv, Sd!CsFree, UNCHANGED <<clock, promised>>
  PROVE  SdInv'
<1>1. /\ pc = "free" /\ pc' = "idle" /\ ret' = 0 /\ cs' = FALSE
      /\ UNCHANGED <<call, dst, b, blk, timeout, out, stream, lba, card>>
  BY DEF Sd!CsFree, Sd!Return, Sd!Ok, Sd!cardVars
<1>2. /\ SdType /\ LineInv
  BY <1>1, InRead DEF Finishing
<1>3. promised => stream # "multi" /\ Zeros(out)
  BY <1>1 DEF SdInv, FinishInv, Finishing
<1>4. IdleInv' /\ FinishInv'
  BY <1>1, <1>3 DEF IdleInv, FinishInv, Finishing, Zeros
<1>5. /\ out' \in Seq(Nat) /\ ret' \in Nat /\ timeout' \in Nat /\ lba' \in Nat
      /\ stream' \in {"ready", "single", "multi"}
      /\ \A j \in 1 .. Len(out') - 1 : out'[j] < 256
  BY <1>1, <1>2 DEF SdType, LineInv
<1>6. pc' \notin Polling
  BY <1>1 DEF Polling
<1> QED
  BY <1>1, <1>4, <1>5, <1>6, FinishKeeps DEF Finishing

(* A card in a stream sends the next block, or an error token.             *)
LEMMA SdStreams ==
  ASSUME SdInv, Sd!CardStreams, UNCHANGED <<clock, promised>>
  PROVE  SdInv'
<1>1. /\ stream = "multi" /\ out = <<>>
      /\ UNCHANGED <<call, dst, ret, pc, b, blk, timeout, cs, card>>
      /\ \/ /\ lba \in DOMAIN Disk /\ out' \in Sd!Answers(lba) /\ lba' = lba + 1
            /\ stream' = IF out' = <<Sd!ErrToken>> THEN "single" ELSE "multi"
         \/ out' = <<Sd!ErrToken>> /\ stream' = "single" /\ UNCHANGED lba
  BY DEF Sd!CardStreams, Sd!drvVars, Sd!Lbas
<1>2. SdType /\ ActivationInv /\ LineInv /\ IdleInv /\ ResponseInv /\ StreamInv /\ BlockInv
      /\ FinishInv
  BY DEF SdInv
<1>3. call # NoCall /\ (promised => Multi)
  BY <1>1, <1>2 DEF ActivationInv, LineInv, IdleInv
<1>4. pc \notin Activating \cup {"dead"} /\ (pc = "idle" /\ promised => ret # 0)
  BY <1>1, <1>2 DEF ActivationInv, IdleInv
<1>5. pc = "resp" /\ promised => ~ Real
  BY <1>1, <1>2 DEF ResponseInv
<1>6. pc \notin {"stop_resp", "busy"} /\ (pc = "free" => ~ promised)
  BY <1>1, <1>2 DEF FinishInv, Finishing
<1>7. /\ (Multi' <=> Multi) /\ (Real' <=> Real) /\ first' = first /\ (Spoilt' <=> Spoilt)
      /\ (Sd!Swapped' <=> Sd!Swapped) /\ num_blocks' = num_blocks
  BY <1>1, <1>3 DEF Multi, num_blocks, Real, first, Spoilt, Sd!Swapped, Sd!first_block,
                    Sd!last_block, Sd!addr, Sd!len
<1>8. {lba, ret, b, timeout} \subseteq Nat /\ lba \in Nat
  BY <1>2 DEF SdType
<1>9. /\ out' \in Seq(Nat) /\ \A j \in 1 .. Len(out') - 1 : out'[j] < 256
      /\ stream' \in {"single", "multi"} /\ lba' \in Nat
      /\ stream' = "single" => ~ CrcLast(out')
      /\ stream' = "multi" => out' # <<>> /\ out'[Len(out')] = Sd!Crc(lba) /\ lba' = lba + 1
  <2>1. CASE /\ lba \in DOMAIN Disk /\ out' \in Sd!Answers(lba) /\ lba' = lba + 1
             /\ stream' = IF out' = <<Sd!ErrToken>> THEN "single" ELSE "multi"
    <3>1. /\ out' \in Seq(Nat) /\ Len(out') >= 1 /\ \A j \in 1 .. Len(out') - 1 : out'[j] < 256
          /\ \/ out'[Len(out')] = 8 /\ out' = <<Sd!ErrToken>>
             \/ out'[Len(out')] = Sd!Crc(lba)
      BY <2>1, AnswerFacts
    <3>2. out' = <<Sd!ErrToken>> => out'[Len(out')] = 8
      BY DEF Sd!ErrToken
    <3>3. out' # <<>>
      BY <3>1
    <3> QED
      BY <1>8, <2>1, <3>1, <3>2, <3>3 DEF CrcLast
  <2>2. CASE out' = <<Sd!ErrToken>> /\ stream' = "single" /\ UNCHANGED lba
    <3>1. out' = <<8>>
      BY <2>2 DEF Sd!ErrToken
    <3>2. out' \in Seq(Nat) /\ Len(out') = 1 /\ out'[Len(out')] = 8
      BY <3>1
    <3> QED
      BY <1>8, <2>2, <3>2 DEF CrcLast
  <2> QED
    BY <1>1, <2>1, <2>2
<1>10. SdType' /\ ActivationInv'
  <2>1. DOMAIN dst = Window /\ blk \in Seq(Nat) /\ ret \in Nat /\ b \in Nat /\ timeout \in Nat
    BY <1>2, <1>8 DEF SdType
  <2>2. pc \in {"idle", "resp"} \cup Reading \cup Finishing
    BY <1>2, <1>4 DEF SdType
  <2> QED
    BY <1>1, <1>2, <1>3, <1>4, <1>9, <2>1, <2>2, ReadKeeps
<1>11. LineInv'
  BY <1>1, <1>2, <1>7, <1>9 DEF LineInv
<1>12. IdleInv' /\ ResponseInv'
  <2>1. stream' # "multi" => Quiet(out', 0)
    BY <1>9 DEF Quiet
  <2>2. IdleInv'
    BY <1>1, <1>4, <2>1 DEF IdleInv
  <2>3. ResponseInv'
    BY <1>1, <1>2, <1>5, <1>7 DEF ResponseInv
  <2> QED
    BY <2>2, <2>3
<1>13. StreamInv'
  <2> SUFFICES ASSUME pc \in Reading, promised, Real
               PROVE  /\ stream' # "multi" => Quiet(out', 0)
                      /\ \/ Spoilt'
                         \/ stream' # "multi" /\ Starved'
                         \/ /\ stream' = "multi" /\ Multi' /\ CrcLast(out') /\ Current'
                            /\ lba' = first' + b' + 1
    BY <1>1, <1>7 DEF StreamInv
  <2>0. stream' # "multi" => Quiet(out', 0)
    BY <1>9 DEF Quiet
  <2>1. Spoilt \/ lba = first + b
    BY <1>1, <1>2 DEF StreamInv, CrcLast
  <2>2. CASE stream' = "single"
    BY <1>9, <2>0, <2>2 DEF Starved
  <2>3. CASE stream' = "multi" /\ lba = first + b
    <3>1. out' # <<>> /\ out'[Len(out')] = Sd!Crc(first + b) /\ lba' = first' + b' + 1
      BY <1>1, <1>7, <1>9, <2>3
    <3>2. Sd!Crc(first + b) > 255
      BY <1>8, <2>3 DEF Sd!Crc
    <3>3. CrcLast(out') /\ Current'
      BY <1>1, <1>7, <3>1, <3>2 DEF CrcLast, Current
    <3> QED
      BY <1>3, <1>7, <2>3, <3>1, <3>3
  <2> QED
    BY <1>7, <1>9, <2>0, <2>1, <2>2, <2>3
<1>14. BlockInv' /\ FinishInv'
  <2>1. \A n : InPlace(n)' <=> InPlace(n)
    BY <1>1 DEF InPlace, ByteOnDisk
  <2>2. \A k : Sd!Offset(k)' = Sd!Offset(k)
    BY <1>1 DEF Sd!Offset, Sd!addr
  <2>3. BlockInv'
    BY <1>1, <1>2, <1>7, <2>1, <2>2 DEF BlockInv
  <2>4. FinishInv'
    BY <1>1, <1>2, <1>6, <1>7, <2>1 DEF FinishInv
  <2> QED
    BY <2>3, <2>4
<1> QED
  BY <1>10, <1>11, <1>12, <1>13, <1>14 DEF SdInv

(* Every step of a read, its caller and the card keeps the invariant.      *)
LEMMA SdStep ==
  ASSUME SdInv, SdSteps
  PROVE  SdInv'
<1>1. /\ SdCall \/ Sd!Driver \/ Sd!CardStreams
      /\ UNCHANGED clock
      /\ promised' = IF Called THEN LineSettled ELSE promised
  BY DEF SdSteps, OnSd
<1>2. CASE SdCall
  <2>1. Called
    BY <1>2 DEF SdCall, Sd!Read, Called
  <2> QED
    BY <1>1, <1>2, <2>1, SdRead
<1>3. CASE Sd!Driver
  <2>1. pc # "idle"
    BY <1>3 DEF Sd!Driver, Sd!PollReadResponse, Sd!PollResponse, Sd!PollToken, Sd!ReadData,
                Sd!CheckCrc, Sd!StopStream, Sd!PollStopResponse, Sd!PollBusy, Sd!CsFree
  <2>2. UNCHANGED promised
    BY <1>1, <2>1 DEF Called
  <2> QED
    BY <1>1, <1>3, <2>2, SdResponse, SdToken, SdData, SdCheck, SdStop, SdStopResponse, SdBusy,
       SdFree DEF Sd!Driver
<1>4. CASE Sd!CardStreams
  <2>1. UNCHANGED promised
    BY <1>1, <1>4 DEF Called, Sd!CardStreams, Sd!drvVars
  <2> QED
    BY <1>1, <1>4, <2>1, SdStreams
<1> QED
  BY <1>1, <1>2, <1>3, <1>4
---------------------------------------------------------------------------
(* The media together.                                                     *)

(* No medium has been used when the ROM starts.                            *)
LEMMA MediaInit == Init => MediaInv
<1> SUFFICES ASSUME Init PROVE MediaInv
  OBVIOUS
<1>1. medium \in {"i2c", "nor", "sd"} /\ pc # "fill"
  BY DEF Init
<1>2. fmt = <<>> /\ rx = <<>> /\ ~ lost /\ promised = TRUE /\ (medium = "i2c" => pc = "idle")
  BY DEF Init, Ee!Init, Nor!Init
<1> QED
  BY <1>1, <1>2, EepromInit, NorInit, SdInit DEF MediaInv

(* While the EEPROM is read, the contract covers the read if it stays in   *)
(* the lower block.                                                        *)
LEMMA EepromPromised ==
  ASSUME EepromInv, I2cSteps, pc # "idle" /\ call.op = "read" => (promised <=> Lower)
  PROVE  pc' # "idle" /\ call'.op = "read" => (promised' <=> Lower')
<1> SUFFICES ASSUME pc' # "idle", call'.op = "read" PROVE promised' <=> Lower'
  OBVIOUS
<1>1. /\ I2cCall \/ Ee!Driver \/ Ee!Bus
      /\ promised' = IF Called THEN InLowerBlock(call'.addr, Ee!Served(call'.addr, call'.len))
                     ELSE promised
  BY DEF I2cSteps, OnI2c
<1>2. CASE pc = "idle"
  <2>1. promised' = InLowerBlock(call'.addr, Ee!Served(call'.addr, call'.len))
    BY <1>1, <1>2 DEF Called
  <2> QED
    BY <2>1 DEF Lower, served
<1>3. CASE pc # "idle"
  <2>1. call # NoCall
    BY <1>3, NoCallAssumption DEF EepromInv, EepromType, Calls
  <2>2. UNCHANGED call
    BY <1>1, <2>1 DEF I2cCall, Ee!Access, Ee!Driver, Ee!NextChunk, Ee!Return, Ee!Vacated,
                      Ee!FillWrite, Ee!FillRead, Ee!Receive, Ee!Bus
  <2>3. UNCHANGED promised
    BY <1>1, <1>3 DEF Called
  <2> QED
    BY <1>3, <2>2, <2>3 DEF Lower, served
<1> QED
  BY <1>2, <1>3

(* A step of one medium leaves the others as they are.                     *)
LEMMA MediaStep ==
  ASSUME MediaInv, Next
  PROVE  MediaInv'
<1>1. CASE I2cSteps
  <2>1. medium = "i2c" /\ medium' = "i2c" /\ UNCHANGED lost
    BY <1>1 DEF I2cSteps, OnI2c, norVars
  <2>2. EepromInv'
    BY <1>1, <2>1, EepromStep DEF MediaInv
  <2>3. pc' # "idle" /\ call'.op = "read" => (promised' <=> Lower')
    BY <1>1, <2>1, EepromPromised DEF MediaInv
  <2> QED
    BY <2>1, <2>2, <2>3 DEF MediaInv
<1>2. CASE NorSteps
  <2>1. medium = "nor" /\ medium' = "nor" /\ UNCHANGED <<fmt, rx, promised>>
    BY <1>2 DEF NorSteps, OnNor, i2cVars
  <2>2. NorInv'
    BY <1>2, <2>1, NorStep DEF MediaInv
  <2>3. pc' # "fill"
    BY <2>2 DEF NorInv, NorType
  <2> QED
    BY <2>1, <2>2, <2>3 DEF MediaInv
<1>3. CASE Activation \/ SdSteps
  <2>1. medium = "sd" /\ medium' = "sd" /\ UNCHANGED <<fmt, rx, lost>>
    BY <1>3 DEF Activation, SdSteps, OnSd, i2cVars, norVars
  <2>2. SdInv'
    BY <1>3, <2>1, SdActivation, SdStep DEF MediaInv
  <2>3. pc' # "fill"
    BY <2>2 DEF SdInv, SdType, Activating, Starting, Reading, Finishing
  <2> QED
    BY <2>1, <2>2, <2>3 DEF MediaInv
<1> QED
  BY <1>1, <1>2, <1>3 DEF Next

(* Nothing changes when nobody takes a step.                               *)
LEMMA MediaRests ==
  ASSUME MediaInv, UNCHANGED vars
  PROVE  MediaInv'
<1>1. /\ UNCHANGED <<medium, call, dst, ret, pc, offs, promised, chunk, fmt, rx, on, dev>>
      /\ UNCHANGED <<step, disk, latch, wip, err, lost>>
      /\ UNCHANGED <<b, blk, timeout, reads, out, stream, lba, cs, clock, card>>
  BY DEF vars, i2cVars, norVars, sdVars, cardVars
<1>2. EepromInv => EepromInv'
  <2>1. EepromType => EepromType'
    BY <1>1 DEF EepromType
  <2>2. Receiving' <=> Receiving
    BY <1>1 DEF Receiving, Left, Sent, Message, High, Low, Lower, served
  <2>3. EepromFifos => EepromFifos'
    BY <1>1, <2>2 DEF EepromFifos
  <2>4. EepromRead => EepromRead'
    BY <1>1 DEF EepromRead, Received, Arguments, served, Lower
  <2> QED
    BY <2>1, <2>3, <2>4 DEF EepromInv
<1>3. NorInv => NorInv'
  <2>1. NorType => NorType'
    BY <1>1 DEF NorType, Arguments
  <2>2. NorQuiet /\ NorPages /\ NorRead => NorQuiet' /\ NorPages' /\ NorRead'
    BY <1>1 DEF NorQuiet, NorPages, NorRead, InPage, SectorOf
  <2> QED
    BY <2>1, <2>2 DEF NorInv
<1>4. SdInv => SdInv'
  <2>1. /\ (Multi' <=> Multi) /\ (Real' <=> Real) /\ first' = first /\ num_blocks' = num_blocks
        /\ (Spoilt' <=> Spoilt) /\ (Current' <=> Current) /\ (Starved' <=> Starved)
        /\ (Sd!Swapped' <=> Sd!Swapped) /\ (CrcLast(out)' <=> CrcLast(out))
        /\ (Zeros(out)' <=> Zeros(out))
    BY <1>1 DEF Multi, num_blocks, Real, first, Spoilt, Sd!Swapped, Sd!first_block,
                Sd!last_block, Sd!addr, Sd!len, Current, Starved, CrcLast, Zeros
  <2>2. \A n : (InPlace(n)' <=> InPlace(n)) /\ (Quiet(out, n)' <=> Quiet(out, n))
               /\ Sd!Offset(n)' = Sd!Offset(n)
    BY <1>1 DEF InPlace, ByteOnDisk, Quiet, CrcLast, Sd!Offset, Sd!addr
  <2>3. SdType => SdType'
    BY <1>1 DEF SdType, Arguments
  <2>4. ActivationInv /\ LineInv /\ IdleInv => ActivationInv' /\ LineInv' /\ IdleInv'
    BY <1>1, <2>1, <2>2 DEF ActivationInv, LineInv, IdleInv
  <2>5. ResponseInv => ResponseInv'
    BY <1>1, <2>1, <2>2 DEF ResponseInv
  <2>6. StreamInv => StreamInv'
    BY <1>1, <2>1, <2>2 DEF StreamInv
  <2>7. BlockInv /\ FinishInv => BlockInv' /\ FinishInv'
    BY <1>1, <2>1, <2>2 DEF BlockInv, FinishInv
  <2> QED
    BY <2>3, <2>4, <2>5, <2>6, <2>7 DEF SdInv
<1>5. Lower' <=> Lower
  BY <1>1 DEF Lower, served
<1> QED
  BY <1>1, <1>2, <1>3, <1>4, <1>5 DEF MediaInv

(* Each driver keeps its own state and that of its medium in order, and    *)
(* never touches another's.                                                *)
THEOREM MediaState == Spec => []MediaInv
<1>1. MediaInv /\ [Next]_vars => MediaInv'
  BY MediaStep, MediaRests
<1> QED
  BY MediaInit, <1>1, PTL DEF Spec

(* The message of a chunk fits the FIFO of the I2C host, and the host is   *)
(* off while the driver queues it (dif_i2c_write_byte neither blocks nor   *)
(* checks).                                                                *)
THEOREM FifoHoldsAlways == Spec => []FifoHolds
<1>1. MediaInv => FifoHolds
  <2> SUFFICES ASSUME MediaInv PROVE FifoHolds
    OBVIOUS
  <2>1. Depth \in Nat /\ Len(<<>>) = 0
    BY EepromFacts
  <2>2. CASE medium = "i2c"
    <3>1. EepromInv
      BY <2>2 DEF MediaInv
    <3>2. Len(rx) <= Depth
      <4>1. CASE pc = "receive"
        BY <2>1, <3>1, <4>1 DEF EepromInv, EepromType, EepromFifos, Receiving, Sent
      <4>2. CASE pc # "receive"
        BY <2>1, <3>1, <4>2 DEF EepromInv, EepromFifos
      <4> QED
        BY <4>1, <4>2
    <3> QED
      BY <3>1, <3>2 DEF EepromInv, EepromFifos, FifoHolds
  <2>3. CASE medium # "i2c"
    BY <2>1, <2>3 DEF MediaInv, FifoHolds
  <2> QED
    BY <2>2, <2>3
<1> QED
  BY <1>1, MediaState, PTL

(* Whatever is read or flashed, and however an operation fails, the flash  *)
(* is given no erase, program or read while it is busy.                    *)
THEOREM NothingIsLost == Spec => []NothingLost
<1>1. MediaInv => NothingLost
  BY DEF MediaInv, NorInv, NorQuiet, NothingLost
<1> QED
  BY <1>1, MediaState, PTL

(* Of any cards found, only one that accepted the voltage, got ready and   *)
(* is clocked at full speed is read.                                       *)
THEOREM ActiveCardIsRead == Spec => []ReadsActiveCard
<1>1. MediaInv => ReadsActiveCard
  BY DEF MediaInv, SdInv, ActivationInv, ReadsActiveCard, Real, Activating, Starting
<1> QED
  BY <1>1, MediaState, PTL

(* After a read that succeeded, the card is released and streams nothing;  *)
(* but a read made while the card still answers an earlier one, too late   *)
(* or in a stream that was not ended, is not covered.                      *)
THEOREM SuccessIsClean == Spec => []CleanAfterSuccess
<1>1. MediaInv => CleanAfterSuccess
  <2> SUFFICES ASSUME MediaInv, medium = "sd", pc = "idle", ret = 0, promised
               PROVE  ~ cs /\ stream # "multi" /\ \A k \in DOMAIN out : out[k] = 0
    BY DEF CleanAfterSuccess
  <2>1. ~ cs /\ stream # "multi" /\ Zeros(out) /\ out \in Seq(Nat)
    BY DEF MediaInv, SdInv, SdType, IdleInv
  <2> QED
    BY <2>1 DEF Zeros
<1> QED
  BY <1>1, MediaState, PTL

(* A flashing of pages changes nothing outside of the pages asked for,     *)
(* whichever of its operations fails.                                      *)
THEOREM OnlyThesePages == Spec => OnlyRequestedPages
<1>1. ASSUME MediaInv, [Next]_vars
      PROVE  \A a \in DOMAIN disk : disk'[a] # disk[a] =>
               call.op = "flash" /\ a \div (2 * Sector) \in call.addr .. call.addr + call.len - 1
  <2>1. CASE UNCHANGED disk
    BY <2>1
  <2>2. CASE medium = "nor" /\ Nor!Complete
    <3>1. NorInv
      BY <1>1, <2>2 DEF MediaInv
    <3>2. pc = "wip" /\ wip # -1
      BY <2>2, <3>1, NorComplete
    <3>3. /\ call \in Calls /\ call.op = "flash" /\ DOMAIN disk = Nor!Addresses
          /\ InPage(step.page) /\ wip \in SectorOf(step.page) /\ step.page \in Nat
      BY <3>1, <3>2 DEF NorInv, NorType, NorPages
    <3>4. ASSUME NEW a \in DOMAIN disk, disk'[a] # disk[a]
          PROVE  a \div (2 * Sector) \in call.addr .. call.addr + call.len - 1
      <4>1. a \in Nat /\ a \in Nor!Addresses
        BY <3>3 DEF Nor!Addresses
      <4>2. a \div Sector = wip \div Sector
        BY <2>2, <3>4, <4>1 DEF Nor!Complete
      <4>3. a \div (2 * Sector) = step.page
        BY <3>3, <4>1, <4>2, SectorInPage
      <4> QED
        BY <3>3, <4>3 DEF InPage, Calls
    <3> QED
      BY <3>3, <3>4
  <2>3. UNCHANGED disk \/ (medium = "nor" /\ Nor!Complete)
    <3>1. CASE Next
      <4>1. ASSUME I2cSteps \/ Activation \/ SdSteps PROVE UNCHANGED disk
        BY <4>1 DEF I2cSteps, Activation, SdSteps, OnI2c, OnSd, norVars
      <4>2. ASSUME NorSteps PROVE UNCHANGED disk \/ (medium = "nor" /\ Nor!Complete)
        BY <4>2 DEF NorSteps, OnNor, NorCall, Nor!Read, Nor!Flash, Nor!Driver, Nor!ReadChunk,
                    Nor!ReadReturn, Nor!WriteEnable, Nor!Erase, Nor!Program, Nor!FlashReturn,
                    Nor!PollWip, Nor!norVars
      <4> QED
        BY <3>1, <4>1, <4>2 DEF Next
    <3>2. CASE UNCHANGED vars
      BY <3>2 DEF vars, norVars
    <3> QED
      BY <1>1, <3>1, <3>2
  <2> QED
    BY <2>1, <2>2, <2>3
<1>2. MediaInv /\ [Next]_vars =>
        [\A a \in DOMAIN disk : disk'[a] # disk[a] =>
           call.op = "flash" /\ a \div (2 * Sector) \in call.addr .. call.addr + call.len - 1]_vars
  BY <1>1
<1> QED
  BY <1>2, MediaState, PTL DEF Spec, OnlyRequestedPages
---------------------------------------------------------------------------
(* The promise of gpt_read_t.                                              *)
reading == IF InCall /\ call.op = "read" THEN Buffer ELSE NoCall
Promised == [Contract!Call \/ Contract!Store \/ Contract!Return \/ Contract!Between]_(Contract!vars)

(* The buffer of the read under way.                                       *)
LEMMA BufferIs ==
  ASSUME call \in Calls
  PROVE  /\ Buffer # NoCall /\ Buffer.addr = call.addr
         /\ Buffer.len = IF medium = "i2c" THEN served ELSE call.len
         /\ medium # "i2c" => Buffer = call
<1>1. call.addr \in Nat /\ call.len \in Nat
  BY DEF Calls
<1>2. served \in Nat
  BY <1>1, ServedFacts DEF served
<1> QED
  BY <1>2, NoCallAssumption DEF Buffer, Calls, served

(* Steps that keep it: between two reads, and from the call of one to its  *)
(* return.                                                                 *)
LEMMA BetweenReads ==
  ASSUME reading = NoCall, reading' = NoCall
  PROVE  Promised
BY DEF Promised, Contract!Between, reading

(* A call of a read starts one, a call of anything else does not.          *)
LEMMA ReadCalled ==
  ASSUME reading = NoCall, Medium' = Medium
  PROVE  Promised
<1>1. CASE reading' = NoCall
  BY <1>1, BetweenReads
<1>2. CASE reading' # NoCall
  BY <1>2 DEF Promised, Contract!Call, reading
<1> QED
  BY <1>1, <1>2

(* A step of a read may store in the buffer only.                          *)
LEMMA ReadStores ==
  ASSUME reading # NoCall, reading' = reading, Medium' = Medium, UNCHANGED <<ret, promised>>,
         DOMAIN dst' = DOMAIN dst,
         \A o \in DOMAIN dst : o \notin 0 .. reading.len - 1 => dst'[o] = dst[o]
  PROVE  Promised
BY DEF Promised, Contract!Store, reading

(* It returns zero only with the bytes of the medium in the buffer.        *)
LEMMA ReadReturns ==
  ASSUME reading # NoCall, reading' = NoCall, Medium' = Medium, UNCHANGED dst,
         promised' /\ ret' = 0 =>
           \A o \in 0 .. reading.len - 1 : /\ reading.addr + o \in DOMAIN Medium
                                           /\ o \in DOMAIN dst
                                           /\ dst[o] = Medium[reading.addr + o]
  PROVE  Promised
BY DEF Promised, Contract!Return, Contract!Held, reading

(* Any other step is one between two reads or one of a read that stores    *)
(* nothing.                                                                *)
LEMMA ReadGoesOn ==
  ASSUME reading' = reading, Medium' = Medium, UNCHANGED <<ret, dst, promised>>
  PROVE  Promised
BY BetweenReads, ReadStores

(* Only the flash can be changed.                                          *)
LEMMA MediumStays ==
  ASSUME medium \in {"i2c", "nor", "sd"}, UNCHANGED medium, medium = "nor" => UNCHANGED disk
  PROVE  Medium' = Medium
<1>1. CASE medium = "i2c"
  BY <1>1 DEF Medium
<1>2. CASE medium = "nor"
  BY <1>2 DEF Medium
<1>3. CASE medium = "sd"
  BY <1>3 DEF Medium, ByteOnDisk, BytesOf
<1> QED
  BY <1>1, <1>2, <1>3

(* The EEPROM: a chunk that was received is stored in the buffer.          *)
LEMMA EepromKeepsPromise ==
  ASSUME EepromInv, medium = "i2c", I2cSteps,
         pc # "idle" /\ call.op = "read" => (promised <=> Lower)
  PROVE  Promised
<1>1. Medium' = Medium /\ UNCHANGED medium
  BY MediumStays DEF I2cSteps, OnI2c
<1>2. /\ pc = "idle" => reading = NoCall
      /\ pc # "idle" => /\ call \in Calls /\ call # NoCall
                        /\ reading = IF call.op = "read" THEN Buffer ELSE NoCall
      /\ reading # NoCall => /\ pc # "idle" /\ call.op = "read" /\ reading.addr = call.addr
                             /\ reading.len = served
  <2>1. pc # "idle" => call \in Calls /\ call # NoCall
    BY NoCallAssumption DEF EepromInv, EepromType, Calls
  <2> QED
    BY <2>1, BufferIs DEF reading, InCall
<1>3. CASE I2cCall
  <2>1. call = NoCall
    BY <1>3 DEF I2cCall, Ee!Access
  <2>2. reading = NoCall
    BY <2>1 DEF reading, InCall
  <2> QED
    BY <1>1, <2>1, <2>2, ReadCalled
<1>4. CASE Ee!Return
  <2>1. /\ pc = "loop" /\ offs >= call.len /\ call' = NoCall /\ UNCHANGED dst
    BY <1>4 DEF Ee!Return
  <2>2. reading' = NoCall
    BY <2>1 DEF reading, InCall
  <2>3. CASE reading # NoCall
    <3>1. /\ Arguments \in EepromReads /\ call.addr \in Nat /\ call.len \in Nat
          /\ call.addr % Depth # 0 => Depth - (call.addr % Depth) <= offs
          /\ DOMAIN dst = Window /\ offs \in Nat /\ (Lower => Received(offs))
      BY <1>2, <2>1, <2>3 DEF EepromInv, EepromRead, EepromType, Calls
    <3>2. Medium = [a \in Probed |-> a]
      BY DEF Medium
    <3>3. served \in Nat /\ served <= offs
      <4>1. /\ served \in Nat
            /\ call.addr % Depth # 0 => served \in {call.len, Depth - (call.addr % Depth)}
            /\ call.addr % Depth = 0 => served = call.len
        BY <3>1, ServedFacts DEF served
      <4> QED
        BY <2>1, <3>1, <4>1
    <3>4. promised' => Lower
      <4>1. UNCHANGED promised
        BY <2>1 DEF I2cSteps, OnI2c, Called
      <4> QED
        BY <1>2, <2>3, <4>1
    <3>5. /\ 0 .. served - 1 \subseteq Window
          /\ Lower => call.addr .. call.addr + served - 1 \subseteq Probed
      <4>1. Arguments[1] = call.addr /\ Arguments[2] = call.len
        BY DEF Arguments
      <4>2. /\ InWindow(<<call.addr, served>>)
            /\ Lower => call.addr .. call.addr + served - 1 \subseteq Probed
        BY <3>1, <4>1, EepromCallsAssumption DEF Lower, served
      <4> QED
        BY <4>2 DEF InWindow
    <3>6. ASSUME promised', NEW o \in 0 .. served - 1
          PROVE  /\ call.addr + o \in DOMAIN Medium /\ o \in DOMAIN dst
                 /\ dst[o] = Medium[call.addr + o]
      <4>1. o < offs /\ call.addr + o \in call.addr .. call.addr + served - 1
        BY <3>1, <3>3
      <4>2. call.addr + o \in Probed /\ o \in Window
        BY <3>4, <3>5, <3>6, <4>1
      <4>3. dst[o] = call.addr + o
        BY <3>1, <3>4, <3>6, <4>1 DEF Received
      <4> QED
        BY <3>1, <3>2, <4>2, <4>3
    <3>7. reading.addr = call.addr /\ reading.len = served
      BY <1>2, <2>3
    <3> QED
      BY <1>1, <2>1, <2>2, <2>3, <3>6, <3>7, ReadReturns
  <2> QED
    BY <2>2, <2>3, BetweenReads
<1>5. CASE Ee!Receive
  <2>1. /\ pc = "receive" /\ pc' = "loop" /\ UNCHANGED <<call, ret>>
        /\ DOMAIN dst' = DOMAIN dst
        /\ \A o \in DOMAIN dst : ~ (o - chunk.buf \in 0 .. chunk.len - 1) => dst'[o] = dst[o]
    BY <1>5 DEF Ee!Receive
  <2>2. /\ call.op = "read" /\ chunk.buf + chunk.len <= served
        /\ chunk.buf \in Nat /\ chunk.len \in Nat /\ 0 < chunk.len
        /\ DOMAIN dst = Window /\ served \in Nat
    <3>1. served \in Nat
      BY <1>2, <2>1, ServedFacts DEF served, Calls
    <3> QED
      BY <2>1, <3>1, EepromFacts DEF EepromInv, EepromRead, EepromFifos, EepromType
  <2>3. reading # NoCall /\ reading' = reading /\ reading.len = served
    <3>1. reading = Buffer /\ Buffer # NoCall /\ Buffer.len = served
      BY <1>2, <2>1, <2>2, BufferIs
    <3> QED
      BY <1>1, <2>1, <3>1 DEF reading, InCall, Buffer
  <2>4. ASSUME NEW o \in DOMAIN dst, o \notin 0 .. served - 1
        PROVE  dst'[o] = dst[o]
    <3>1. o \in Int
      BY <2>2, <2>4, WindowAssumption
    <3>2. ~ (o - chunk.buf \in 0 .. chunk.len - 1)
      BY <2>2, <2>4, <3>1
    <3> QED
      BY <2>1, <2>4, <3>2
  <2>5. UNCHANGED promised
    BY <2>1 DEF I2cSteps, OnI2c, Called
  <2> QED
    BY <1>1, <2>1, <2>3, <2>4, <2>5, ReadStores
<1>6. CASE Ee!NextChunk \/ Ee!Vacated \/ Ee!FillWrite \/ Ee!FillRead \/ Ee!Bus
  <2>1. UNCHANGED <<call, dst, ret>> /\ (pc' = "idle" <=> pc = "idle")
    BY <1>6 DEF Ee!NextChunk, Ee!Vacated, Ee!FillWrite, Ee!FillRead, Ee!Bus
  <2>2. reading' = reading
    BY <1>1, <2>1 DEF reading, InCall, Buffer
  <2>3. UNCHANGED promised
    BY <2>1 DEF I2cSteps, OnI2c, Called
  <2> QED
    BY <1>1, <2>1, <2>2, <2>3, ReadGoesOn
<1> QED
  BY <1>3, <1>4, <1>5, <1>6 DEF I2cSteps, OnI2c, Ee!Driver

(* The flash: it changes while pages are flashed, not while it is read.    *)
LEMMA NorKeepsPromise ==
  ASSUME NorInv, medium = "nor", NorSteps
  PROVE  Promised
<1>1. /\ pc = "idle" => call = NoCall /\ reading = NoCall
      /\ pc # "idle" => /\ call \in Calls /\ call # NoCall
                        /\ reading = IF call.op = "read" THEN call ELSE NoCall
      /\ pc = "read" => call.op = "read" /\ reading = call
      /\ pc \in {"wren", "page", "wip"} => reading = NoCall
  <2>1. Buffer = call
    BY DEF Buffer
  <2> QED
    BY <2>1, NoCallAssumption DEF NorInv, NorType, reading, InCall, Calls
<1>2. /\ UNCHANGED disk => Medium' = Medium
      /\ UNCHANGED <<medium, promised>> /\ Buffer' = call'
  BY MediumStays DEF NorSteps, OnNor, Buffer
<1>3. CASE NorCall
  <2>1. call = NoCall /\ UNCHANGED disk
    BY <1>3 DEF NorCall, Nor!Read, Nor!Flash, Nor!norVars
  <2>2. reading = NoCall
    BY <2>1 DEF reading, InCall
  <2> QED
    BY <1>2, <2>1, <2>2, ReadCalled
<1>4. CASE Nor!ReadChunk
  <2> DEFINE n == Nor!Min({Chunk, call.len - offs})
  <2>1. /\ pc = "read" /\ offs < call.len /\ UNCHANGED <<call, ret, pc, disk>>
        /\ DOMAIN dst' = DOMAIN dst
        /\ \A o \in DOMAIN dst : ~ (o - offs \in 0 .. n - 1) => dst'[o] = dst[o]
    BY <1>4 DEF Nor!ReadChunk
  <2>2. offs \in Nat /\ call.len \in Nat /\ DOMAIN dst = Window
    BY <1>1, <2>1 DEF NorInv, NorType, Calls
  <2>3. n \in Nat /\ n <= call.len - offs
    <3>1. Chunk \in Nat \ {0} /\ n = IF Chunk <= call.len - offs THEN Chunk ELSE call.len - offs
      BY <2>2, NorAssumption, NorMinIs
    <3> HIDE DEF n
    <3> QED
      BY <2>1, <2>2, <3>1
  <2> HIDE DEF n
  <2>4. reading = call /\ reading # NoCall /\ reading' = reading
    BY <1>1, <1>2, <2>1 DEF reading, InCall
  <2>5. ASSUME NEW o \in DOMAIN dst, o \notin 0 .. call.len - 1
        PROVE  dst'[o] = dst[o]
    <3>1. o \in Int
      BY <2>2, <2>5, WindowAssumption
    <3>2. ~ (o - offs \in 0 .. n - 1)
      BY <2>1, <2>2, <2>3, <2>5, <3>1
    <3> QED
      BY <2>1, <2>5, <3>2
  <2> QED
    BY <1>2, <2>1, <2>4, <2>5, ReadStores
<1>5. CASE Nor!ReadReturn
  <2>1. pc = "read" /\ offs >= call.len /\ call' = NoCall /\ UNCHANGED <<dst, disk>>
    BY <1>5 DEF Nor!ReadReturn, Nor!Return, Nor!norVars
  <2>2. reading = call /\ reading # NoCall /\ reading' = NoCall
    BY <1>1, <2>1 DEF reading, InCall
  <2>3. /\ Arguments \in NorReads /\ call \in Calls /\ offs \in Nat
        /\ DOMAIN dst = Window /\ DOMAIN disk = Nor!Addresses
        /\ \A o \in 0 .. call.len - 1 : o < offs => dst[o] = disk[call.addr + o]
    BY <1>1, <2>1 DEF NorInv, NorType, NorRead
  <2>4. ASSUME NEW o \in 0 .. call.len - 1
        PROVE  /\ call.addr + o \in DOMAIN Medium /\ o \in DOMAIN dst
               /\ dst[o] = Medium[call.addr + o]
    <3>1. /\ call.addr + call.len <= Pages * 2 * Sector
          /\ 0 .. call.len - 1 \subseteq Window
      BY <2>3, NorCallsAssumption DEF Arguments, InWindow
    <3>2. Pages * 2 * Sector = Pages * (2 * Sector) /\ Pages * (2 * Sector) \in Nat
      BY NorAssumption
    <3>3. call.addr + o \in Nor!Addresses
      BY <2>3, <3>1, <3>2 DEF Nor!Addresses, Nor!Page, Calls
    <3>4. dst[o] = disk[call.addr + o]
      BY <2>1, <2>3 DEF Calls
    <3> QED
      BY <2>3, <3>1, <3>3, <3>4 DEF Medium
  <2> QED
    BY <1>2, <2>1, <2>2, <2>4, ReadReturns
<1>6. CASE \/ Nor!WriteEnable \/ Nor!Erase \/ Nor!Program \/ Nor!FlashReturn
           \/ Nor!PollWip \/ Nor!Complete
  <2>1. CASE Nor!Complete
    <3>1. pc = "wip" /\ UNCHANGED <<call, pc>>
      BY <2>1, NorComplete DEF Nor!Complete
    <3>2. reading = NoCall /\ reading' = NoCall
      BY <1>1, <3>1 DEF reading, InCall
    <3> QED
      BY <3>2, BetweenReads
  <2>2. CASE Nor!WriteEnable \/ Nor!Erase \/ Nor!Program \/ Nor!FlashReturn \/ Nor!PollWip
    <3>1. /\ pc \in {"wren", "page", "wip"} /\ (call' = call \/ call' = NoCall)
      BY <2>2 DEF Nor!WriteEnable, Nor!Erase, Nor!Program, Nor!FlashReturn, Nor!PollWip,
                  Nor!Return
    <3>2. call.op = "flash"
      BY <3>1 DEF NorInv, NorType
    <3>3. reading = NoCall /\ reading' = NoCall
      BY <3>1, <3>2 DEF reading, InCall
    <3> QED
      BY <3>3, BetweenReads
  <2> QED
    BY <1>6, <2>1, <2>2
<1> QED
  BY <1>3, <1>4, <1>5, <1>6 DEF NorSteps, OnNor, Nor!Driver

(* The SD card: a byte, and a block copied from the swap buffer, is stored *)
(* in the buffer, and a read returns zero only at the end.                 *)
LEMMA SdKeepsPromise ==
  ASSUME SdInv, medium = "sd", SdSteps
  PROVE  Promised
<1>1. Medium' = Medium
  BY MediumStays DEF SdSteps, OnSd
<1>2. /\ pc = "idle" => reading = NoCall
      /\ pc # "idle" => reading = call
      /\ UNCHANGED medium /\ Buffer = call /\ Buffer' = call'
      /\ promised' = IF Called THEN LineSettled ELSE promised
  <2>1. UNCHANGED medium /\ Buffer = call /\ Buffer' = call'
    BY DEF SdSteps, OnSd, Buffer
  <2> QED
    BY <2>1 DEF SdInv, SdType, reading, InCall, SdSteps, OnSd
<1>3. CASE SdCall
  <2>1. pc = "idle"
    BY <1>3 DEF SdCall, Sd!Read
  <2> QED
    BY <1>1, <1>2, <2>1, ReadCalled
<1>4. ASSUME Sd!Driver PROVE pc \in {"resp"} \cup Reading \cup Finishing /\ UNCHANGED call
  BY <1>4 DEF Sd!Driver, Sd!PollReadResponse, Sd!PollResponse, Sd!PollToken, Sd!ReadData,
              Sd!CheckCrc, Sd!StopStream, Sd!PollStopResponse, Sd!PollBusy, Sd!CsFree,
              Reading, Finishing
<1>5. ASSUME Sd!Driver
      PROVE  /\ reading = call /\ call # NoCall /\ call \in Calls /\ call.op = "read"
             /\ Arguments \in SdReads /\ SdType /\ UNCHANGED <<call, promised>>
             /\ reading' = IF pc' = "idle" THEN NoCall ELSE call
  <2>1. /\ call # NoCall /\ call \in Calls /\ call.op = "read" /\ Arguments \in SdReads /\ SdType
        /\ pc # "idle" /\ UNCHANGED call
    BY <1>4, <1>5, InRead DEF Reading, Finishing
  <2>2. UNCHANGED promised
    BY <1>2, <2>1 DEF Called
  <2> QED
    BY <1>2, <2>1, <2>2 DEF reading, InCall
<1>6. CASE Sd!ReadData \/ Sd!CheckCrc
  <2>1. /\ reading = call /\ call # NoCall /\ call \in Calls /\ Arguments \in SdReads /\ SdType
        /\ UNCHANGED <<call, promised>>
        /\ reading' = IF pc' = "idle" THEN NoCall ELSE call
    BY <1>5, <1>6 DEF Sd!Driver
  <2>2. /\ b < num_blocks /\ b \in Nat /\ DOMAIN dst = Window /\ blk \in Seq(Nat)
        /\ pc = "data" => Len(blk) < BlockLen
    BY <1>6, <2>1 DEF SdInv, BlockInv, SdType, Reading, Sd!ReadData, Sd!CheckCrc
  <2>3. ASSUME NEW k \in 0 .. BlockLen - 1
        PROVE  /\ Sd!Offset(k) \in Int /\ Sd!Offset(k) = Sd!Offset(0) + k
               /\ ~ Sd!Swapped => Sd!Offset(k) \in 0 .. call.len - 1
               /\ k \in Sd!Relevant <=> Sd!Offset(k) \in 0 .. call.len - 1
    BY <2>1, <2>2, Offsets
  <2>4. BlockLen \in Nat \ {0} /\ 0 \in 0 .. BlockLen - 1 /\ Sd!Offset(0) \in Int
    <3>1. BlockLen \in Nat \ {0} /\ 0 \in 0 .. BlockLen - 1
      BY SdFacts
    <3> QED
      BY <2>3, <3>1
  <2>5. Sd!Relevant \subseteq 0 .. BlockLen - 1
    <3>1. call.addr \in Nat /\ call.len \in Nat \ {0}
      BY <2>1, SdCallsAssumption DEF Calls, Arguments
    <3>2. /\ Sd!FirstOffs(call.addr) \in 0 .. BlockLen - 1
          /\ Sd!LastLen(call.addr, call.len) \in 1 .. BlockLen
      BY <3>1, Blocks
    <3> QED
      BY <2>4, <3>2 DEF Sd!Relevant, Sd!addr, Sd!len
  <2>6. ASSUME NEW o \in DOMAIN dst, o \notin 0 .. call.len - 1, NEW k \in 0 .. BlockLen - 1,
               o - Sd!Offset(0) = k
        PROVE  Sd!Swapped /\ k \notin Sd!Relevant
    <3>1. Sd!Offset(k) = o
      <4>1. o \in Int /\ Sd!Offset(k) = Sd!Offset(0) + k
        BY <2>2, <2>3, <2>6, WindowAssumption
      <4> QED
        BY <2>4, <2>6, <4>1
    <3> QED
      BY <2>3, <2>6, <3>1
  <2>7. CASE Sd!ReadData
    <3>1. /\ pc = "data" /\ pc' # "idle" /\ UNCHANGED ret
          /\ dst' = IF Sd!Swapped THEN dst ELSE Sd!Put({Len(blk)}, blk')
      BY <2>7 DEF Sd!ReadData, Sd!Go
    <3>2. DOMAIN dst' = DOMAIN dst
      BY <3>1 DEF Sd!Put
    <3>3. ASSUME NEW o \in DOMAIN dst, o \notin 0 .. call.len - 1
          PROVE  dst'[o] = dst[o]
      <4>1. Len(blk) \in 0 .. BlockLen - 1
        BY <2>2, <2>4, <3>1
      <4>2. Sd!Swapped \/ o - Sd!Offset(0) # Len(blk)
        BY <2>6, <3>3, <4>1
      <4> QED
        BY <3>1, <4>2 DEF Sd!Put
    <3>4. reading' = reading /\ reading # NoCall
      BY <2>1, <3>1
    <3> QED
      BY <1>1, <2>1, <3>1, <3>2, <3>3, <3>4, ReadStores
  <2>8. CASE Sd!CheckCrc /\ ~ Sd!CrcFits(Sd!NextSymbol, blk)
    <3>1. pc' = "idle" /\ ret' # 0 /\ UNCHANGED dst
      BY <2>8 DEF Sd!CheckCrc, Sd!Return, Sd!ECrc
    <3>2. reading # NoCall /\ reading' = NoCall
      BY <2>1, <3>1
    <3> QED
      BY <1>1, <3>1, <3>2, ReadReturns
  <2>9. CASE Sd!CheckCrc /\ Sd!CrcFits(Sd!NextSymbol, blk)
    <3>1. /\ pc' # "idle" /\ UNCHANGED ret
          /\ dst' = IF Sd!Swapped THEN Sd!Put(Sd!Relevant, blk) ELSE dst
      BY <2>9 DEF Sd!CheckCrc, Sd!Go
    <3>2. DOMAIN dst' = DOMAIN dst
      BY <3>1 DEF Sd!Put
    <3>3. ASSUME NEW o \in DOMAIN dst, o \notin 0 .. call.len - 1
          PROVE  dst'[o] = dst[o]
      <4>1. o - Sd!Offset(0) \notin Sd!Relevant
        BY <2>5, <2>6, <3>3
      <4> QED
        BY <3>1, <4>1 DEF Sd!Put
    <3>4. reading' = reading /\ reading # NoCall
      BY <2>1, <3>1
    <3> QED
      BY <1>1, <2>1, <3>1, <3>2, <3>3, <3>4, ReadStores
  <2> QED
    BY <1>6, <2>7, <2>8, <2>9
<1>7. CASE \/ Sd!PollReadResponse \/ Sd!PollToken \/ Sd!StopStream \/ Sd!PollStopResponse
           \/ Sd!PollBusy
  <2>1. /\ reading = call /\ call # NoCall /\ pc # "idle" /\ UNCHANGED promised
        /\ reading' = IF pc' = "idle" THEN NoCall ELSE call
    BY <1>4, <1>5, <1>7 DEF Sd!Driver, Reading, Finishing
  <2>2. /\ UNCHANGED dst
        /\ \/ pc' # "idle" /\ UNCHANGED ret
           \/ pc' = "idle" /\ ret' # 0
    <3>1. CASE Sd!PollReadResponse \/ Sd!PollStopResponse
      <4>1. /\ UNCHANGED dst
            /\ \/ Sd!Return(Sd!ENoResp) \/ Sd!Go("token") \/ Sd!Go("busy") \/ UNCHANGED <<pc, ret>>
        BY <3>1 DEF Sd!PollReadResponse, Sd!PollStopResponse, Sd!PollResponse
      <4> QED
        BY <2>1, <4>1 DEF Sd!Return, Sd!Go, Sd!ENoResp
    <3>2. CASE Sd!PollToken
      <4>1. /\ UNCHANGED dst
            /\ \/ Sd!Return(Sd!ENoToken) \/ Sd!Return(Sd!EToken) \/ Sd!Go("data")
               \/ UNCHANGED <<pc, ret>>
        BY <3>2 DEF Sd!PollToken
      <4> QED
        BY <2>1, <4>1 DEF Sd!Return, Sd!Go, Sd!ENoToken, Sd!EToken
    <3>3. CASE Sd!PollBusy \/ Sd!StopStream
      BY <3>3 DEF Sd!PollBusy, Sd!StopStream, Sd!Return, Sd!Go, Sd!EBusy
    <3> QED
      BY <1>7, <3>1, <3>2, <3>3
  <2>3. CASE pc' # "idle" /\ UNCHANGED ret
    BY <1>1, <2>1, <2>2, <2>3, ReadGoesOn
  <2>4. CASE pc' = "idle" /\ ret' # 0
    BY <1>1, <2>1, <2>2, <2>4, ReadReturns
  <2> QED
    BY <2>2, <2>3, <2>4
<1>8. CASE Sd!CsFree
  <2>1. /\ reading = call /\ call # NoCall /\ call \in Calls /\ Arguments \in SdReads /\ SdType
        /\ reading' = (IF pc' = "idle" THEN NoCall ELSE call) /\ UNCHANGED promised
    BY <1>5, <1>8 DEF Sd!Driver
  <2>2. pc = "free" /\ pc' = "idle" /\ UNCHANGED dst
    BY <1>8 DEF Sd!CsFree, Sd!Return
  <2>3. promised => InPlace(call.len)
    BY <2>2 DEF SdInv, FinishInv, Finishing
  <2>4. ASSUME promised, NEW o \in 0 .. call.len - 1
        PROVE  /\ call.addr + o \in DOMAIN Medium /\ o \in DOMAIN dst
               /\ dst[o] = Medium[call.addr + o]
    <3>1. /\ call.addr + o \in Nat /\ o < call.len /\ o \in Window /\ DOMAIN dst = Window
      <4>1. call.addr \in Nat /\ call.len \in Nat /\ DOMAIN dst = Window
        BY <2>1 DEF Calls, SdType
      <4>2. 0 .. call.len - 1 \subseteq Window
        BY <2>1, SdCallsAssumption DEF InWindow, Arguments
      <4> QED
        BY <4>1, <4>2
    <3>2. /\ (call.addr + o) \div BlockLen \in DOMAIN Disk
          /\ dst[o] = ByteOnDisk(call.addr + o)
      BY <2>3, <2>4, <3>1 DEF InPlace
    <3> DEFINE l == (call.addr + o) \div BlockLen
    <3>3. call.addr + o \in l * BlockLen .. l * BlockLen + BlockLen - 1
      <4>1. /\ BlockLen \in Nat \ {0} /\ l \in Nat
            /\ (call.addr + o) % BlockLen \in 0 .. BlockLen - 1
            /\ call.addr + o = l * BlockLen + ((call.addr + o) % BlockLen)
        BY <3>1, SdFacts, DivMod
      <4>2. l * BlockLen \in Nat
        BY <4>1
      <4> HIDE DEF l
      <4> QED
        BY <3>1, <4>1, <4>2
    <3>4. call.addr + o \in BytesOf
      <4> HIDE DEF l
      <4>1. l \in DOMAIN Disk
        BY <3>2 DEF l
      <4> QED
        BY <3>3, <4>1 DEF BytesOf
    <3> QED
      BY <3>1, <3>2, <3>4 DEF Medium
  <2> QED
    BY <1>1, <2>1, <2>2, <2>4, ReadReturns
<1>9. CASE Sd!CardStreams
  <2>1. UNCHANGED <<call, dst, ret, pc>>
    BY <1>9 DEF Sd!CardStreams, Sd!drvVars
  <2>2. UNCHANGED promised
    BY <1>2, <2>1 DEF Called
  <2>3. reading' = reading
    BY <1>2, <2>1 DEF reading, InCall
  <2> QED
    BY <1>1, <2>1, <2>2, <2>3, ReadGoesOn
<1> QED
  BY <1>3, <1>6, <1>7, <1>8, <1>9 DEF SdSteps, OnSd, Sd!Driver

(* Whatever the medium and its state, a read stores only in the buffer,    *)
(* which for the EEPROM reaches to the next FIFO boundary at least, and    *)
(* returns zero only when the buffer holds the medium's bytes; the latter  *)
(* but for reads of the EEPROM's upper block, and for reads of the SD card *)
(* made while it still answers an earlier one, too late or in a stream     *)
(* that was not ended (gpt_read_t).                                        *)
THEOREM ContractIsKept == Spec => KeepsContract
<1>1. Init => reading = NoCall
  BY DEF Init, reading, InCall
<1>2. ASSUME MediaInv, [Next]_vars
      PROVE  Promised
  <2>1. CASE I2cSteps
    <3>1. medium = "i2c"
      BY <2>1 DEF I2cSteps, OnI2c
    <3> QED
      BY <1>2, <2>1, <3>1, EepromKeepsPromise DEF MediaInv
  <2>2. CASE NorSteps
    <3>1. medium = "nor"
      BY <2>2 DEF NorSteps, OnNor
    <3> QED
      BY <1>2, <2>2, <3>1, NorKeepsPromise DEF MediaInv
  <2>3. CASE SdSteps
    <3>1. medium = "sd"
      BY <2>3 DEF SdSteps, OnSd
    <3> QED
      BY <1>2, <2>3, <3>1, SdKeepsPromise DEF MediaInv
  <2>4. CASE Activation
    <3>1. medium = "sd" /\ UNCHANGED <<medium, call, dst>>
      BY <2>4 DEF Activation, OnSd
    <3>2. CASE Act!Driver
      <4>1. pc \in Activating
        BY <3>2 DEF Act!Driver, Act!Wake, Act!Cmd0, Act!Cmd8, Act!Cmd55, Act!Acmd41, Act!Cmd58,
                    Act!Cmd16, Act!SpeedUp, Act!Check, Act!Discard, Activating, Starting
      <4>2. call = NoCall
        BY <1>2, <3>1, <4>1 DEF MediaInv, SdInv, ActivationInv
      <4>3. reading = NoCall /\ reading' = NoCall
        BY <3>1, <4>2 DEF reading, InCall
      <4> QED
        BY <4>3, BetweenReads
    <3>3. CASE Act!CardGetsReady
      <4>1. UNCHANGED <<pc, ret, promised>>
        <5>1. UNCHANGED <<pc, ret>>
          BY <3>3 DEF Act!CardGetsReady
        <5> QED
          BY <2>4, <5>1 DEF Activation, OnSd, Called
      <4>2. Medium' = Medium
        BY <3>1, MediumStays
      <4> QED
        BY <3>1, <4>1, <4>2, ReadGoesOn DEF reading, InCall, Buffer
    <3> QED
      BY <2>4, <3>2, <3>3 DEF Activation, OnSd
  <2>5. CASE UNCHANGED vars
    <3>1. UNCHANGED <<medium, call, dst, ret, pc, disk, promised>>
      BY <2>5 DEF vars, norVars
    <3>2. Medium' = Medium
      BY <1>2, <3>1, MediumStays DEF MediaInv
    <3> QED
      BY <3>1, <3>2, ReadGoesOn DEF reading, InCall, Buffer
  <2> QED
    BY <1>2, <2>1, <2>2, <2>3, <2>4, <2>5 DEF Next
<1>3. MediaInv /\ [Next]_vars =>
        [Contract!Call \/ Contract!Store \/ Contract!Return \/ Contract!Between]_(Contract!vars)
  BY <1>2 DEF Promised
<1> QED
  BY <1>1, <1>3, MediaState, PTL DEF Spec, KeepsContract, Contract!Spec, reading
===========================================================================
