------------------------------ MODULE Eeprom -------------------------------
(***************************************************************************)
(* The I2C EEPROM driver (i2c_24fc1025.c).  A read or a write is cut into  *)
(* chunks at multiples of the FIFO depth.  For each chunk the driver waits *)
(* until all FIFOs are empty, switches the I2C host off, queues the whole  *)
(* message, and switches the host on again, which plays it to the device.  *)
(*                                                                         *)
(* Host, FIFOs and device (the OpenTitan block and the 24FC1025) are       *)
(* external, modelled from how the driver uses them.  The byte at address  *)
(* a of the device is a itself, so that a byte from a wrong place shows.   *)
(***************************************************************************)
EXTENDS Integers, Sequences, FiniteSetsExt

CONSTANTS NoCall,
          Depth,    \* I2C_PARAM_FIFO_DEPTH (64 in the code)
          Block,    \* addresses of one block of the device: 2^16
          Probed,   \* addresses of the device that are looked at
          Window,   \* offsets of the caller's memory that are looked at
          Untouched \* a byte of that memory nobody has written

VARIABLES call,   \* the access under way: [op, addr, len], or NoCall
          dst,    \* the caller's memory, by offset from the buffer
          ret,    \* what the last access returned
          pc,     \* where the driver is
          offs,   \* bytes handed to chunks so far
          chunk,  \* arguments of __i2c_24fc1025_access_chunk; buf as an offset
          fmt,    \* the FMT FIFO: entries [flag, byte]
          rx,     \* the RX FIFO
          on,     \* the host is enabled
          dev     \* the device: [ctrl, head, busy]: control byte, bytes of the
                  \* message after it, and whether a message has no stop yet

chipVars == <<fmt, rx, on, dev>>
eepromVars == <<offs, chunk, chipVars>>
vars == <<call, dst, ret, pc, eepromVars>>

Byte(w) == w % 256

\* i2c_24fc1025_init leaves the host enabled and the FIFOs empty.
Init == /\ offs = 0
        /\ chunk = [buf |-> 0, addr |-> 0, len |-> 0]
        /\ fmt = <<>> /\ rx = <<>> /\ on = TRUE
        /\ dev = [ctrl |-> 0, head |-> <<>>, busy |-> FALSE]
---------------------------------------------------------------------------
(* __i2c_24fc1025_access: a first chunk up to the next FIFO boundary.      *)
Access(op, a, n) ==
  /\ call = NoCall /\ call' = [op |-> op, addr |-> a, len |-> n]
  /\ dst' = [o \in Window |-> Untouched]
  /\ IF a % Depth # 0
     THEN /\ offs' = Depth - (a % Depth)
          /\ chunk' = [buf |-> 0, addr |-> a, len |-> Depth - (a % Depth)]
          /\ pc' = "wait"
     ELSE offs' = 0 /\ pc' = "loop" /\ UNCHANGED chunk
  /\ UNCHANGED <<ret, chipVars>>

(* The bytes that a read brings: those up to the next FIFO boundary at      *)
(* least, when it does not start at one.                                   *)
Served(a, n) == IF a % Depth # 0 /\ n < Depth - (a % Depth) THEN Depth - (a % Depth) ELSE n

(* Fault: the last chunk is not cut to the length.                         *)
NextChunkWhole ==
  /\ pc = "loop" /\ offs < call.len
  /\ chunk' = [buf |-> offs, addr |-> call.addr + offs, len |-> Depth]
  /\ offs' = offs + Depth /\ pc' = "wait"
  /\ UNCHANGED <<call, dst, ret, chipVars>>

(* ... then chunks of at most the FIFO depth.                              *)
NextChunk ==
  /\ pc = "loop" /\ offs < call.len
  /\ chunk' = [buf |-> offs, addr |-> call.addr + offs, len |-> Min({Depth, call.len - offs})]
  /\ offs' = offs + Depth /\ pc' = "wait"
  /\ UNCHANGED <<call, dst, ret, chipVars>>

Return ==
  /\ pc = "loop" /\ offs >= call.len
  /\ call' = NoCall /\ ret' = 0 /\ pc' = "idle"
  /\ UNCHANGED <<dst, eepromVars>>

(* Fault: the chunk starts without waiting for the previous one.           *)
VacatedNot ==
  /\ pc = "wait"
  /\ on' = FALSE /\ pc' = "fill"
  /\ UNCHANGED <<call, dst, ret, offs, chunk, fmt, rx, dev>>

(* All FIFO levels are zero: the host is switched off.                     *)
Vacated ==
  /\ pc = "wait" /\ fmt = <<>> /\ rx = <<>>
  /\ on' = FALSE /\ pc' = "fill"
  /\ UNCHANGED <<call, dst, ret, offs, chunk, fmt, rx, dev>>

Put(flag, byte) == [flag |-> flag, byte |-> Byte(byte)]

(* 0xA0, the block select and the chip selects above it, in a word that    *)
(* dif_i2c_write_byte cuts to its low byte.                                *)
CtrlWaddr(a) == 160 + ((a \div Block) % 2) * (Block \div 2)

Header(a, last) == <<Put("start", CtrlWaddr(a)), Put("tx", (a % Block) \div 256), Put(last, a)>>

half_fill == Depth \div 2

(* A write queues at most half the FIFO, then the last byte of what is     *)
(* left, and goes on with another half transfer.  Its bytes are the        *)
(* caller's, by offset.                                                    *)
FillWrite ==
  /\ pc = "fill" /\ call.op = "write"
  /\ fmt' = fmt \o Header(chunk.addr, "tx")
                \o [k \in 1 .. Min({chunk.len - 1, half_fill}) |-> Put("tx", chunk.buf + k - 1)]
                \o <<Put("tx", chunk.buf + chunk.len - 1)>>
  /\ on' = TRUE
  /\ IF chunk.len > half_fill
     THEN /\ pc' = "wait"
          /\ chunk' = [buf |-> chunk.buf + chunk.len, addr |-> chunk.addr + chunk.len,
                       len |-> chunk.len - half_fill]
     ELSE pc' = "loop" /\ UNCHANGED chunk
  /\ UNCHANGED <<call, dst, ret, offs, rx, dev>>

(* A read queues a second start with the read bit, and the length.         *)
FillRead ==
  /\ pc = "fill" /\ call.op = "read"
  /\ fmt' = fmt \o Header(chunk.addr, "txstop")
                \o <<Put("start", CtrlWaddr(chunk.addr) + 1), Put("rx", chunk.len)>>
  /\ on' = TRUE /\ pc' = "receive"
  /\ UNCHANGED <<call, dst, ret, offs, chunk, rx, dev>>

(* The chunk is copied out when the RX FIFO holds all of it.               *)
Receive ==
  /\ pc = "receive" /\ Len(rx) >= chunk.len
  /\ dst' = [o \in DOMAIN dst |->
               IF o - chunk.buf \in 0 .. chunk.len - 1 THEN rx[o - chunk.buf + 1] ELSE dst[o]]
  /\ rx' = SubSeq(rx, chunk.len + 1, Len(rx))
  /\ pc' = "loop"
  /\ UNCHANGED <<call, ret, offs, chunk, fmt, on, dev>>
---------------------------------------------------------------------------
(* The device.  Bit 3 of the control byte selects the block, the two bytes *)
(* after it the address; a read goes on from there and wraps in its block. *)
Pointer == Block * ((dev.ctrl \div 8) % 2) + ((dev.head[1] * 256 + dev.head[2]) % Block)
FromPointer(n) == [k \in 1 .. n |->
                     Block * (Pointer \div Block) + ((Pointer + k - 1) % Block)]

(* The host plays one entry of the FMT FIFO; a start with the read bit     *)
(* keeps the address that was sent before.                                 *)
Bus ==
  /\ on /\ fmt # <<>>
  /\ LET e == Head(fmt) IN
       /\ dev' = CASE e.flag = "start" /\ e.byte % 2 = 0 ->
                        [ctrl |-> e.byte, head |-> <<>>, busy |-> TRUE]
                   [] e.flag \in {"tx", "txstop"} ->
                        [dev EXCEPT !.head = IF Len(@) < 2 THEN Append(@, e.byte) ELSE @,
                                    !.busy = e.flag = "tx"]
                   [] OTHER -> [dev EXCEPT !.busy = TRUE]
       /\ rx' = IF e.flag = "rx" THEN rx \o FromPointer(e.byte) ELSE rx
  /\ fmt' = Tail(fmt)
  /\ UNCHANGED <<call, dst, ret, pc, offs, chunk, on>>

Driver == NextChunk \/ Return \/ Vacated \/ FillWrite \/ FillRead \/ Receive
===========================================================================
