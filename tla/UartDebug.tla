----------------------------- MODULE UartDebug -----------------------------
(***************************************************************************)
(* The UART debug server of the boot ROM (uart_debug.c, uart.c) and the    *)
(* host that preloads and runs a program through it (vip_cheshire_soc.sv). *)
(*                                                                         *)
(* They talk through two byte FIFOs without framing: whether a byte is an  *)
(* opcode, an argument or data is told by its position alone, so data may  *)
(* take any value.  The 64-bit arguments are one symbol each here, the     *)
(* 32-bit return value is RetLen symbols.                                  *)
(***************************************************************************)
EXTENDS Integers, Sequences

CONSTANTS DataBytes,   \* byte values of memory and of the program to load
          NoiseBytes,  \* bytes on the line before the host starts
          OutBytes,    \* bytes the executed program may print
          Images,      \* sections to load, sequences of DataBytes
          UartBurstBytes,  \* the host writes a section in blocks of this size
          RetLen,      \* symbols of a return value (4 bytes in the code)
          RetBytes,    \* their values
          MaxOut,      \* bound on what the executed program prints
          FifoDepth,   \* receive FIFO of the UART
          None

kUartDebugCmdRead  == 17   \* 0x11
kUartDebugCmdWrite == 18   \* 0x12
kUartDebugCmdExec  == 19   \* 0x13
kUartDebugAck      == 6
kUartDebugEot      == 4
kUartDebugEoc      == 20   \* 0x14

ASSUME ImagesAssumption == Images \subseteq Seq(DataBytes)
ASSUME SizeAssumption == /\ UartBurstBytes \in Nat \ {0} /\ FifoDepth \in Nat \ {0}
                         /\ RetLen \in Nat \ {0} /\ MaxOut \in Nat
(* The protocol has no escape: noise must hold no ACK, and the output of a  *)
(* program no EOC, which the host would take for its end.                   *)
ASSUME LineAssumption == kUartDebugAck \notin NoiseBytes /\ kUartDebugEoc \notin OutBytes

Entry == 0                \* the program is entered at its first byte

VARIABLES
  rxq,     \* host to board
  txq,     \* board to host
  srv,     \* where the server is
  addr, len, i,   \* the server's command arguments and byte counter
  mem,     \* memory, as far as the protocol touches it
  printed, \* bytes the running program has printed so far
  retval,  \* the program's return value, a sequence, or None
  host,    \* where the host is
  image,   \* the section the host loads
  base,    \* offset of the host's current block in the section
  sent,    \* bytes of the current command the host has sent
  got,     \* bytes received since the last command
  eoc      \* uart_boot_eoc

srvVars == <<srv, addr, len, i, mem, printed, retval>>
hostVars == <<host, image, base, sent, got, eoc>>
vars == <<rxq, txq, srvVars, hostVars>>

Size == Len(image) + 1    \* memory cells, one more than the section

Init == /\ image \in Images
        /\ rxq = <<>> /\ txq = <<>>
        /\ srv = "init" /\ addr = 0 /\ len = 0 /\ i = 0
        /\ mem \in {[a \in 0 .. Size - 1 |-> d] : d \in DataBytes}
        /\ printed = 0 /\ retval = None
        /\ host = "settle" /\ base = 0 /\ sent = <<>> /\ got = <<>> /\ eoc = FALSE

---------------------------------------------------------------------------
(* The server.  uart_read takes the oldest byte of the FIFO, uart_write    *)
(* waits for the transmitter, which the line always drains.                *)

Pop(l) == srv = l /\ rxq # <<>> /\ rxq' = Tail(rxq)
Byte == Head(rxq)
Push(l, b) == srv = l /\ txq' = Append(txq, b)

Reply(l, b, next) == /\ Push(l, b)
                     /\ srv' = next
                     /\ UNCHANGED <<rxq, addr, len, i, mem, printed, retval, hostVars>>

---------------------------------------------------------------------------
(* Faults: wrong variants of the steps below, none of them part of Next.   *)

(* uart_debug_check answers to any byte.                                   *)
CheckAny == /\ Pop("check")
            /\ srv' = "welcome"
            /\ UNCHANGED <<txq, addr, len, i, mem, printed, retval, hostVars>>

(* The write loop counts to len inclusive.                                 *)
EndOfDataLate(l) == i = len + 1 /\ Reply(l, kUartDebugEot, "cmd")

(* The transfer is closed with its last byte outstanding.                  *)
EndOfDataEarly(l) == i + 1 = len /\ Reply(l, kUartDebugEot, "cmd")

(* The destination does not advance with the counter.                      *)
WriteDataNoAdvance == /\ i < len
                      /\ Pop("w_data") /\ mem' = [mem EXCEPT ![addr] = Byte]
                      /\ i' = i + 1
                      /\ UNCHANGED <<txq, srv, addr, len, printed, retval, hostVars>>

(* The first byte read back is skipped.                                    *)
ReadDataShifted == /\ i < len /\ Push("r_data", mem[addr + i + 1])
                   /\ i' = i + 1
                   /\ UNCHANGED <<rxq, srv, addr, len, mem, printed, retval, hostVars>>

---------------------------------------------------------------------------
(* uart_init: the FIFO is enabled and cleared. *)
UartInit == /\ srv = "init"
            /\ rxq' = <<>> /\ srv' = "check"
            /\ UNCHANGED <<txq, addr, len, i, mem, printed, retval, hostVars>>

(* uart_debug_check drops every byte until an ACK arrives. *)
Check == /\ Pop("check")
         /\ srv' = IF Byte = kUartDebugAck THEN "welcome" ELSE "check"
         /\ UNCHANGED <<txq, addr, len, i, mem, printed, retval, hostVars>>

Welcome == /\ Push("welcome", kUartDebugAck)
           /\ srv' = "cmd"
           /\ UNCHANGED <<rxq, addr, len, i, mem, printed, retval, hostVars>>

(* An unknown command ends the server, with the ROM's error code 1. *)
Command == /\ Pop("cmd")
           /\ srv' = CASE Byte = kUartDebugCmdRead  -> "r_addr"
                       [] Byte = kUartDebugCmdWrite -> "w_addr"
                       [] Byte = kUartDebugCmdExec  -> "e_addr"
                       [] OTHER                     -> "error"
           /\ UNCHANGED <<txq, addr, len, i, mem, printed, retval, hostVars>>

Address(l, next) == /\ Pop(l) /\ addr' = Byte
                    /\ srv' = next
                    /\ UNCHANGED <<txq, len, i, mem, printed, retval, hostVars>>

Length(l, next) == /\ Pop(l) /\ len' = Byte
                   /\ i' = 0 /\ srv' = next
                   /\ UNCHANGED <<txq, addr, mem, printed, retval, hostVars>>

(* One byte of uart_write_str, from memory. *)
ReadData == /\ i < len /\ Push("r_data", mem[addr + i])
            /\ i' = i + 1
            /\ UNCHANGED <<rxq, srv, addr, len, mem, printed, retval, hostVars>>

(* One byte of uart_read_str, to memory. *)
WriteData == /\ i < len
             /\ Pop("w_data") /\ mem' = [mem EXCEPT ![addr + i] = Byte]
             /\ i' = i + 1
             /\ UNCHANGED <<txq, srv, addr, len, printed, retval, hostVars>>

EndOfData(l) == i = len /\ Reply(l, kUartDebugEot, "cmd")

(* The invoked program prints, and may return. *)
Putchar(b) == /\ printed < MaxOut /\ Push("exec", b)
            /\ printed' = printed + 1
            /\ UNCHANGED <<rxq, srv, addr, len, i, mem, retval, hostVars>>

ProgramReturns(r) == /\ srv = "exec"
                     /\ retval' = r /\ i' = 0 /\ srv' = "eoc"
                     /\ UNCHANGED <<rxq, txq, addr, len, mem, printed, hostVars>>

(* The return value, least significant byte first; then the server ends. *)
ReturnByte == /\ Push("ret", retval[i + 1])
              /\ i' = i + 1
              /\ srv' = IF i + 1 = RetLen THEN "end" ELSE "ret"
              /\ UNCHANGED <<rxq, addr, len, mem, printed, retval, hostVars>>

Serve == \/ UartInit \/ Check \/ Welcome \/ Command
         \/ Address("r_addr", "r_len") \/ Length("r_len", "r_ack")
         \/ Reply("r_ack", kUartDebugAck, "r_data") \/ ReadData \/ EndOfData("r_data")
         \/ Address("w_addr", "w_len") \/ Length("w_len", "w_ack")
         \/ Reply("w_ack", kUartDebugAck, "w_data") \/ WriteData \/ EndOfData("w_data")
         \/ Address("e_addr", "e_ack") \/ Reply("e_ack", kUartDebugAck, "exec")
         \/ Reply("eoc", kUartDebugEoc, "ret") \/ ReturnByte

Returns == \E r \in [1 .. RetLen -> RetBytes] : ProgramReturns(r)

---------------------------------------------------------------------------
(* The host.  It sends a command byte by byte, arming its scoop with the   *)
(* last byte: the reply takes ten bit times to arrive.                     *)

Block == SubSeq(image, base + 1, IF base + UartBurstBytes <= Len(image)
                                 THEN base + UartBurstBytes ELSE Len(image))

(* What the host sends in a state, and the state it waits in afterwards.   *)
Message == CASE host = "challenge" -> <<kUartDebugAck>>
             [] host = "write" -> <<kUartDebugCmdWrite, base, Len(Block)>>
             [] host = "w_data" -> Block
             [] host = "read" -> <<kUartDebugCmdRead, Entry, Len(image)>>
             [] host = "exec" -> <<kUartDebugCmdExec, Entry>>
             [] OTHER -> <<>>

AwaitAfter == [challenge |-> "challenge_ack", write |-> "w_ack", w_data |-> "w_eot",
               read |-> "r_ack", exec |-> "e_ack"]
Sending == DOMAIN AwaitAfter

(* The line before the host starts: glitches, none of them an ACK.         *)
Noise(b) == /\ host = "settle" /\ Len(rxq) < FifoDepth
            /\ rxq' = Append(rxq, b)
            /\ UNCHANGED <<txq, srvVars, hostVars>>

(* The host can only wait "some time for boot ROM to settle".              *)
Settle == /\ host = "settle" /\ srv # "init"
          /\ host' = "challenge"
          /\ UNCHANGED <<rxq, txq, srvVars, base, sent, got, eoc, image>>

HostSend == /\ host \in Sending /\ Len(sent) < Len(Message) /\ Len(rxq) < FifoDepth
            /\ LET b == Message[Len(sent) + 1] IN
                 rxq' = Append(rxq, b) /\ sent' = Append(sent, b)
            /\ UNCHANGED <<txq, srvVars, host, base, got, eoc, image>>

HostSent == /\ host \in Sending /\ sent = Message
            /\ host' = AwaitAfter[host]
            /\ sent' = <<>> /\ got' = <<>>
            /\ UNCHANGED <<rxq, txq, srvVars, base, eoc, image>>

(* uart_boot_scoop_expect: one awaited byte, fatal when it is another.     *)
Expect(h, b, next) ==
  /\ host = h /\ txq # <<>>
  /\ txq' = Tail(txq)
  /\ host' = IF Head(txq) = b THEN next ELSE "fatal"
  /\ UNCHANGED <<rxq, srvVars, sent, eoc, image>>

ExpectAck ==
  /\ \/ Expect("challenge_ack", kUartDebugAck, "write")
     \/ Expect("w_ack", kUartDebugAck, "w_data")
     \/ Expect("r_ack", kUartDebugAck, "r_data")
     \/ Expect("e_ack", kUartDebugAck, "running")
  /\ UNCHANGED <<base, got>>

(* After a block the loop goes on while i <= sec_len: the last block may   *)
(* be empty.                                                               *)
ExpectWriteEot ==
  /\ Expect("w_eot", kUartDebugEot,
            IF base + UartBurstBytes <= Len(image) THEN "write" ELSE "loaded")
  /\ base' = base + UartBurstBytes
  /\ UNCHANGED got

(* After preloading the host may read memory back; then it runs it.        *)
Loaded == /\ host = "loaded"
          /\ host' \in {"read", "exec"}
          /\ UNCHANGED <<rxq, txq, srvVars, base, sent, got, eoc, image>>

ScoopData == /\ host = "r_data" /\ Len(got) < Len(image) /\ txq # <<>>
             /\ got' = Append(got, Head(txq)) /\ txq' = Tail(txq)
             /\ UNCHANGED <<rxq, srvVars, host, base, sent, eoc, image>>

ExpectReadEot == /\ Len(got) = Len(image) /\ Expect("r_data", kUartDebugEot, "exec")
                 /\ UNCHANGED <<base, got>>

(* Nobody scoops: the reader prints the byte, or takes it for the EOC.     *)
Unscooped == /\ host = "running" /\ ~ eoc /\ txq # <<>>
             /\ txq' = Tail(txq) /\ eoc' = (Head(txq) = kUartDebugEoc)
             /\ UNCHANGED <<rxq, srvVars, host, base, sent, got, image>>

WaitEoc == /\ host = "running" /\ eoc
           /\ eoc' = FALSE /\ host' = "exit_code" /\ got' = <<>>
           /\ UNCHANGED <<rxq, txq, srvVars, base, sent, image>>

ExitCode == /\ host = "exit_code" /\ txq # <<>>
            /\ got' = Append(got, Head(txq)) /\ txq' = Tail(txq)
            /\ host' = IF Len(got) + 1 = RetLen THEN "done" ELSE host
            /\ UNCHANGED <<rxq, srvVars, base, sent, eoc, image>>

Host == \/ Settle \/ HostSend \/ HostSent \/ ExpectAck \/ ExpectWriteEot \/ Loaded
        \/ ScoopData \/ ExpectReadEot \/ Unscooped \/ WaitEoc \/ ExitCode

Next == Serve \/ Returns \/ (\E b \in OutBytes : Putchar(b))
        \/ Host \/ (\E b \in NoiseBytes : Noise(b))

Spec == Init /\ [][Next]_vars

(* The ROM and the host keep running, and the loaded program returns.      *)
LiveSpec == Spec /\ WF_vars(Serve) /\ WF_vars(Returns) /\ WF_vars(Host)
---------------------------------------------------------------------------
(* The host never receives another byte than the one it expects, and the   *)
(* server never sees an unknown command, whatever values the data take.    *)
InStep == host # "fatal" /\ srv # "error"

(* When the host has an EOT for every block, memory holds the section:     *)
(* nothing is lost or doubled between blocks, and an empty last block is   *)
(* harmless.                                                               *)
SectionLoaded ==
  host \in {"loaded", "read", "r_ack", "r_data", "exec", "e_ack", "running"} =>
    \A k \in 1 .. Len(image) : mem[k - 1] = image[k]

(* Between two commands both FIFOs are empty and the server is waiting, so *)
(* no byte of one command can be taken for part of the next.               *)
QuietBetweenCommands ==
  host \in {"write", "read", "exec", "loaded"} /\ sent = <<>> =>
    srv = "cmd" /\ rxq = <<>> /\ txq = <<>>

(* What the host receives is what it asked for: READ returns what WRITE has *)
(* stored, in order, and the exit code is the program's return value.      *)
HostGetsRight == /\ host = "r_data" => got = SubSeq(image, 1, Len(got))
                 /\ host = "done" => got = retval

(* A host that starts once the UART is initialised gets its exit code.     *)
Completes == <>(host = "done")
===========================================================================
