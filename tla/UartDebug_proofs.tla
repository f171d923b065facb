-------------------------- MODULE UartDebug_proofs --------------------------
(***************************************************************************)
(* Proofs about the UART debug protocol, for any sections, block and FIFO  *)
(* sizes, data and return values.                                          *)
(*                                                                         *)
(* Nothing but its position tells what a byte is, so the invariant says    *)
(* for each phase of the protocol what the two FIFOs carry: the part of    *)
(* the host's message that the server has not taken yet, and the part of   *)
(* the server's answer that the host has not taken yet.                    *)
(***************************************************************************)
EXTENDS UartDebug, SequenceTheorems, TLAPS

Symbols == NoiseBytes \cup DataBytes \cup OutBytes \cup RetBytes \cup Nat

UartType ==
  /\ rxq \in Seq(Symbols) /\ txq \in Seq(Symbols)
  /\ sent \in Seq(Symbols) /\ got \in Seq(Symbols)
  /\ image \in Images /\ mem \in [0 .. Len(image) -> DataBytes]
  /\ i \in Nat /\ base \in Nat /\ eoc \in BOOLEAN

(* q carries the members of m after the a-th, up to the b-th.              *)
Carries(q, m, a, b) ==
  /\ a \in Nat /\ b \in Nat /\ a <= b
  /\ q \in Seq(Symbols) /\ Len(q) = b - a /\ \A j \in 1 .. b - a : q[j] = m[a + j]

LoadedUpTo(k) == \A j \in 1 .. k : mem[j - 1] = image[j]

WriteCmd == <<kUartDebugCmdWrite, base, Len(Block)>>
ReadCmd == <<kUartDebugCmdRead, Entry, Len(image)>>
ExecCmd == <<kUartDebugCmdExec, Entry>>
WriteAnswer == <<kUartDebugAck, kUartDebugEot>>
ReadAnswer == [j \in 1 .. Len(image) + 2 |->
                 IF j = 1 THEN kUartDebugAck
                 ELSE IF j = Len(image) + 2 THEN kUartDebugEot ELSE image[j - 1]]

(* How much of a message of length n the host has sent, in state h or      *)
(* after it.                                                               *)
SentIn(h, n) == IF host = h THEN Len(sent) ELSE n

Settling == /\ host = "settle" /\ srv \in {"init", "check"}
            /\ rxq \in Seq(NoiseBytes) /\ txq = <<>> /\ sent = <<>> /\ base = 0

Challenged ==
  \/ srv = "check" /\ txq = <<>> /\ rxq # <<>> /\ rxq[Len(rxq)] = kUartDebugAck
       /\ \A j \in 1 .. Len(rxq) - 1 : rxq[j] \in NoiseBytes
  \/ srv = "welcome" /\ txq = <<>> /\ rxq = <<>>
  \/ srv = "cmd" /\ txq = <<kUartDebugAck>> /\ rxq = <<>>

Challenging ==
  /\ base = 0
  /\ \/ host = "challenge" /\ sent = <<>> /\ srv = "check" /\ rxq \in Seq(NoiseBytes) /\ txq = <<>>
     \/ host = "challenge" /\ Len(sent) = 1 /\ Challenged
     \/ host = "challenge_ack" /\ sent = <<>> /\ Challenged

(* A write command, and the block after it; the answer to an empty block   *)
(* may come before the host has left the command.                          *)
WriteCommand ==
  LET s == SentIn("write", 3) IN
  /\ host \in {"write", "w_ack"} /\ base <= Len(image) /\ LoadedUpTo(base)
  /\ host = "w_ack" => sent = <<>>
  /\ s <= 3
  /\ \/ srv = "cmd" /\ Carries(rxq, WriteCmd, 0, s) /\ Carries(txq, WriteAnswer, 0, 0)
     \/ srv = "w_addr" /\ Carries(rxq, WriteCmd, 1, s) /\ Carries(txq, WriteAnswer, 0, 0)
     \/ srv = "w_len" /\ addr = base
        /\ Carries(rxq, WriteCmd, 2, s) /\ Carries(txq, WriteAnswer, 0, 0)
     \/ srv = "w_ack" /\ addr = base /\ len = Len(Block) /\ i = 0
        /\ Carries(rxq, WriteCmd, 3, s) /\ Carries(txq, WriteAnswer, 0, 0)
     \/ srv = "w_data" /\ addr = base /\ len = Len(Block) /\ i = 0
        /\ Carries(rxq, WriteCmd, 3, s) /\ Carries(txq, WriteAnswer, 0, 1)
     \/ srv = "cmd" /\ Len(Block) = 0
        /\ Carries(rxq, WriteCmd, 3, s) /\ Carries(txq, WriteAnswer, 0, 2)

WriteBlock ==
  LET s == SentIn("w_data", Len(Block)) IN
  /\ host \in {"w_data", "w_eot"} /\ base <= Len(image)
  /\ host = "w_eot" => sent = <<>>
  /\ s <= Len(Block)
  /\ \/ srv = "w_data" /\ addr = base /\ len = Len(Block) /\ LoadedUpTo(base + i)
        /\ Carries(rxq, Block, i, s) /\ Carries(txq, WriteAnswer, 1, 1)
     \/ srv = "cmd" /\ LoadedUpTo(base + Len(Block))
        /\ Carries(rxq, Block, Len(Block), s) /\ Carries(txq, WriteAnswer, 1, 2)

AllLoaded == /\ host = "loaded" /\ srv = "cmd" /\ sent = <<>>
             /\ rxq = <<>> /\ txq = <<>> /\ LoadedUpTo(Len(image))

ReadCommand ==
  LET s == SentIn("read", 3) IN
  /\ host \in {"read", "r_ack"} /\ LoadedUpTo(Len(image))
  /\ host = "r_ack" => sent = <<>> /\ got = <<>>
  /\ s <= 3
  /\ \/ srv = "cmd" /\ Carries(rxq, ReadCmd, 0, s) /\ Carries(txq, ReadAnswer, 0, 0)
     \/ srv = "r_addr" /\ Carries(rxq, ReadCmd, 1, s) /\ Carries(txq, ReadAnswer, 0, 0)
     \/ srv = "r_len" /\ addr = Entry
        /\ Carries(rxq, ReadCmd, 2, s) /\ Carries(txq, ReadAnswer, 0, 0)
     \/ srv = "r_ack" /\ addr = Entry /\ len = Len(image) /\ i = 0
        /\ Carries(rxq, ReadCmd, 3, s) /\ Carries(txq, ReadAnswer, 0, 0)
     \/ srv = "r_data" /\ addr = Entry /\ len = Len(image) /\ i <= len
        /\ Carries(rxq, ReadCmd, 3, s) /\ Carries(txq, ReadAnswer, 0, i + 1)
     \/ srv = "cmd" /\ Carries(rxq, ReadCmd, 3, s) /\ Carries(txq, ReadAnswer, 0, Len(image) + 2)

ReadBlock ==
  /\ host = "r_data" /\ LoadedUpTo(Len(image)) /\ rxq = <<>> /\ sent = <<>>
  /\ Carries(got, image, 0, Len(got)) /\ Len(got) <= Len(image)
  /\ \/ srv = "r_data" /\ addr = Entry /\ len = Len(image) /\ i <= len
        /\ Carries(txq, ReadAnswer, Len(got) + 1, i + 1)
     \/ srv = "cmd" /\ Carries(txq, ReadAnswer, Len(got) + 1, Len(image) + 2)

(* The program runs, or the server is ending after it; the last i bytes of *)
(* its return value are on their way.                                      *)
ProgramRuns ==
  \/ srv = "exec"
  \/ srv = "eoc" /\ i = 0 /\ retval \in [1 .. RetLen -> RetBytes]
  \/ srv = "ret" /\ i < RetLen /\ retval \in [1 .. RetLen -> RetBytes]
  \/ srv = "end" /\ i = RetLen /\ retval \in [1 .. RetLen -> RetBytes]

(* After the o-th byte: what the program prints, the EOC and the bytes of  *)
(* the return value up to the i-th.                                        *)
Output(o) ==
  LET eot == IF srv \in {"ret", "end"} THEN Len(txq) - i ELSE Len(txq) + 1 IN
  /\ eot > o /\ \A j \in o + 1 .. eot - 1 : txq[j] \in OutBytes
  /\ srv \in {"ret", "end"} => /\ txq[eot] = kUartDebugEoc
                               /\ \A j \in 1 .. i : txq[eot + j] = retval[j]

ExecCommand ==
  LET s == SentIn("exec", 2) IN
  /\ host \in {"exec", "e_ack"} /\ LoadedUpTo(Len(image))
  /\ host = "e_ack" => sent = <<>>
  /\ s <= 2
  /\ \/ srv = "cmd" /\ Carries(rxq, ExecCmd, 0, s) /\ txq = <<>>
     \/ srv = "e_addr" /\ Carries(rxq, ExecCmd, 1, s) /\ txq = <<>>
     \/ srv = "e_ack" /\ Carries(rxq, ExecCmd, 2, s) /\ txq = <<>>
     \/ /\ ProgramRuns /\ Carries(rxq, ExecCmd, 2, s)
        /\ txq # <<>> /\ txq[1] = kUartDebugAck /\ Output(1)

Running ==
  /\ host = "running" /\ LoadedUpTo(Len(image)) /\ rxq = <<>> /\ sent = <<>>
  /\ ProgramRuns
  /\ IF eoc THEN srv \in {"ret", "end"} /\ Carries(txq, retval, 0, i) ELSE Output(0)

ReadingCode ==
  /\ host = "exit_code" /\ rxq = <<>> /\ sent = <<>>
  /\ ProgramRuns /\ srv \in {"ret", "end"}
  /\ Len(got) < RetLen /\ Carries(got, retval, 0, Len(got)) /\ Carries(txq, retval, Len(got), i)

Done == /\ host = "done" /\ srv = "end" /\ rxq = <<>> /\ txq = <<>>
        /\ sent = <<>> /\ got = retval

Phase == \/ Settling \/ Challenging \/ WriteCommand \/ WriteBlock \/ AllLoaded
         \/ ReadCommand \/ ReadBlock \/ ExecCommand \/ Running \/ ReadingCode \/ Done

UartInv == UartType /\ (eoc => host = "running") /\ Phase
---------------------------------------------------------------------------
(* A FIFO of which the whole message has been taken is empty.              *)
LEMMA CarriesBounds ==
  ASSUME NEW q, NEW m, NEW a, NEW b, Carries(q, m, a, b)
  PROVE  a \in Nat /\ b \in Nat /\ a <= b /\ (q = <<>> <=> a = b)
BY DEF Carries

(* The server takes the next byte of what the host has sent.               *)
LEMMA ServerTakes ==
  ASSUME UartType, NEW l, Pop(l), NEW m, NEW a \in Nat, NEW b \in Nat, Carries(rxq, m, a, b)
  PROVE  a < b /\ Byte = m[a + 1] /\ Carries(rxq', m, a + 1, b)
<1>1. rxq \in Seq(Symbols) /\ rxq # <<>> /\ rxq' = Tail(rxq)
  BY DEF UartType, Pop
<1> QED
  BY <1>1, HeadTailProperties DEF Carries, Byte

(* A FIFO to which the next byte is appended.                              *)
LEMMA AppendCarries ==
  ASSUME NEW q, NEW r, NEW x \in Symbols, r = Append(q, x),
         NEW m, NEW a \in Nat, NEW b \in Nat, Carries(q, m, a, b), x = m[b + 1]
  PROVE  Carries(r, m, a, b + 1)
BY DEF Carries

(* The server answers with the next byte.                                  *)
LEMMA ServerAnswers ==
  ASSUME NEW l, NEW x \in Symbols, Push(l, x), NEW m, NEW a \in Nat, NEW b \in Nat,
         Carries(txq, m, a, b), x = m[b + 1]
  PROVE  Carries(txq', m, a, b + 1)
BY DEF Carries, Push

(* The host appends the next byte of its message.                          *)
LEMMA HostSends ==
  ASSUME UartType, HostSend, NEW m, m = Message, NEW a \in Nat, NEW n \in Nat, n = Len(sent),
         Carries(rxq, m, a, n), \A j \in 1 .. Len(m) : m[j] \in Symbols
  PROVE  n < Len(m) /\ Len(sent') = n + 1 /\ Carries(rxq', m, a, n + 1)
<1>1. n < Len(m)
  BY DEF HostSend
<1>2. m[n + 1] \in Symbols
  BY <1>1
<1>3. PICK x \in Symbols : x = m[n + 1] /\ rxq' = Append(rxq, x) /\ sent' = Append(sent, x)
  BY <1>2 DEF HostSend
<1>4. Carries(rxq', m, a, n + 1)
  BY <1>3, AppendCarries
<1>5. Len(sent') = n + 1
  BY <1>3 DEF UartType
<1> QED
  BY <1>1, <1>4, <1>5

(* The host takes the next byte of the answer, which it expects.           *)
LEMMA HostTakes ==
  ASSUME UartType, NEW h, NEW x, NEW next, Expect(h, x, next),
         NEW m, NEW a \in Nat, NEW b \in Nat, Carries(txq, m, a, b)
  PROVE  /\ a < b /\ Carries(txq', m, a + 1, b)
         /\ m[a + 1] = x => host' = next
<1>1. txq \in Seq(Symbols) /\ txq # <<>> /\ txq' = Tail(txq)
      /\ (Head(txq) = x => host' = next)
  BY DEF UartType, Expect
<1>2. a < b /\ Head(txq) = m[a + 1]
  BY <1>1, HeadTailProperties DEF Carries
<1>3. Carries(txq', m, a + 1, b)
  BY <1>1, <1>2, HeadTailProperties DEF Carries
<1> QED
  BY <1>1, <1>2, <1>3

Scooped == txq # <<>> /\ txq' = Tail(txq)

(* The host takes the next byte of the answer, whatever it is.             *)
LEMMA HostScoops ==
  ASSUME UartType, Scooped, NEW m, NEW a \in Nat, NEW b \in Nat, Carries(txq, m, a, b)
  PROVE  a < b /\ Head(txq) = m[a + 1] /\ Head(txq) \in Symbols /\ Carries(txq', m, a + 1, b)
<1>1. txq \in Seq(Symbols) /\ txq # <<>> /\ txq' = Tail(txq)
  BY DEF UartType, Scooped
<1> QED
  BY <1>1, HeadTailProperties DEF Carries

(* An empty FIFO carries nothing, of any message.                          *)
LEMMA NothingCarries ==
  ASSUME NEW m, NEW a \in Nat
  PROVE  Carries(<<>>, m, a, a)
BY EmptySeq DEF Carries

(* The three commands, told apart by their opcodes.                        *)
LEMMA CommandStep ==
  ASSUME Command
  PROVE  /\ Pop("cmd")
         /\ Byte = kUartDebugCmdRead => srv' = "r_addr"
         /\ Byte = kUartDebugCmdWrite => srv' = "w_addr"
         /\ Byte = kUartDebugCmdExec => srv' = "e_addr"
         /\ txq' = txq /\ addr' = addr /\ len' = len /\ i' = i /\ mem' = mem /\ retval' = retval
<1>1. /\ kUartDebugCmdRead # kUartDebugCmdWrite /\ kUartDebugCmdRead # kUartDebugCmdExec
      /\ kUartDebugCmdWrite # kUartDebugCmdExec
  BY DEF kUartDebugCmdRead, kUartDebugCmdWrite, kUartDebugCmdExec
<1>2. /\ Byte = kUartDebugCmdRead => srv' = "r_addr"
      /\ Byte = kUartDebugCmdWrite => srv' = "w_addr"
      /\ Byte = kUartDebugCmdExec => srv' = "e_addr"
  BY <1>1, Zenon DEF Command
<1> QED
  BY <1>2 DEF Command

(* What the host sends in each state.                                      *)
LEMMA MessageFacts ==
  /\ host = "challenge" => Message = <<kUartDebugAck>>
  /\ host = "write" => Message = WriteCmd
  /\ host = "w_data" => Message = Block
  /\ host = "read" => Message = ReadCmd
  /\ host = "exec" => Message = ExecCmd
BY Zenon DEF Message, WriteCmd, ReadCmd, ExecCmd

(* The control bytes are symbols of the line.                              *)
LEMMA CodesAreSymbols ==
  kUartDebugAck \in Symbols /\ kUartDebugEot \in Symbols /\ kUartDebugEoc \in Symbols
BY DEF Symbols, kUartDebugAck, kUartDebugEot, kUartDebugEoc

(* The members of the commands and the answers.                            *)
LEMMA CommandFacts ==
  /\ WriteCmd[1] = kUartDebugCmdWrite /\ WriteCmd[2] = base /\ WriteCmd[3] = Len(Block)
  /\ ReadCmd[1] = kUartDebugCmdRead /\ ReadCmd[2] = Entry /\ ReadCmd[3] = Len(image)
  /\ ExecCmd[1] = kUartDebugCmdExec /\ ExecCmd[2] = Entry
  /\ WriteAnswer[1] = kUartDebugAck /\ WriteAnswer[2] = kUartDebugEot
BY DEF WriteCmd, ReadCmd, ExecCmd, WriteAnswer

(* The answer to a read command: the section, between ACK and EOT.         *)
LEMMA ReadAnswerFacts ==
  ASSUME UartType
  PROVE  /\ Len(image) \in Nat
         /\ ReadAnswer[1] = kUartDebugAck /\ ReadAnswer[Len(image) + 2] = kUartDebugEot
         /\ \A j \in 1 .. Len(image) :
              ReadAnswer[j + 1] = image[j] /\ image[j] \in DataBytes /\ image[j] \in Symbols
<1>1. image \in Seq(DataBytes) /\ Len(image) \in Nat
  BY ImagesAssumption DEF UartType
<1> QED
  BY <1>1 DEF ReadAnswer, Symbols

(* The step of the server in each of its states.                           *)
LEMMA ServerStep ==
  ASSUME Serve
  PROVE  /\ srv = "init" => UartInit
         /\ srv = "check" => Check
         /\ srv = "welcome" => Welcome
         /\ srv = "cmd" => Command
         /\ srv = "r_addr" => Address("r_addr", "r_len")
         /\ srv = "r_len" => Length("r_len", "r_ack")
         /\ srv = "r_ack" => Reply("r_ack", kUartDebugAck, "r_data")
         /\ srv = "r_data" => ReadData \/ EndOfData("r_data")
         /\ srv = "w_addr" => Address("w_addr", "w_len")
         /\ srv = "w_len" => Length("w_len", "w_ack")
         /\ srv = "w_ack" => Reply("w_ack", kUartDebugAck, "w_data")
         /\ srv = "w_data" => WriteData \/ EndOfData("w_data")
         /\ srv = "e_addr" => Address("e_addr", "e_ack")
         /\ srv = "e_ack" => Reply("e_ack", kUartDebugAck, "exec")
         /\ srv = "eoc" => Reply("eoc", kUartDebugEoc, "ret")
         /\ srv = "ret" => ReturnByte
         /\ srv \notin {"exec", "end", "error"}
<1>1. /\ UartInit => srv = "init"
      /\ Check => srv = "check"
      /\ Welcome => srv = "welcome"
      /\ Command => srv = "cmd"
      /\ ReadData => srv = "r_data"
      /\ WriteData => srv = "w_data"
      /\ ReturnByte => srv = "ret"
  BY DEF UartInit, Check, Welcome, Command, ReadData, WriteData, ReturnByte, Pop, Push
<1>2. \A l, next : Address(l, next) \/ Length(l, next) => srv = l
  BY DEF Address, Length, Pop
<1>3. \A l, b, next : Reply(l, b, next) => srv = l
  BY DEF Reply, Push
<1>4. \A l : EndOfData(l) => srv = l
  BY <1>3 DEF EndOfData
<1> QED
  BY <1>1, <1>2, <1>3, <1>4 DEF Serve

(* The step of the host in each of its states.                             *)
LEMMA HostStep ==
  ASSUME Host
  PROVE  /\ host = "settle" => Settle
         /\ host \in {"challenge", "write", "w_data", "read", "exec"} => HostSend \/ HostSent
         /\ host = "challenge_ack" => Expect("challenge_ack", kUartDebugAck, "write")
         /\ host = "w_ack" => Expect("w_ack", kUartDebugAck, "w_data")
         /\ host = "r_ack" => Expect("r_ack", kUartDebugAck, "r_data")
         /\ host = "e_ack" => Expect("e_ack", kUartDebugAck, "running")
         /\ host \in {"challenge_ack", "w_ack", "r_ack", "e_ack"} => base' = base /\ got' = got
         /\ host = "w_eot" => ExpectWriteEot
         /\ host = "loaded" => Loaded
         /\ host = "r_data" => ScoopData \/ ExpectReadEot
         /\ host = "running" => Unscooped \/ WaitEoc
         /\ host = "exit_code" => ExitCode
         /\ host # "done"
<1>1. /\ Settle => host = "settle"
      /\ Loaded => host = "loaded"
      /\ ScoopData => host = "r_data"
      /\ Unscooped \/ WaitEoc => host = "running"
      /\ ExitCode => host = "exit_code"
  BY DEF Settle, Loaded, ScoopData, Unscooped, WaitEoc, ExitCode
<1>2. \A h, x, next : Expect(h, x, next) => host = h
  BY DEF Expect
<1>3. HostSend \/ HostSent => host \in {"challenge", "write", "w_data", "read", "exec"}
  BY DEF HostSend, HostSent, Sending, AwaitAfter
<1>4. ExpectAck => /\ base' = base /\ got' = got
                   /\ \/ Expect("challenge_ack", kUartDebugAck, "write")
                      \/ Expect("w_ack", kUartDebugAck, "w_data")
                      \/ Expect("r_ack", kUartDebugAck, "r_data")
                      \/ Expect("e_ack", kUartDebugAck, "running")
  BY DEF ExpectAck
<1>5. (ExpectWriteEot => host = "w_eot") /\ (ExpectReadEot => host = "r_data")
  BY <1>2 DEF ExpectWriteEot, ExpectReadEot
<1> QED
  BY <1>1, <1>2, <1>3, <1>4, <1>5 DEF Host

(* The state that a step of the server leaves alone.                       *)
LEMMA ServerKeeps ==
  ASSUME Serve \/ Returns \/ (\E b \in OutBytes : Putchar(b))
  PROVE  /\ host' = host /\ image' = image /\ base' = base
         /\ sent' = sent /\ got' = got /\ eoc' = eoc
         /\ Block' = Block /\ WriteCmd' = WriteCmd /\ ReadCmd' = ReadCmd
         /\ ReadAnswer' = ReadAnswer
<1>1. UNCHANGED hostVars
  BY DEF Serve, Returns, Putchar, UartInit, Check, Welcome, Command, Address, Length, Reply,
    ReadData, WriteData, EndOfData, ReturnByte, ProgramReturns
<1> QED
  BY <1>1 DEF hostVars, Block, WriteCmd, ReadCmd, ReadAnswer

(* And a step of the host.                                                 *)
LEMMA HostKeeps ==
  ASSUME Host
  PROVE  /\ UNCHANGED srvVars /\ image' = image
         /\ ReadCmd' = ReadCmd /\ ReadAnswer' = ReadAnswer
         /\ base' = base => Block' = Block /\ WriteCmd' = WriteCmd
<1>1. UNCHANGED <<srvVars, image>>
  BY DEF Host, Settle, HostSend, HostSent, ExpectAck, ExpectWriteEot, Loaded, ScoopData,
    ExpectReadEot, Unscooped, WaitEoc, ExitCode, Expect
<1> QED
  BY <1>1 DEF Block, WriteCmd, ReadCmd, ReadAnswer

(* The block that starts at base.                                          *)
LEMMA BlockFacts ==
  ASSUME UartType, base <= Len(image)
  PROVE  /\ Len(image) \in Nat /\ image \in Seq(DataBytes)
         /\ Len(Block) \in Nat /\ base + Len(Block) <= Len(image)
         /\ \A j \in 1 .. Len(Block) : Block[j] = image[base + j] /\ Block[j] \in DataBytes
         /\ base + UartBurstBytes <= Len(image) => Len(Block) = UartBurstBytes
         /\ base + UartBurstBytes > Len(image) => Len(Block) = Len(image) - base
<1>1. image \in Seq(DataBytes) /\ Len(image) \in Nat /\ UartBurstBytes \in Nat \ {0}
  BY ImagesAssumption, SizeAssumption DEF UartType
<1>2. PICK e \in Nat : /\ Block = SubSeq(image, base + 1, e) /\ base <= e /\ e <= Len(image)
                       /\ base + UartBurstBytes <= Len(image) => e = base + UartBurstBytes
                       /\ base + UartBurstBytes > Len(image) => e = Len(image)
  <2>1. base \in Nat
    BY DEF UartType
  <2>2. CASE base + UartBurstBytes <= Len(image)
    <3>1. base + UartBurstBytes \in Nat
      BY <1>1, <2>1
    <3>2. Block = SubSeq(image, base + 1, base + UartBurstBytes)
      BY <2>2 DEF Block
    <3> QED
      BY <1>1, <2>1, <2>2, <3>1, <3>2
  <2>3. CASE ~ (base + UartBurstBytes <= Len(image))
    <3>1. Block = SubSeq(image, base + 1, Len(image))
      BY <2>3 DEF Block
    <3> QED
      BY <1>1, <2>1, <2>3, <3>1
  <2> QED
    BY <2>2, <2>3
<1>3. base \in Nat /\ e \in Nat /\ base <= e /\ e <= Len(image)
  BY <1>2 DEF UartType
<1>4. Len(Block) = e - base /\ \A j \in 1 .. e - base : Block[j] = image[base + j]
  BY <1>1, <1>2, <1>3
<1>5. \A j \in 1 .. e - base : image[base + j] \in DataBytes
  BY <1>1, <1>3, ElementOfSeq
<1>6. Len(Block) \in Nat /\ base + Len(Block) <= Len(image)
  BY <1>1, <1>3, <1>4
<1>7. /\ base + UartBurstBytes <= Len(image) => Len(Block) = UartBurstBytes
      /\ base + UartBurstBytes > Len(image) => Len(Block) = Len(image) - base
  BY <1>1, <1>2, <1>3, <1>4
<1> QED
  BY <1>1, <1>4, <1>5, <1>6, <1>7

(* The server's steps during a write command.                              *)
LEMMA WriteCommandServed ==
  ASSUME UartType, WriteCommand, Serve
  PROVE  WriteCommand'
<1> DEFINE s == SentIn("write", 3)
<1>1. /\ base' = base /\ image' = image /\ host' = host /\ sent' = sent
      /\ WriteCmd' = WriteCmd /\ Block' = Block
  BY ServerKeeps
<1>2. s' = s
  BY <1>1 DEF SentIn
<1>3. s \in Nat
  BY CarriesBounds DEF WriteCommand
<1>4. mem' = mem => LoadedUpTo(base)'
  BY <1>1 DEF WriteCommand, LoadedUpTo
<1> HIDE DEF s
<1>5. CASE srv = "cmd"
  <2>1. Command
    BY <1>5, ServerStep
  <2>2. Carries(rxq, WriteCmd, 0, s) /\ Carries(txq, WriteAnswer, 0, 0)
    BY <1>5, <2>1, CommandStep, CarriesBounds DEF WriteCommand, Pop, s
  <2>3. Byte = WriteCmd[1] /\ Carries(rxq', WriteCmd, 1, s)
    BY <1>3, <2>1, <2>2, CommandStep, ServerTakes
  <2>4. srv' = "w_addr" /\ txq' = txq /\ mem' = mem
    BY <2>1, <2>3, CommandFacts, CommandStep
  <2> QED
    BY <1>1, <1>2, <1>4, <2>2, <2>3, <2>4 DEF WriteCommand, s
<1>6. CASE srv = "w_addr"
  <2>1. Address("w_addr", "w_len")
    BY <1>6, ServerStep
  <2>2. Pop("w_addr") /\ addr' = Byte /\ srv' = "w_len" /\ txq' = txq /\ mem' = mem
    BY <2>1 DEF Address
  <2>3. Carries(rxq, WriteCmd, 1, s) /\ Carries(txq, WriteAnswer, 0, 0)
    BY <1>6 DEF WriteCommand, s
  <2>4. Byte = WriteCmd[2] /\ Carries(rxq', WriteCmd, 2, s)
    BY <1>3, <2>2, <2>3, ServerTakes
  <2> QED
    BY <1>1, <1>2, <1>4, <2>2, <2>3, <2>4, CommandFacts DEF WriteCommand, s
<1>7. CASE srv = "w_len"
  <2>1. Length("w_len", "w_ack")
    BY <1>7, ServerStep
  <2>2. /\ Pop("w_len") /\ len' = Byte /\ i' = 0 /\ srv' = "w_ack"
        /\ txq' = txq /\ mem' = mem /\ addr' = addr
    BY <2>1 DEF Length
  <2>3. addr = base /\ Carries(rxq, WriteCmd, 2, s) /\ Carries(txq, WriteAnswer, 0, 0)
    BY <1>7 DEF WriteCommand, s
  <2>4. Byte = WriteCmd[3] /\ Carries(rxq', WriteCmd, 3, s)
    BY <1>3, <2>2, <2>3, ServerTakes
  <2> QED
    BY <1>1, <1>2, <1>4, <2>2, <2>3, <2>4, CommandFacts DEF WriteCommand, s
<1>8. CASE srv = "w_ack"
  <2>1. Reply("w_ack", kUartDebugAck, "w_data")
    BY <1>8, ServerStep
  <2>2. /\ Push("w_ack", kUartDebugAck) /\ srv' = "w_data" /\ rxq' = rxq
        /\ mem' = mem /\ addr' = addr /\ len' = len /\ i' = i
    BY <2>1 DEF Reply
  <2>3. /\ addr = base /\ len = Len(Block) /\ i = 0
        /\ Carries(rxq, WriteCmd, 3, s) /\ Carries(txq, WriteAnswer, 0, 0)
    BY <1>8 DEF WriteCommand, s
  <2>4. kUartDebugAck = WriteAnswer[0 + 1]
    BY CommandFacts
  <2>5. Carries(txq', WriteAnswer, 0, 1)
    BY <2>2, <2>3, <2>4, ServerAnswers, CodesAreSymbols
  <2> QED
    BY <1>1, <1>2, <1>4, <2>2, <2>3, <2>5 DEF WriteCommand, s
<1>9. CASE srv = "w_data"
  <2>1. /\ addr = base /\ len = Len(Block) /\ i = 0
        /\ Carries(rxq, WriteCmd, 3, s) /\ Carries(txq, WriteAnswer, 0, 1) /\ s <= 3
    BY <1>9 DEF WriteCommand, s
  <2>2. rxq = <<>>
    BY <1>3, <2>1, CarriesBounds
  <2>3. EndOfData("w_data")
    BY <1>9, <2>2, ServerStep DEF WriteData, Pop
  <2>4. /\ Push("w_data", kUartDebugEot) /\ srv' = "cmd" /\ rxq' = rxq /\ mem' = mem /\ i = len
    BY <2>3 DEF EndOfData, Reply
  <2>5. Carries(txq', WriteAnswer, 0, 2)
    BY <2>1, <2>4, ServerAnswers, CommandFacts, CodesAreSymbols
  <2> QED
    BY <1>1, <1>2, <1>4, <2>1, <2>4, <2>5 DEF WriteCommand, s
<1> QED
  BY <1>5, <1>6, <1>7, <1>8, <1>9 DEF WriteCommand

(* The host's steps during a write command.                                *)
LEMMA WriteCommandHosted ==
  ASSUME UartType, WriteCommand, Host
  PROVE  WriteCommand' \/ WriteBlock'
<1> DEFINE s == SentIn("write", 3)
<1>1. /\ srv' = srv /\ addr' = addr /\ len' = len /\ i' = i /\ mem' = mem /\ image' = image
      /\ base' = base => Block' = Block /\ WriteCmd' = WriteCmd
  BY HostKeeps DEF srvVars
<1>2. s \in Nat /\ s <= 3
  BY CarriesBounds DEF WriteCommand
<1>3. base' = base => LoadedUpTo(base)'
  BY <1>1 DEF WriteCommand, LoadedUpTo
<1>4. Len(WriteCmd) = 3 /\ \A j \in 1 .. 3 : WriteCmd[j] \in Symbols
  <2>1. base \in Nat /\ Len(Block) \in Nat
    BY BlockFacts DEF WriteCommand, UartType
  <2>2. Nat \subseteq Symbols /\ kUartDebugCmdWrite \in Nat
    BY DEF Symbols, kUartDebugCmdWrite
  <2> QED
    BY <2>1, <2>2 DEF WriteCmd
<1> HIDE DEF s
<1>5. CASE host = "write" /\ HostSend
  <2>1. base' = base /\ host' = host /\ txq' = txq /\ s = Len(sent)
    BY <1>5 DEF HostSend, SentIn, s
  <2>2. WriteCmd = Message
    BY <1>5, MessageFacts
  <2>3. \A k \in Nat : Carries(rxq, WriteCmd, k, s) =>
          s < 3 /\ Len(sent') = s + 1 /\ Carries(rxq', WriteCmd, k, s + 1)
    BY <1>2, <1>4, <1>5, <2>1, <2>2, HostSends
  <2>4. PICK k \in 0 .. 3 : Carries(rxq, WriteCmd, k, s)
    BY DEF WriteCommand, s
  <2>5. s < 3 /\ s' = s + 1
    BY <1>5, <2>1, <2>3, <2>4 DEF SentIn, s
  <2> QED
    BY <1>1, <1>2, <1>3, <1>5, <2>1, <2>3, <2>5, CarriesBounds DEF WriteCommand, s
<1>6. CASE host = "write" /\ HostSent
  <2>1. sent = WriteCmd /\ sent' = <<>> /\ UNCHANGED <<rxq, txq, base>>
    BY <1>6, MessageFacts DEF HostSent
  <2>2. host' = "w_ack"
    BY <1>6 DEF HostSent, AwaitAfter
  <2>3. s = 3 /\ s' = 3
    BY <1>4, <1>6, <2>1, <2>2 DEF SentIn, s
  <2> QED
    BY <1>1, <1>3, <2>1, <2>2, <2>3 DEF WriteCommand, s
<1>7. CASE host = "w_ack"
  <2>1. Expect("w_ack", kUartDebugAck, "w_data") /\ base' = base
    BY <1>7, HostStep
  <2>2. txq # <<>> /\ UNCHANGED <<rxq, sent>>
    BY <2>1 DEF Expect
  <2>3. s = 3 /\ sent = <<>> /\ base <= Len(image) /\ LoadedUpTo(base) /\ base \in Nat
    BY <1>7 DEF WriteCommand, SentIn, s, UartType
  <2>4. \A b \in Nat : Carries(txq, WriteAnswer, 0, b) =>
          host' = "w_data" /\ Carries(txq', WriteAnswer, 1, b)
    BY <2>1, HostTakes, CommandFacts
  <2>5. CASE srv = "w_data"
    <3>1. /\ addr = base /\ len = Len(Block) /\ i = 0
          /\ Carries(rxq, WriteCmd, 3, 3) /\ Carries(txq, WriteAnswer, 0, 1)
      BY <2>3, <2>5 DEF WriteCommand, s
    <3>2. rxq' = <<>> /\ Carries(rxq', Block, 0, 0)
      BY <2>2, <3>1, CarriesBounds, NothingCarries
    <3>3. LoadedUpTo(base + i)'
      BY <1>1, <2>1, <2>3, <3>1 DEF LoadedUpTo
    <3>4. SentIn("w_data", Len(Block))' = 0
      BY <2>2, <2>3, <2>4, <3>1 DEF SentIn
    <3> QED
      BY <1>1, <2>1, <2>2, <2>3, <2>4, <2>5, <3>1, <3>2, <3>3, <3>4, BlockFacts DEF WriteBlock
  <2>6. CASE srv = "cmd"
    <3>1. /\ Len(Block) = 0
          /\ Carries(rxq, WriteCmd, 3, 3) /\ Carries(txq, WriteAnswer, 0, 2)
      BY <2>2, <2>3, <2>6, CarriesBounds DEF WriteCommand, s
    <3>2. rxq' = <<>> /\ Carries(rxq', Block, 0, 0)
      BY <2>2, <3>1, CarriesBounds, NothingCarries
    <3>3. LoadedUpTo(base + Len(Block))'
      BY <1>1, <2>1, <2>3, <3>1 DEF LoadedUpTo
    <3>4. SentIn("w_data", Len(Block))' = 0
      BY <2>2, <2>3, <2>4, <3>1 DEF SentIn
    <3> QED
      BY <1>1, <2>1, <2>2, <2>3, <2>4, <2>6, <3>1, <3>2, <3>3, <3>4 DEF WriteBlock
  <2> QED
    BY <2>2, <2>5, <2>6, CarriesBounds DEF WriteCommand
<1> QED
  BY <1>5, <1>6, <1>7, HostStep DEF WriteCommand

(* The server's steps while a block is written.                            *)
LEMMA WriteBlockServed ==
  ASSUME UartType, WriteBlock, Serve
  PROVE  WriteBlock'
<1> DEFINE s == SentIn("w_data", Len(Block))
<1>1. /\ base' = base /\ image' = image /\ host' = host /\ sent' = sent /\ Block' = Block
  BY ServerKeeps
<1>2. s' = s
  BY <1>1 DEF SentIn
<1>3. s \in Nat /\ s <= Len(Block) /\ base \in Nat /\ i \in Nat
  BY CarriesBounds DEF WriteBlock, UartType
<1>4. /\ Len(Block) \in Nat /\ base + Len(Block) <= Len(image) /\ Len(image) \in Nat
      /\ \A j \in 1 .. Len(Block) : Block[j] = image[base + j] /\ Block[j] \in DataBytes
  BY BlockFacts DEF WriteBlock
<1> HIDE DEF s
<1>5. srv = "w_data"
  <2>1. srv \in {"w_data", "cmd"}
    BY DEF WriteBlock
  <2>2. CASE srv = "cmd"
    <3>1. Carries(rxq, Block, Len(Block), s)
      BY <2>2 DEF WriteBlock, s
    <3>2. rxq = <<>>
      BY <1>3, <3>1, CarriesBounds
    <3> QED
      BY <2>2, <3>2, ServerStep, CommandStep DEF Pop
  <2> QED
    BY <2>1, <2>2
<1>6. /\ addr = base /\ len = Len(Block) /\ LoadedUpTo(base + i)
      /\ Carries(rxq, Block, i, s) /\ Carries(txq, WriteAnswer, 1, 1)
  BY <1>5 DEF WriteBlock, s
<1>7. CASE WriteData
  <2>1. /\ i < len /\ Pop("w_data") /\ mem' = [mem EXCEPT ![addr + i] = Byte]
        /\ i' = i + 1 /\ UNCHANGED <<txq, srv, addr, len>>
    BY <1>7 DEF WriteData
  <2>2. Byte = Block[i + 1] /\ Carries(rxq', Block, i + 1, s)
    BY <1>3, <1>6, <2>1, ServerTakes
  <2>3. Byte = image[base + i + 1]
    BY <1>3, <1>4, <1>6, <2>1, <2>2
  <2>4. LoadedUpTo(base + i)'
    <3> SUFFICES ASSUME NEW j \in 1 .. base + i + 1
                 PROVE  mem'[j - 1] = image[j]
      BY <1>1, <1>3, <2>1 DEF LoadedUpTo
    <3>1. mem \in [0 .. Len(image) -> DataBytes] /\ addr + i \in 0 .. Len(image)
      BY <1>3, <1>4, <1>6, <2>1 DEF UartType
    <3>2. CASE j = base + i + 1
      BY <1>3, <1>6, <2>1, <2>3, <3>1, <3>2
    <3>3. CASE j # base + i + 1
      <4>1. j \in 1 .. base + i /\ j - 1 # addr + i /\ j - 1 \in 0 .. Len(image)
        BY <1>3, <1>6, <3>1, <3>3
      <4> QED
        BY <1>6, <2>1, <3>1, <4>1 DEF LoadedUpTo
    <3> QED
      BY <3>2, <3>3
  <2> QED
    BY <1>1, <1>2, <1>5, <1>6, <2>1, <2>2, <2>4 DEF WriteBlock, s
<1>8. CASE EndOfData("w_data")
  <2>1. /\ i = len /\ Push("w_data", kUartDebugEot) /\ srv' = "cmd" /\ UNCHANGED <<rxq, mem>>
    BY <1>8 DEF EndOfData, Reply
  <2>2. kUartDebugEot = WriteAnswer[1 + 1]
    BY CommandFacts
  <2>3. Carries(txq', WriteAnswer, 1, 2)
    BY <1>6, <2>1, <2>2, ServerAnswers, CodesAreSymbols
  <2>4. LoadedUpTo(base + Len(Block))'
    BY <1>1, <1>6, <2>1 DEF LoadedUpTo
  <2> QED
    BY <1>1, <1>2, <1>6, <2>1, <2>3, <2>4 DEF WriteBlock, s
<1> QED
  BY <1>5, <1>7, <1>8, ServerStep

(* The host's steps while a block is written.                              *)
LEMMA WriteBlockHosted ==
  ASSUME UartType, WriteBlock, Host
  PROVE  WriteBlock' \/ WriteCommand' \/ AllLoaded'
<1> DEFINE s == SentIn("w_data", Len(Block))
<1>1. /\ srv' = srv /\ addr' = addr /\ len' = len /\ i' = i /\ mem' = mem /\ image' = image
      /\ base' = base => Block' = Block
  BY HostKeeps DEF srvVars
<1>2. s \in Nat /\ s <= Len(Block) /\ base \in Nat /\ i \in Nat /\ base <= Len(image)
  BY CarriesBounds DEF WriteBlock, UartType
<1>3. /\ Len(Block) \in Nat /\ base + Len(Block) <= Len(image) /\ Len(image) \in Nat
      /\ \A j \in 1 .. Len(Block) : Block[j] \in Symbols
  BY BlockFacts DEF WriteBlock, Symbols
<1>4. /\ base' = base /\ srv = "w_data" => LoadedUpTo(base + i)'
      /\ base' = base /\ srv = "cmd" => LoadedUpTo(base + Len(Block))'
  BY <1>1 DEF WriteBlock, LoadedUpTo
<1> HIDE DEF s
<1>5. CASE host = "w_data" /\ HostSend
  <2>1. base' = base /\ host' = host /\ txq' = txq /\ s = Len(sent)
    BY <1>5 DEF HostSend, SentIn, s
  <2>2. Block = Message
    BY <1>5, MessageFacts
  <2>3. \A k \in Nat : Carries(rxq, Block, k, s) =>
          s < Len(Block) /\ Len(sent') = s + 1 /\ Carries(rxq', Block, k, s + 1)
    BY <1>2, <1>3, <1>5, <2>1, <2>2, HostSends
  <2>4. PICK k \in Nat : Carries(rxq, Block, k, s)
    BY <1>2, <1>3 DEF WriteBlock, s
  <2>5. s < Len(Block) /\ s' = s + 1
    BY <1>5, <2>1, <2>3, <2>4 DEF SentIn, s
  <2> QED
    BY <1>1, <1>2, <1>3, <1>4, <1>5, <2>1, <2>3, <2>5 DEF WriteBlock, s
<1>6. CASE host = "w_data" /\ HostSent
  <2>1. sent = Block /\ sent' = <<>> /\ UNCHANGED <<rxq, txq, base>>
    BY <1>6, MessageFacts DEF HostSent
  <2>2. host' = "w_eot"
    BY <1>6 DEF HostSent, AwaitAfter
  <2>3. s = Len(Block) /\ s' = Len(Block)
    BY <1>1, <1>6, <2>1, <2>2 DEF SentIn, s
  <2> QED
    BY <1>1, <1>2, <1>4, <2>1, <2>2, <2>3 DEF WriteBlock, s
<1>7. CASE host = "w_eot"
  <2> DEFINE next == IF base + UartBurstBytes <= Len(image) THEN "write" ELSE "loaded"
  <2>1. /\ Expect("w_eot", kUartDebugEot, next) /\ base' = base + UartBurstBytes
        /\ txq # <<>> /\ UNCHANGED <<rxq, sent>>
    BY <1>7, HostStep DEF ExpectWriteEot, Expect
  <2>2. s = Len(Block) /\ sent = <<>>
    BY <1>7 DEF WriteBlock, SentIn, s
  <2>3. srv = "cmd"
    BY <2>1, CarriesBounds DEF WriteBlock
  <2>4. /\ LoadedUpTo(base + Len(Block))
        /\ Carries(rxq, Block, Len(Block), Len(Block)) /\ Carries(txq, WriteAnswer, 1, 2)
    BY <2>2, <2>3 DEF WriteBlock, s
  <2>5. rxq' = <<>> /\ sent' = <<>>
    BY <2>1, <2>2, <2>4, CarriesBounds
  <2> HIDE DEF next
  <2>6. host' = next /\ Carries(txq', WriteAnswer, 2, 2)
    BY <2>1, <2>4, HostTakes, CommandFacts
  <2>7. txq' = <<>>
    BY <2>6, CarriesBounds
  <2>8. UartBurstBytes \in Nat \ {0}
    BY SizeAssumption
  <2>9. CASE base + UartBurstBytes <= Len(image)
    <3>1. host' = "write" /\ base' = base + Len(Block)
      BY <2>1, <2>6, <2>9, BlockFacts DEF next, WriteBlock
    <3>2. LoadedUpTo(base)' /\ base' <= Len(image)
      BY <1>1, <1>3, <2>4, <3>1 DEF LoadedUpTo
    <3>3. SentIn("write", 3)' = 0
      BY <2>5, <3>1 DEF SentIn
    <3>4. Carries(rxq, WriteCmd, 0, 0)' /\ Carries(txq, WriteAnswer, 0, 0)'
      BY <2>5, <2>7, NothingCarries
    <3> QED
      BY <1>1, <2>3, <3>1, <3>2, <3>3, <3>4 DEF WriteCommand
  <2>10. CASE base + UartBurstBytes > Len(image)
    <3>1. host' = "loaded" /\ base + Len(Block) = Len(image)
      BY <1>2, <1>3, <2>6, <2>8, <2>10, BlockFacts DEF next
    <3>2. LoadedUpTo(Len(image))'
      BY <1>1, <2>4, <3>1 DEF LoadedUpTo
    <3> QED
      BY <1>1, <2>3, <2>5, <2>7, <3>1, <3>2 DEF AllLoaded
  <2> QED
    BY <1>2, <1>3, <2>8, <2>9, <2>10
<1> QED
  BY <1>5, <1>6, <1>7, HostStep DEF WriteBlock

(* Between loading and the next command nothing moves.                     *)
LEMMA AllLoadedStep ==
  ASSUME UartType, AllLoaded, Serve \/ Host
  PROVE  ReadCommand' \/ ExecCommand'
<1>1. ~ Serve
  BY ServerStep, CommandStep DEF AllLoaded, Pop
<1>2. /\ host' \in {"read", "exec"} /\ UNCHANGED <<rxq, txq, sent, srv, mem, image>>
  BY <1>1, HostStep DEF AllLoaded, Loaded, srvVars
<1>3. LoadedUpTo(Len(image))'
  BY <1>2 DEF AllLoaded, LoadedUpTo
<1>4. /\ Carries(rxq, ReadCmd, 0, 0)' /\ Carries(txq, ReadAnswer, 0, 0)'
      /\ Carries(rxq, ExecCmd, 0, 0)'
  BY <1>2, NothingCarries DEF AllLoaded
<1>5. SentIn(host, 3)' = 0 /\ SentIn(host, 2)' = 0
  BY <1>2 DEF AllLoaded, SentIn
<1>6. CASE host' = "read"
  BY <1>2, <1>3, <1>4, <1>5, <1>6 DEF AllLoaded, ReadCommand
<1>7. CASE host' = "exec"
  BY <1>2, <1>3, <1>4, <1>5, <1>7 DEF AllLoaded, ExecCommand
<1> QED
  BY <1>2, <1>6, <1>7

(* The server's steps during a read command.                               *)
LEMMA ReadCommandServed ==
  ASSUME UartType, ReadCommand, Serve
  PROVE  ReadCommand'
<1> DEFINE s == SentIn("read", 3)
<1>1. /\ base' = base /\ image' = image /\ host' = host /\ sent' = sent /\ got' = got
      /\ ReadCmd' = ReadCmd /\ ReadAnswer' = ReadAnswer
  BY ServerKeeps
<1>2. s' = s
  BY <1>1 DEF SentIn
<1>3. s \in Nat /\ s <= 3 /\ i \in Nat
  BY CarriesBounds DEF ReadCommand, UartType
<1>4. mem' = mem => LoadedUpTo(Len(image))'
  BY <1>1 DEF ReadCommand, LoadedUpTo
<1> HIDE DEF s
<1>5. CASE srv = "cmd"
  <2>1. Command
    BY <1>5, ServerStep
  <2>2. Carries(rxq, ReadCmd, 0, s) /\ Carries(txq, ReadAnswer, 0, 0)
    BY <1>3, <1>5, <2>1, CommandStep, CarriesBounds DEF ReadCommand, Pop, s
  <2>3. Byte = ReadCmd[1] /\ Carries(rxq', ReadCmd, 1, s)
    BY <1>3, <2>1, <2>2, CommandStep, ServerTakes
  <2>4. srv' = "r_addr" /\ txq' = txq /\ mem' = mem
    BY <2>1, <2>3, CommandFacts, CommandStep
  <2> QED
    BY <1>1, <1>2, <1>4, <2>2, <2>3, <2>4 DEF ReadCommand, s
<1>6. CASE srv = "r_addr"
  <2>1. Address("r_addr", "r_len")
    BY <1>6, ServerStep
  <2>2. Pop("r_addr") /\ addr' = Byte /\ srv' = "r_len" /\ txq' = txq /\ mem' = mem
    BY <2>1 DEF Address
  <2>3. Carries(rxq, ReadCmd, 1, s) /\ Carries(txq, ReadAnswer, 0, 0)
    BY <1>6 DEF ReadCommand, s
  <2>4. Byte = ReadCmd[2] /\ Carries(rxq', ReadCmd, 2, s)
    BY <1>3, <2>2, <2>3, ServerTakes
  <2> QED
    BY <1>1, <1>2, <1>4, <2>2, <2>3, <2>4, CommandFacts DEF ReadCommand, s
<1>7. CASE srv = "r_len"
  <2>1. Length("r_len", "r_ack")
    BY <1>7, ServerStep
  <2>2. /\ Pop("r_len") /\ len' = Byte /\ i' = 0 /\ srv' = "r_ack"
        /\ txq' = txq /\ mem' = mem /\ addr' = addr
    BY <2>1 DEF Length
  <2>3. addr = Entry /\ Carries(rxq, ReadCmd, 2, s) /\ Carries(txq, ReadAnswer, 0, 0)
    BY <1>7 DEF ReadCommand, s
  <2>4. Byte = ReadCmd[3] /\ Carries(rxq', ReadCmd, 3, s)
    BY <1>3, <2>2, <2>3, ServerTakes
  <2> QED
    BY <1>1, <1>2, <1>4, <2>2, <2>3, <2>4, CommandFacts DEF ReadCommand, s
<1>8. CASE srv = "r_ack"
  <2>1. Reply("r_ack", kUartDebugAck, "r_data")
    BY <1>8, ServerStep
  <2>2. /\ Push("r_ack", kUartDebugAck) /\ srv' = "r_data" /\ rxq' = rxq
        /\ mem' = mem /\ addr' = addr /\ len' = len /\ i' = i
    BY <2>1 DEF Reply
  <2>3. /\ addr = Entry /\ len = Len(image) /\ i = 0
        /\ Carries(rxq, ReadCmd, 3, s) /\ Carries(txq, ReadAnswer, 0, 0)
    BY <1>8 DEF ReadCommand, s
  <2>4. kUartDebugAck = ReadAnswer[0 + 1]
    BY ReadAnswerFacts
  <2>5. Carries(txq', ReadAnswer, 0, 1)
    BY <2>2, <2>3, <2>4, ServerAnswers, CodesAreSymbols
  <2>6. i' <= len' /\ i' + 1 = 1
    BY <2>2, <2>3, ReadAnswerFacts
  <2> QED
    BY <1>1, <1>2, <1>4, <2>2, <2>3, <2>5, <2>6 DEF ReadCommand, s
<1>9. CASE srv = "r_data"
  <2>1. /\ addr = Entry /\ len = Len(image) /\ i <= len /\ LoadedUpTo(Len(image))
        /\ Carries(rxq, ReadCmd, 3, s) /\ Carries(txq, ReadAnswer, 0, i + 1)
    BY <1>9 DEF ReadCommand, s
  <2>2. CASE ReadData
    <3>1. /\ i < len /\ Push("r_data", mem[addr + i]) /\ i' = i + 1
          /\ UNCHANGED <<rxq, srv, addr, len, mem>>
      BY <2>2 DEF ReadData
    <3>2. PICK x \in Symbols : Push("r_data", x) /\ x = ReadAnswer[i + 1 + 1]
      <4>1. i + 1 \in 1 .. Len(image) /\ addr + i = i
        BY <1>3, <2>1, <3>1, ReadAnswerFacts DEF Entry
      <4>2. mem[addr + i] = image[i + 1]
        BY <1>3, <2>1, <4>1 DEF LoadedUpTo
      <4>3. ReadAnswer[i + 1 + 1] = image[i + 1] /\ image[i + 1] \in Symbols
        BY <4>1, ReadAnswerFacts
      <4> QED
        BY <3>1, <4>2, <4>3
    <3>3. Carries(txq', ReadAnswer, 0, i + 1 + 1)
      <4>1. i + 1 \in Nat /\ Carries(txq, ReadAnswer, 0, i + 1)
        BY <2>1, <1>3
      <4> QED
        BY <3>2, <4>1, ServerAnswers
    <3>4. i' <= len' /\ i' + 1 = i + 1 + 1
      BY <1>3, <2>1, <3>1, ReadAnswerFacts
    <3> QED
      BY <1>1, <1>2, <1>4, <1>9, <2>1, <3>1, <3>3, <3>4 DEF ReadCommand, s
  <2>3. CASE EndOfData("r_data")
    <3>1. /\ i = len /\ Push("r_data", kUartDebugEot) /\ srv' = "cmd" /\ UNCHANGED <<rxq, mem>>
      BY <2>3 DEF EndOfData, Reply
    <3>2. kUartDebugEot = ReadAnswer[i + 1 + 1] /\ i + 1 + 1 = Len(image) + 2
      BY <1>3, <2>1, <3>1, ReadAnswerFacts
    <3>3. Carries(txq', ReadAnswer, 0, i + 1 + 1)
      BY <1>3, <2>1, <3>1, <3>2, ServerAnswers, CodesAreSymbols
    <3> QED
      BY <1>1, <1>2, <1>4, <2>1, <3>1, <3>2, <3>3 DEF ReadCommand, s
  <2> QED
    BY <1>9, <2>2, <2>3, ServerStep
<1> QED
  BY <1>5, <1>6, <1>7, <1>8, <1>9 DEF ReadCommand

(* The host's steps during a read command.                                 *)
LEMMA ReadCommandHosted ==
  ASSUME UartType, ReadCommand, Host
  PROVE  ReadCommand' \/ ReadBlock'
<1> DEFINE s == SentIn("read", 3)
<1>1. /\ srv' = srv /\ addr' = addr /\ len' = len /\ i' = i /\ mem' = mem /\ image' = image
      /\ ReadCmd' = ReadCmd /\ ReadAnswer' = ReadAnswer
  BY HostKeeps DEF srvVars
<1>2. s \in Nat /\ s <= 3
  BY CarriesBounds DEF ReadCommand, UartType
<1>3. LoadedUpTo(Len(image))'
  BY <1>1 DEF ReadCommand, LoadedUpTo
<1>4. Len(ReadCmd) = 3 /\ \A j \in 1 .. 3 : ReadCmd[j] \in Symbols
  <2>1. Len(image) \in Nat
    BY ReadAnswerFacts
  <2>2. Nat \subseteq Symbols /\ kUartDebugCmdRead \in Nat /\ Entry \in Nat
    BY DEF Symbols, kUartDebugCmdRead, Entry
  <2> QED
    BY <2>1, <2>2 DEF ReadCmd
<1> HIDE DEF s
<1>5. CASE host = "read" /\ HostSend
  <2>1. host' = host /\ txq' = txq /\ s = Len(sent)
    BY <1>5 DEF HostSend, SentIn, s
  <2>2. ReadCmd = Message
    BY <1>5, MessageFacts
  <2>3. \A k \in Nat : Carries(rxq, ReadCmd, k, s) =>
          s < 3 /\ Len(sent') = s + 1 /\ Carries(rxq', ReadCmd, k, s + 1)
    BY <1>2, <1>4, <1>5, <2>1, <2>2, HostSends
  <2>4. PICK k \in 0 .. 3 : Carries(rxq, ReadCmd, k, s)
    BY DEF ReadCommand, s
  <2>5. s < 3 /\ s' = s + 1
    BY <1>5, <2>1, <2>3, <2>4 DEF SentIn, s
  <2> QED
    BY <1>1, <1>2, <1>3, <1>5, <2>1, <2>3, <2>5, CarriesBounds DEF ReadCommand, s
<1>6. CASE host = "read" /\ HostSent
  <2>1. sent = ReadCmd /\ sent' = <<>> /\ got' = <<>> /\ UNCHANGED <<rxq, txq>>
    BY <1>6, MessageFacts DEF HostSent
  <2>2. host' = "r_ack"
    BY <1>6 DEF HostSent, AwaitAfter
  <2>3. s = 3 /\ s' = 3
    BY <1>4, <1>6, <2>1, <2>2 DEF SentIn, s
  <2> QED
    BY <1>1, <1>3, <2>1, <2>2, <2>3 DEF ReadCommand, s
<1>7. CASE host = "r_ack"
  <2>1. Expect("r_ack", kUartDebugAck, "r_data") /\ got' = got
    BY <1>7, HostStep
  <2>2. txq # <<>> /\ UNCHANGED <<rxq, sent>>
    BY <2>1 DEF Expect
  <2>3. s = 3 /\ sent = <<>> /\ got = <<>> /\ Len(image) \in Nat
    BY <1>7, ReadAnswerFacts DEF ReadCommand, SentIn, s
  <2>4. \A b \in Nat : Carries(txq, ReadAnswer, 0, b) =>
          host' = "r_data" /\ Carries(txq', ReadAnswer, 1, b)
    BY <2>1, HostTakes, ReadAnswerFacts
  <2>5. PICK b \in Nat : Carries(txq, ReadAnswer, 0, b) /\ Carries(rxq, ReadCmd, 3, 3)
    BY <2>2, <2>3, CarriesBounds DEF ReadCommand, s
  <2>6. host' = "r_data" /\ rxq' = <<>> /\ sent' = <<>>
    BY <2>2, <2>3, <2>4, <2>5, CarriesBounds
  <2>7. Carries(got', image, 0, Len(got')) /\ Len(got') = 0
    BY <2>1, <2>3, NothingCarries
  <2> QED
    BY <1>1, <1>3, <2>2, <2>3, <2>4, <2>6, <2>7, CarriesBounds DEF ReadCommand, ReadBlock, s
<1> QED
  BY <1>5, <1>6, <1>7, HostStep DEF ReadCommand

(* The server's steps while a section is read back.                        *)
LEMMA ReadBlockServed ==
  ASSUME UartType, ReadBlock, Serve
  PROVE  ReadBlock'
<1>1. /\ image' = image /\ host' = host /\ sent' = sent /\ got' = got /\ ReadAnswer' = ReadAnswer
  BY ServerKeeps
<1>2. mem' = mem => LoadedUpTo(Len(image))'
  BY <1>1 DEF ReadBlock, LoadedUpTo
<1>3. i \in Nat /\ Len(got) \in Nat /\ rxq = <<>>
  BY DEF ReadBlock, UartType
<1>4. srv = "r_data"
  BY <1>3, ServerStep, CommandStep DEF ReadBlock, Pop
<1>5. /\ addr = Entry /\ len = Len(image) /\ i <= len /\ LoadedUpTo(Len(image))
      /\ Carries(txq, ReadAnswer, Len(got) + 1, i + 1)
  BY <1>4 DEF ReadBlock
<1>6. CASE ReadData
  <2>1. /\ i < len /\ Push("r_data", mem[addr + i]) /\ i' = i + 1
        /\ UNCHANGED <<rxq, srv, addr, len, mem>>
    BY <1>6 DEF ReadData
  <2>2. PICK x \in Symbols : Push("r_data", x) /\ x = ReadAnswer[i + 1 + 1]
    BY <1>3, <1>5, <2>1, ReadAnswerFacts DEF LoadedUpTo, Entry
  <2>3. Carries(txq', ReadAnswer, Len(got) + 1, i + 1 + 1)
    BY <1>3, <1>5, <2>2, ServerAnswers
  <2>4. i' <= len' /\ i' + 1 = i + 1 + 1
    BY <1>3, <1>5, <2>1, ReadAnswerFacts
  <2> QED
    BY <1>1, <1>2, <1>4, <1>5, <2>1, <2>3, <2>4 DEF ReadBlock
<1>7. CASE EndOfData("r_data")
  <2>1. /\ i = len /\ Push("r_data", kUartDebugEot) /\ srv' = "cmd" /\ UNCHANGED <<rxq, mem>>
    BY <1>7 DEF EndOfData, Reply
  <2>2. kUartDebugEot = ReadAnswer[i + 1 + 1] /\ i + 1 + 1 = Len(image) + 2
    BY <1>3, <1>5, <2>1, ReadAnswerFacts
  <2>3. Carries(txq', ReadAnswer, Len(got) + 1, i + 1 + 1)
    BY <1>3, <1>5, <2>1, <2>2, ServerAnswers, CodesAreSymbols
  <2> QED
    BY <1>1, <1>2, <2>1, <2>2, <2>3 DEF ReadBlock
<1> QED
  BY <1>4, <1>6, <1>7, ServerStep

(* The host's steps while a section is read back.                          *)
LEMMA ReadBlockHosted ==
  ASSUME UartType, ReadBlock, Host
  PROVE  ReadBlock' \/ ExecCommand'
<1>1. /\ srv' = srv /\ addr' = addr /\ len' = len /\ i' = i /\ mem' = mem /\ image' = image
      /\ ReadAnswer' = ReadAnswer
  BY HostKeeps DEF srvVars
<1>2. /\ host = "r_data" /\ rxq = <<>> /\ sent = <<>>
      /\ Carries(got, image, 0, Len(got)) /\ Len(got) <= Len(image) /\ LoadedUpTo(Len(image))
      /\ Len(got) \in Nat /\ Len(image) \in Nat
  BY ReadAnswerFacts DEF ReadBlock, UartType
<1>3. LoadedUpTo(Len(image))'
  BY <1>1, <1>2 DEF LoadedUpTo
<1>4. CASE ScoopData
  <2>1. /\ Scooped /\ Len(got) + 1 \in 1 .. Len(image)
        /\ UNCHANGED <<rxq, host, sent>>
    BY <1>2, <1>4 DEF ScoopData, Scooped
  <2>2. PICK b \in Nat : Carries(txq, ReadAnswer, Len(got) + 1, b)
    BY CarriesBounds DEF ReadBlock
  <2>3. PICK x \in Symbols : got' = Append(got, x) /\ x = ReadAnswer[Len(got) + 1 + 1]
    BY <1>2, <1>4, <2>1, <2>2, HostScoops DEF ScoopData
  <2>4. x = image[Len(got) + 1]
    <3> DEFINE k == Len(got) + 1
    <3>1. k \in 1 .. Len(image) /\ x = ReadAnswer[k + 1]
      BY <2>1, <2>3
    <3> HIDE DEF k
    <3>2. x = image[k]
      BY <3>1, ReadAnswerFacts
    <3> QED
      BY <3>2 DEF k
  <2>5. Len(got') = Len(got) + 1
    BY <2>3 DEF UartType
  <2>6. Carries(got', image, 0, Len(got) + 1)
    BY <1>2, <2>3, <2>4, AppendCarries
  <2>7. \A k \in Nat : Carries(txq, ReadAnswer, Len(got) + 1, k) =>
          Carries(txq', ReadAnswer, Len(got) + 1 + 1, k)
    BY <1>2, <2>1, HostScoops
  <2> QED
    BY <1>1, <1>2, <1>3, <2>1, <2>5, <2>6, <2>7, CarriesBounds DEF ReadBlock
<1>5. CASE ExpectReadEot
  <2>1. /\ Len(got) = Len(image) /\ Expect("r_data", kUartDebugEot, "exec")
        /\ UNCHANGED <<rxq, sent>>
    BY <1>5 DEF ExpectReadEot, Expect
  <2>2. \A b \in Nat : Carries(txq, ReadAnswer, Len(image) + 1, b) =>
          /\ Len(image) + 1 < b /\ Carries(txq', ReadAnswer, Len(image) + 2, b)
          /\ host' = "exec"
    <3>1. ReadAnswer[Len(image) + 1 + 1] = kUartDebugEot
      BY <1>2, ReadAnswerFacts
    <3> QED
      BY <1>2, <2>1, <3>1, HostTakes
  <2>3. srv = "cmd" /\ Carries(txq, ReadAnswer, Len(image) + 1, Len(image) + 2)
    BY <1>2, <2>1, <2>2, CarriesBounds DEF ReadBlock, UartType
  <2>4. host' = "exec" /\ txq' = <<>>
    BY <1>2, <2>2, <2>3, CarriesBounds
  <2>5. SentIn("exec", 2)' = 0
    BY <1>2, <2>1, <2>4 DEF SentIn
  <2>6. Carries(rxq, ExecCmd, 0, 0)'
    BY <1>2, <2>1, NothingCarries
  <2> QED
    BY <1>1, <1>3, <2>3, <2>4, <2>5, <2>6 DEF ExecCommand
<1> QED
  BY <1>2, <1>4, <1>5, HostStep

(* The server's steps while the program runs and after it.                 *)
LEMMA OutputServed ==
  ASSUME UartType, ProgramRuns, NEW o \in Nat, Output(o),
         Serve \/ Returns \/ (\E b \in OutBytes : Putchar(b))
  PROVE  /\ ProgramRuns' /\ Output(o)' /\ UNCHANGED <<rxq, mem>>
         /\ o > 0 => txq # <<>> /\ txq' # <<>> /\ txq'[1] = txq[1]
<1>1. txq \in Seq(Symbols) /\ i \in Nat /\ RetLen \in Nat \ {0}
  BY SizeAssumption DEF UartType
<1>2. \/ srv = "exec" /\ \E b \in OutBytes : Putchar(b)
      \/ srv = "exec" /\ Returns
      \/ srv = "eoc" /\ Reply("eoc", kUartDebugEoc, "ret")
      \/ srv = "ret" /\ ReturnByte
  BY ServerStep DEF ProgramRuns, Returns, ProgramReturns, Putchar, Push
<1>3. CASE srv = "exec" /\ \E b \in OutBytes : Putchar(b)
  <2>1. PICK b \in OutBytes : txq' = Append(txq, b) /\ UNCHANGED <<rxq, srv, mem>>
    BY <1>3 DEF Putchar, Push
  <2> QED
    BY <1>1, <1>3, <2>1 DEF ProgramRuns, Output
<1>4. CASE srv = "exec" /\ Returns
  <2>1. /\ retval' \in [1 .. RetLen -> RetBytes] /\ i' = 0 /\ srv' = "eoc"
        /\ UNCHANGED <<rxq, txq, mem>>
    BY <1>4 DEF Returns, ProgramReturns
  <2> QED
    BY <1>1, <1>4, <2>1 DEF ProgramRuns, Output
<1>5. CASE srv = "eoc" /\ Reply("eoc", kUartDebugEoc, "ret")
  <2>1. txq' = Append(txq, kUartDebugEoc) /\ srv' = "ret" /\ UNCHANGED <<rxq, mem, i, retval>>
    BY <1>5 DEF Reply, Push
  <2> QED
    BY <1>1, <1>5, <2>1, CodesAreSymbols DEF ProgramRuns, Output
<1>6. CASE srv = "ret" /\ ReturnByte
  <2>1. /\ retval \in [1 .. RetLen -> RetBytes] /\ i < RetLen /\ i' = i + 1
        /\ srv' = IF i + 1 = RetLen THEN "end" ELSE "ret"
        /\ UNCHANGED <<rxq, mem, retval>>
    BY <1>6 DEF ReturnByte, ProgramRuns
  <2>2. PICK x \in RetBytes : x = retval[i + 1] /\ txq' = Append(txq, x)
    BY <1>1, <1>6, <2>1 DEF ReturnByte, Push
  <2>3. ProgramRuns'
    BY <1>1, <2>1 DEF ProgramRuns
  <2> DEFINE e == Len(txq) - i
  <2>4. /\ e \in Nat /\ e > o /\ \A j \in o + 1 .. e - 1 : txq[j] \in OutBytes
        /\ txq[e] = kUartDebugEoc /\ \A j \in 1 .. i : txq[e + j] = retval[j]
    BY <1>1, <1>6 DEF Output
  <2>5. Len(txq') = Len(txq) + 1 /\ txq'[Len(txq) + 1] = x
    BY <1>1, <2>2 DEF Symbols
  <2>6. \A j \in 1 .. Len(txq) : txq'[j] = txq[j]
    BY <1>1, <2>2 DEF Symbols
  <2>7. Len(txq') - i' = e /\ e + i = Len(txq) /\ Len(txq) \in Nat
    BY <1>1, <2>1, <2>5
  <2>8. \A j \in 1 .. i + 1 : txq'[e + j] = retval[j]
    <3> TAKE j \in 1 .. i + 1
    <3>1. CASE j = i + 1
      BY <1>1, <2>2, <2>5, <2>7, <3>1
    <3>2. CASE j \in 1 .. i
      <4>1. e + j \in 1 .. Len(txq)
        BY <1>1, <2>4, <2>7, <3>2
      <4> QED
        BY <2>4, <2>6, <3>2, <4>1
    <3> QED
      BY <1>1, <3>1, <3>2
  <2>9. txq'[e] = kUartDebugEoc /\ \A j \in o + 1 .. e - 1 : txq'[j] \in OutBytes
    BY <1>1, <2>4, <2>6, <2>7
  <2> HIDE DEF e
  <2>10. Output(o)'
    BY <2>1, <2>4, <2>7, <2>8, <2>9 DEF Output
  <2>11. o > 0 => txq # <<>> /\ txq' # <<>> /\ txq'[1] = txq[1]
    BY <1>1, <2>4, <2>5, <2>6, <2>7
  <2> QED
    BY <2>1, <2>3, <2>10, <2>11
<1> QED
  BY <1>2, <1>3, <1>4, <1>5, <1>6

(* The host takes the first byte of the output.                            *)
LEMMA OutputTaken ==
  ASSUME UartType, ProgramRuns, NEW o \in Nat, Output(o), Scooped,
         srv' = srv, i' = i, retval' = retval
  PROVE  /\ ProgramRuns'
         /\ o > 0 => Output(o - 1)'
         /\ o = 0 => \/ Head(txq) \in OutBytes /\ Output(0)'
                     \/ /\ srv \in {"ret", "end"} /\ Head(txq) = kUartDebugEoc
                        /\ Carries(txq', retval, 0, i)
<1>1. i \in Nat /\ i' = i
  BY DEF UartType
<1>2. /\ Len(txq) \in Nat \ {0} /\ Len(txq') = Len(txq) - 1 /\ Head(txq) = txq[1]
      /\ \A j \in 1 .. Len(txq) - 1 : txq'[j] = txq[j + 1]
      /\ txq' \in Seq(Symbols)
  BY HeadTailProperties DEF UartType, Scooped
<1> DEFINE e == IF srv \in {"ret", "end"} THEN Len(txq) - i ELSE Len(txq) + 1
<1>3. /\ e \in Nat /\ e > o /\ \A j \in o + 1 .. e - 1 : txq[j] \in OutBytes
      /\ srv \in {"ret", "end"} => e + i = Len(txq) /\ txq[e] = kUartDebugEoc
                                /\ \A j \in 1 .. i : txq[e + j] = retval[j]
      /\ srv \notin {"ret", "end"} => e = Len(txq) + 1
  <2>1. CASE srv \in {"ret", "end"}
    BY <1>1, <1>2, <2>1 DEF Output
  <2>2. CASE srv \notin {"ret", "end"}
    BY <1>1, <1>2, <2>2 DEF Output
  <2> QED
    BY <2>1, <2>2
<1>4. IF srv' \in {"ret", "end"} THEN Len(txq') - i' = e - 1 ELSE Len(txq') + 1 = e - 1
  BY <1>1, <1>2
<1> HIDE DEF e
<1>5. ProgramRuns'
  BY DEF ProgramRuns
<1>6. ASSUME NEW p \in Nat, e - 1 > p, p + 1 >= o
      PROVE  Output(p)'
  <2>1. \A j \in p + 1 .. e - 1 - 1 : txq'[j] \in OutBytes
    <3> TAKE j \in p + 1 .. e - 1 - 1
    <3>1. j \in 1 .. Len(txq) - 1 /\ j + 1 \in o + 1 .. e - 1
      BY <1>1, <1>2, <1>3, <1>6
    <3> QED
      BY <1>2, <1>3, <3>1
  <2>2. CASE srv \in {"ret", "end"}
    <3>1. e - 1 \in 1 .. Len(txq) - 1 /\ e - 1 + 1 = e
      BY <1>1, <1>2, <1>3, <1>6, <2>2
    <3>2. txq'[e - 1] = kUartDebugEoc
      BY <1>2, <1>3, <2>2, <3>1
    <3>3. \A j \in 1 .. i : txq'[e - 1 + j] = retval[j]
      <4> TAKE j \in 1 .. i
      <4>1. e - 1 + j \in 1 .. Len(txq) - 1 /\ e - 1 + j + 1 = e + j
        BY <1>1, <1>2, <1>3, <2>2, <3>1
      <4> QED
        BY <1>2, <1>3, <2>2, <4>1
    <3> QED
      BY <1>4, <1>6, <2>1, <2>2, <3>2, <3>3 DEF Output
  <2>3. CASE srv \notin {"ret", "end"}
    BY <1>4, <1>6, <2>1, <2>3 DEF Output
  <2> QED
    BY <2>2, <2>3
<1>7. CASE o > 0
  <2>1. o - 1 \in Nat /\ e - 1 > o - 1
    BY <1>3, <1>7
  <2> QED
    BY <1>5, <1>6, <1>7, <2>1
<1>8. CASE o = 0 /\ e > 1
  BY <1>2, <1>3, <1>5, <1>6, <1>8
<1>9. CASE o = 0 /\ e = 1
  <2>1. srv \in {"ret", "end"} /\ Head(txq) = kUartDebugEoc /\ 1 + i = Len(txq)
    BY <1>2, <1>3, <1>9
  <2>2. \A j \in 1 .. i : txq'[j] = retval[j]
    BY <1>1, <1>2, <1>3, <1>9, <2>1
  <2>3. Carries(txq', retval, 0, i)
    BY <1>1, <1>2, <2>1, <2>2 DEF Carries
  <2> QED
    BY <1>5, <1>9, <2>1, <2>3
<1> QED
  BY <1>3, <1>7, <1>8, <1>9

(* The server's steps during an execution command.                         *)
LEMMA ExecCommandServed ==
  ASSUME UartType, ExecCommand, Serve \/ Returns \/ (\E b \in OutBytes : Putchar(b))
  PROVE  ExecCommand'
<1> DEFINE s == SentIn("exec", 2)
<1>1. image' = image /\ host' = host /\ sent' = sent
  BY ServerKeeps
<1>2. s' = s
  BY <1>1 DEF SentIn
<1>3. s \in Nat /\ s <= 2
  BY CarriesBounds DEF ExecCommand
<1>4. mem' = mem => LoadedUpTo(Len(image))'
  BY <1>1 DEF ExecCommand, LoadedUpTo
<1> HIDE DEF s
<1>5. CASE ProgramRuns
  <2>1. Carries(rxq, ExecCmd, 2, s) /\ txq # <<>> /\ txq[1] = kUartDebugAck /\ Output(1)
    BY <1>5 DEF ExecCommand, ProgramRuns, s
  <2>2. /\ ProgramRuns' /\ Output(1)' /\ UNCHANGED <<rxq, mem>>
        /\ txq' # <<>> /\ txq'[1] = kUartDebugAck
    BY <1>5, <2>1, OutputServed
  <2> QED
    BY <1>1, <1>2, <1>4, <2>1, <2>2 DEF ExecCommand, s
<1>6. CASE srv = "cmd"
  <2>1. Command
    BY <1>6, ServerStep DEF Returns, ProgramReturns, Putchar, Push
  <2>2. Carries(rxq, ExecCmd, 0, s) /\ txq = <<>>
    BY <1>6 DEF ExecCommand, ProgramRuns, s
  <2>3. Byte = ExecCmd[1] /\ Carries(rxq', ExecCmd, 1, s)
    BY <1>3, <2>1, <2>2, CommandStep, ServerTakes
  <2>4. srv' = "e_addr" /\ txq' = txq /\ mem' = mem
    BY <2>1, <2>3, CommandFacts, CommandStep
  <2> QED
    BY <1>1, <1>2, <1>4, <2>2, <2>3, <2>4 DEF ExecCommand, s
<1>7. CASE srv = "e_addr"
  <2>1. Address("e_addr", "e_ack")
    BY <1>7, ServerStep DEF Returns, ProgramReturns, Putchar, Push
  <2>2. Pop("e_addr") /\ srv' = "e_ack" /\ txq' = txq /\ mem' = mem
    BY <2>1 DEF Address
  <2>3. Carries(rxq, ExecCmd, 1, s) /\ txq = <<>>
    BY <1>7 DEF ExecCommand, ProgramRuns, s
  <2>4. Carries(rxq', ExecCmd, 2, s)
    BY <1>3, <2>2, <2>3, ServerTakes
  <2> QED
    BY <1>1, <1>2, <1>4, <2>2, <2>3, <2>4 DEF ExecCommand, s
<1>8. CASE srv = "e_ack"
  <2>1. Reply("e_ack", kUartDebugAck, "exec")
    BY <1>8, ServerStep DEF Returns, ProgramReturns, Putchar, Push
  <2>2. txq' = Append(txq, kUartDebugAck) /\ srv' = "exec" /\ UNCHANGED <<rxq, mem>>
    BY <2>1 DEF Reply, Push
  <2>3. Carries(rxq, ExecCmd, 2, s) /\ txq = <<>>
    BY <1>8 DEF ExecCommand, ProgramRuns, s
  <2>4. Len(txq') = 1 /\ txq' # <<>> /\ txq'[1] = kUartDebugAck
    BY <2>2, <2>3
  <2>5. Output(1)'
    BY <2>2, <2>4 DEF Output
  <2> QED
    BY <1>1, <1>2, <1>4, <2>2, <2>3, <2>4, <2>5 DEF ExecCommand, ProgramRuns, s
<1> QED
  BY <1>5, <1>6, <1>7, <1>8 DEF ExecCommand

(* The host's steps during an execution command.                           *)
LEMMA ExecCommandHosted ==
  ASSUME UartType, ~ eoc, ExecCommand, Host
  PROVE  ExecCommand' \/ Running'
<1> DEFINE s == SentIn("exec", 2)
<1>1. srv' = srv /\ i' = i /\ mem' = mem /\ retval' = retval /\ image' = image
  BY HostKeeps DEF srvVars
<1>2. s \in Nat /\ s <= 2
  BY CarriesBounds DEF ExecCommand
<1>3. LoadedUpTo(Len(image))'
  BY <1>1 DEF ExecCommand, LoadedUpTo
<1>4. Len(ExecCmd) = 2 /\ (\A j \in 1 .. 2 : ExecCmd[j] \in Symbols) /\ ExecCmd' = ExecCmd
  BY DEF ExecCmd, Symbols, Entry, kUartDebugCmdExec
<1> HIDE DEF s
<1>5. CASE host = "exec" /\ HostSend
  <2>1. host' = host /\ txq' = txq /\ s = Len(sent)
    BY <1>5 DEF HostSend, SentIn, s
  <2>2. ExecCmd = Message
    BY <1>5, MessageFacts
  <2>3. \A k \in Nat : Carries(rxq, ExecCmd, k, s) =>
          s < 2 /\ Len(sent') = s + 1 /\ Carries(rxq', ExecCmd, k, s + 1)
    BY <1>2, <1>4, <1>5, <2>1, <2>2, HostSends
  <2>4. PICK k \in 0 .. 2 : Carries(rxq, ExecCmd, k, s)
    BY DEF ExecCommand, s
  <2>5. s < 2 /\ s' = s + 1
    BY <1>5, <2>1, <2>3, <2>4 DEF SentIn, s
  <2> QED
    BY <1>1, <1>2, <1>3, <1>5, <2>1, <2>3, <2>5, CarriesBounds DEF ExecCommand, s
<1>6. CASE host = "exec" /\ HostSent
  <2>1. sent = ExecCmd /\ sent' = <<>> /\ UNCHANGED <<rxq, txq>>
    BY <1>6, MessageFacts DEF HostSent
  <2>2. host' = "e_ack"
    BY <1>6 DEF HostSent, AwaitAfter
  <2>3. s = 2 /\ s' = 2
    BY <1>4, <1>6, <2>1, <2>2 DEF SentIn, s
  <2>4. ProgramRuns' <=> ProgramRuns
    BY <1>1 DEF ProgramRuns
  <2>5. Output(1)' <=> Output(1)
    BY <1>1, <2>1 DEF Output
  <2> QED
    BY <1>1, <1>3, <1>4, <2>1, <2>2, <2>3, <2>4, <2>5 DEF ExecCommand, s
<1>7. CASE host = "e_ack"
  <2>1. Expect("e_ack", kUartDebugAck, "running")
    BY <1>7, HostStep
  <2>2. Scooped /\ UNCHANGED <<rxq, sent, eoc>>
    BY <2>1 DEF Expect, Scooped
  <2>3. s = 2 /\ sent = <<>>
    BY <1>7 DEF ExecCommand, SentIn, s
  <2>4. ProgramRuns /\ Carries(rxq, ExecCmd, 2, 2) /\ txq[1] = kUartDebugAck /\ Output(1)
    BY <2>2, <2>3 DEF ExecCommand, Scooped, s
  <2>5. host' = "running" /\ rxq' = <<>>
    BY <2>1, <2>2, <2>4, CarriesBounds DEF Expect
  <2>6. ProgramRuns' /\ Output(0)'
    BY <1>1, <2>2, <2>4, OutputTaken
  <2> QED
    BY <1>3, <2>2, <2>3, <2>5, <2>6 DEF Running
<1> QED
  BY <1>5, <1>6, <1>7, HostStep DEF ExecCommand

(* The next byte of the return value.                                      *)
LEMMA CodeServed ==
  ASSUME UartType, ProgramRuns, srv \in {"ret", "end"}, Serve,
         NEW a \in Nat, Carries(txq, retval, a, i)
  PROVE  /\ ProgramRuns' /\ srv' \in {"ret", "end"} /\ Carries(txq', retval', a, i')
         /\ UNCHANGED <<rxq, mem, retval>>
<1>1. i \in Nat /\ RetLen \in Nat \ {0}
  BY SizeAssumption DEF UartType
<1>2. /\ srv = "ret" /\ retval \in [1 .. RetLen -> RetBytes] /\ i < RetLen /\ i' = i + 1
      /\ srv' = IF i + 1 = RetLen THEN "end" ELSE "ret"
      /\ UNCHANGED <<rxq, mem, retval>>
  BY ServerStep DEF ReturnByte, ProgramRuns
<1>3. PICK x \in RetBytes : x = retval[i + 1] /\ Push("ret", x)
  BY <1>1, <1>2, ServerStep DEF ReturnByte
<1>4. x \in Symbols
  BY DEF Symbols
<1>5. Carries(txq', retval, a, i + 1)
  BY <1>1, <1>3, <1>4, ServerAnswers
<1>6. ProgramRuns'
  BY <1>1, <1>2 DEF ProgramRuns
<1> QED
  BY <1>2, <1>5, <1>6

(* The server's steps while the host waits for the end of the program.     *)
LEMMA RunningServed ==
  ASSUME UartType, Running, Serve \/ Returns \/ (\E b \in OutBytes : Putchar(b))
  PROVE  Running'
<1>1. image' = image /\ host' = host /\ sent' = sent /\ eoc' = eoc
  BY ServerKeeps
<1>2. mem' = mem => LoadedUpTo(Len(image))'
  BY <1>1 DEF Running, LoadedUpTo
<1>3. CASE eoc
  <2>1. Serve
    BY <1>3 DEF Running, Returns, ProgramReturns, Putchar, Push
  <2>2. /\ ProgramRuns' /\ srv' \in {"ret", "end"} /\ Carries(txq', retval', 0, i')
        /\ UNCHANGED <<rxq, mem>>
    BY <1>3, <2>1, CodeServed DEF Running
  <2> QED
    BY <1>1, <1>2, <1>3, <2>2 DEF Running
<1>4. CASE ~ eoc
  <2>1. ProgramRuns' /\ Output(0)' /\ UNCHANGED <<rxq, mem>>
    BY <1>4, OutputServed DEF Running
  <2> QED
    BY <1>1, <1>2, <1>4, <2>1 DEF Running
<1> QED
  BY <1>3, <1>4

(* The host's steps while it waits for the end of the program: it takes no *)
(* byte of the output for the EOC.                                         *)
LEMMA RunningHosted ==
  ASSUME UartType, Running, Host
  PROVE  Running' \/ ReadingCode'
<1>1. srv' = srv /\ i' = i /\ mem' = mem /\ retval' = retval /\ image' = image
  BY HostKeeps DEF srvVars
<1>2. LoadedUpTo(Len(image))'
  BY <1>1 DEF Running, LoadedUpTo
<1>3. ProgramRuns'
  BY <1>1 DEF Running, ProgramRuns
<1>4. CASE Unscooped
  <2>1. ~ eoc /\ Scooped /\ eoc' = (Head(txq) = kUartDebugEoc) /\ UNCHANGED <<rxq, host, sent>>
    BY <1>4 DEF Unscooped, Scooped
  <2>2. \/ Head(txq) \in OutBytes /\ Output(0)'
        \/ /\ srv \in {"ret", "end"} /\ Head(txq) = kUartDebugEoc
           /\ Carries(txq', retval, 0, i)
    BY <1>1, <2>1, OutputTaken DEF Running
  <2>3. CASE Head(txq) \in OutBytes /\ Output(0)'
    <3>1. ~ eoc'
      BY <2>1, <2>3, LineAssumption
    <3> QED
      BY <1>1, <1>2, <1>3, <2>1, <2>3, <3>1 DEF Running
  <2>4. CASE /\ srv \in {"ret", "end"} /\ Head(txq) = kUartDebugEoc
             /\ Carries(txq', retval, 0, i)
    BY <1>1, <1>2, <1>3, <2>1, <2>4 DEF Running
  <2> QED
    BY <2>2, <2>3, <2>4
<1>5. CASE WaitEoc
  <2>1. eoc /\ host' = "exit_code" /\ got' = <<>> /\ UNCHANGED <<rxq, txq, sent>>
    BY <1>5 DEF WaitEoc
  <2>2. Len(got') = 0 /\ 0 < RetLen /\ Carries(got', retval, 0, 0)
    BY <2>1, SizeAssumption, NothingCarries
  <2>3. Carries(txq', retval, 0, i)
    BY <2>1 DEF Running
  <2> QED
    BY <1>1, <1>3, <2>1, <2>2, <2>3 DEF Running, ReadingCode
<1> QED
  BY <1>4, <1>5, HostStep DEF Running

(* The server's steps while the host reads the exit code.                  *)
LEMMA ReadingCodeServed ==
  ASSUME UartType, ReadingCode, Serve
  PROVE  ReadingCode'
<1>1. host' = host /\ sent' = sent /\ got' = got
  BY ServerKeeps
<1>2. Len(got) \in Nat
  BY DEF UartType
<1>3. /\ ProgramRuns' /\ srv' \in {"ret", "end"} /\ Carries(txq', retval', Len(got), i')
      /\ UNCHANGED <<rxq, retval>>
  BY <1>2, CodeServed DEF ReadingCode
<1> QED
  BY <1>1, <1>3 DEF ReadingCode

(* The host's steps while it reads the exit code.                          *)
LEMMA ReadingCodeHosted ==
  ASSUME UartType, ReadingCode, Host
  PROVE  ReadingCode' \/ Done'
<1>1. srv' = srv /\ i' = i /\ retval' = retval
  BY HostKeeps DEF srvVars
<1>2. ProgramRuns'
  BY <1>1 DEF ReadingCode, ProgramRuns
<1>3. ExitCode
  BY HostStep DEF ReadingCode
<1>4. /\ Scooped /\ UNCHANGED <<rxq, sent>>
      /\ host' = IF Len(got) + 1 = RetLen THEN "done" ELSE host
  BY <1>3 DEF ExitCode, Scooped
<1>5. Len(got) \in Nat /\ i \in Nat /\ RetLen \in Nat \ {0}
  BY SizeAssumption DEF UartType
<1>6. /\ Len(got) < RetLen /\ Carries(got, retval, 0, Len(got)) /\ Carries(txq, retval, Len(got), i)
  BY DEF ReadingCode
<1>7. Len(got) < i /\ Carries(txq', retval, Len(got) + 1, i)
  BY <1>4, <1>5, <1>6, HostScoops
<1>8. PICK x \in Symbols : x = retval[Len(got) + 1] /\ got' = Append(got, x)
  BY <1>3, <1>4, <1>5, <1>6, HostScoops DEF ExitCode
<1>9. Len(got') = Len(got) + 1
  BY <1>8 DEF UartType
<1>10. Carries(got', retval, 0, Len(got) + 1)
  BY <1>5, <1>6, <1>8, AppendCarries
<1>11. CASE Len(got) + 1 # RetLen
  BY <1>1, <1>2, <1>4, <1>5, <1>6, <1>7, <1>9, <1>10, <1>11 DEF ReadingCode
<1>12. CASE Len(got) + 1 = RetLen
  <2>1. srv = "end" /\ i = RetLen /\ retval \in [1 .. RetLen -> RetBytes]
    BY <1>5, <1>7, <1>12 DEF ReadingCode, ProgramRuns
  <2>2. txq' = <<>>
    BY <1>5, <1>7, <1>12, <2>1, CarriesBounds
  <2>3. got' = retval
    <3>1. /\ got' \in Seq(Symbols) /\ Len(got') = RetLen
          /\ \A j \in 1 .. RetLen : got'[j] = retval[j]
      BY <1>5, <1>9, <1>10, <1>12 DEF Carries
    <3> QED
      BY <1>5, <2>1, <3>1
  <2> QED
    BY <1>1, <1>4, <1>12, <2>1, <2>2, <2>3 DEF ReadingCode, Done
<1> QED
  BY <1>11, <1>12

(* The challenge on its way: what the line held before it is dropped.      *)
LEMMA ChallengedServed ==
  ASSUME UartType, Challenged, Serve
  PROVE  Challenged'
<1>1. rxq \in Seq(Symbols)
  BY DEF UartType
<1>2. CASE srv = "check"
  <2>1. /\ rxq # <<>> /\ rxq' = Tail(rxq) /\ txq' = txq
        /\ srv' = IF Head(rxq) = kUartDebugAck THEN "welcome" ELSE "check"
    BY <1>2, ServerStep DEF Check, Pop, Byte
  <2>2. /\ txq = <<>> /\ rxq[Len(rxq)] = kUartDebugAck
        /\ \A j \in 1 .. Len(rxq) - 1 : rxq[j] \in NoiseBytes
    BY <1>2 DEF Challenged
  <2>3. /\ Len(rxq) \in Nat \ {0} /\ Len(rxq') = Len(rxq) - 1 /\ Head(rxq) = rxq[1]
        /\ \A j \in 1 .. Len(rxq) - 1 : rxq'[j] = rxq[j + 1]
        /\ rxq' \in Seq(Symbols)
    BY <1>1, <2>1, HeadTailProperties
  <2>4. srv' = IF Head(rxq) = kUartDebugAck THEN "welcome" ELSE "check"
    BY <2>1
  <2>5. txq' = <<>>
    BY <2>1, <2>2
  <2>6. CASE Len(rxq) = 1
    <3>1. rxq' = <<>> /\ srv' = "welcome"
      BY <2>2, <2>3, <2>4, <2>6
    <3> QED
      BY <2>5, <3>1 DEF Challenged
  <2>7. CASE Len(rxq) > 1
    <3>1. rxq[1] \in NoiseBytes
      BY <2>2, <2>3, <2>7
    <3>2. srv' = "check"
      BY <2>3, <2>4, <3>1, LineAssumption
    <3>3. rxq' # <<>> /\ rxq'[Len(rxq')] = kUartDebugAck
      BY <2>2, <2>3, <2>7
    <3>4. \A j \in 1 .. Len(rxq') - 1 : rxq'[j] \in NoiseBytes
      BY <2>2, <2>3, <2>7
    <3> QED
      BY <2>5, <3>2, <3>3, <3>4 DEF Challenged
  <2> QED
    BY <2>3, <2>6, <2>7
<1>3. CASE srv = "welcome"
  <2>1. txq' = Append(txq, kUartDebugAck) /\ srv' = "cmd" /\ rxq' = rxq
    BY <1>3, ServerStep DEF Welcome, Push
  <2> QED
    BY <1>3, <2>1 DEF Challenged
<1>4. srv # "cmd"
  BY ServerStep, CommandStep DEF Challenged, Pop
<1> QED
  BY <1>2, <1>3, <1>4 DEF Challenged

(* The line settles: there is noise on it, and no ACK.                     *)
LEMMA SettlingStep ==
  ASSUME UartType, Settling, Serve \/ Host \/ (\E b \in NoiseBytes : Noise(b))
  PROVE  Settling' \/ Challenging'
<1>1. CASE srv = "init" /\ Serve
  <2>1. rxq' = <<>> /\ srv' = "check" /\ txq' = txq
    BY <1>1, ServerStep DEF UartInit
  <2> QED
    BY <1>1, <2>1, ServerKeeps, EmptySeq DEF Settling
<1>2. CASE srv = "check" /\ Serve
  <2>1. /\ rxq # <<>> /\ rxq' = Tail(rxq) /\ txq' = txq
        /\ srv' = IF Head(rxq) = kUartDebugAck THEN "welcome" ELSE "check"
    BY <1>2, ServerStep DEF Check, Pop, Byte
  <2>2. rxq' \in Seq(NoiseBytes) /\ Head(rxq) \in NoiseBytes
    BY <2>1, HeadTailProperties DEF Settling
  <2>3. srv' = "check" /\ txq' = txq
    BY <2>1, <2>2, LineAssumption
  <2> QED
    BY <1>2, <2>2, <2>3, ServerKeeps DEF Settling
<1>3. CASE Host
  <2>1. /\ host' = "challenge" /\ srv # "init" /\ UNCHANGED <<rxq, txq, sent, base, srv>>
    BY <1>3, HostStep DEF Settling, Settle, srvVars
  <2> QED
    BY <2>1 DEF Settling, Challenging
<1>4. CASE \E b \in NoiseBytes : Noise(b)
  <2>1. PICK b \in NoiseBytes : rxq' = Append(rxq, b) /\ UNCHANGED <<host, srv, txq, sent, base>>
    BY <1>4 DEF Noise, srvVars, hostVars
  <2>2. rxq' \in Seq(NoiseBytes)
    BY <2>1 DEF Settling
  <2>3. UNCHANGED <<host, srv, txq, sent, base>>
    BY <2>1
  <2> QED
    BY <2>2, <2>3 DEF Settling
<1> QED
  BY <1>1, <1>2, <1>3, <1>4 DEF Settling

(* The server's steps while it is challenged.                              *)
LEMMA ChallengingServed ==
  ASSUME UartType, Challenging, Serve
  PROVE  Challenging'
<1>1. host' = host /\ sent' = sent /\ base' = base
  BY ServerKeeps
<1>2. CASE \/ host = "challenge" /\ Len(sent) = 1 /\ Challenged
           \/ host = "challenge_ack" /\ sent = <<>> /\ Challenged
  <2>1. Challenged'
    BY <1>2, ChallengedServed
  <2>2. base' = 0
    BY <1>1 DEF Challenging
  <2> QED
    BY <1>1, <1>2, <2>1, <2>2 DEF Challenging
<1>3. CASE host = "challenge" /\ srv = "check" /\ sent = <<>> /\ rxq \in Seq(NoiseBytes) /\ txq = <<>>
  <2>1. /\ rxq # <<>> /\ rxq' = Tail(rxq) /\ txq' = txq
        /\ srv' = IF Head(rxq) = kUartDebugAck THEN "welcome" ELSE "check"
    BY <1>3, ServerStep DEF Check, Pop, Byte
  <2>2. rxq' \in Seq(NoiseBytes) /\ Head(rxq) \in NoiseBytes
    BY <1>3, <2>1, HeadTailProperties
  <2>3. srv' = "check" /\ txq' = <<>>
    BY <1>3, <2>1, <2>2, LineAssumption
  <2> QED
    BY <1>1, <1>3, <2>2, <2>3 DEF Challenging
<1> QED
  BY <1>2, <1>3 DEF Challenging

(* The host's steps of the challenge.                                      *)
LEMMA ChallengingHosted ==
  ASSUME UartType, Challenging, Host
  PROVE  Challenging' \/ WriteCommand'
<1>1. srv' = srv /\ mem' = mem /\ image' = image
  BY HostKeeps DEF srvVars
<1>2. Len(sent) \in Nat /\ (sent = <<>> <=> Len(sent) = 0) /\ Len(image) \in Nat /\ base = 0
  BY ReadAnswerFacts DEF UartType, Challenging
<1>3. CASE host = "challenge" /\ HostSend
  <2>1. Message = <<kUartDebugAck>>
    BY <1>3, MessageFacts
  <2>2. Len(sent) < 1
    BY <1>3, <2>1 DEF HostSend
  <2>3. sent = <<>> /\ srv = "check" /\ rxq \in Seq(NoiseBytes) /\ txq = <<>>
    BY <1>2, <1>3, <2>2 DEF Challenging
  <2>4. rxq' = Append(rxq, kUartDebugAck) /\ sent' = Append(sent, kUartDebugAck)
    BY <1>3, <2>1, <2>3 DEF HostSend
  <2>5. host' = host /\ base' = base /\ txq' = txq
    BY <1>3 DEF HostSend
  <2>6. /\ rxq' # <<>> /\ rxq'[Len(rxq')] = kUartDebugAck
        /\ \A j \in 1 .. Len(rxq') - 1 : rxq'[j] \in NoiseBytes
    BY <2>3, <2>4
  <2>7. Len(sent') = 1
    BY <2>3, <2>4
  <2> QED
    BY <1>1, <1>2, <1>3, <2>3, <2>5, <2>6, <2>7 DEF Challenging, Challenged
<1>4. CASE host = "challenge" /\ HostSent
  <2>1. sent = <<kUartDebugAck>> /\ sent' = <<>> /\ UNCHANGED <<rxq, txq, base>>
    BY <1>4, MessageFacts DEF HostSent
  <2>2. host' = "challenge_ack"
    BY <1>4 DEF HostSent, AwaitAfter
  <2>3. Challenged
    BY <1>4, <2>1 DEF Challenging
  <2>4. Challenged'
    BY <1>1, <2>1, <2>3 DEF Challenged
  <2> QED
    BY <1>2, <2>1, <2>2, <2>4 DEF Challenging
<1>5. CASE host = "challenge_ack"
  <2>1. Expect("challenge_ack", kUartDebugAck, "write") /\ base' = base
    BY <1>5, HostStep
  <2>2. sent = <<>> /\ Challenged
    BY <1>5 DEF Challenging
  <2>3. txq # <<>> /\ UNCHANGED <<rxq, sent>>
    BY <2>1 DEF Expect
  <2>4. srv = "cmd" /\ txq = <<kUartDebugAck>> /\ rxq = <<>>
    BY <2>2, <2>3 DEF Challenged
  <2>5. host' = "write" /\ txq' = <<>>
    BY <2>1, <2>4 DEF Expect
  <2>6. Carries(rxq, WriteCmd, 0, 0)' /\ Carries(txq, WriteAnswer, 0, 0)'
    BY <2>3, <2>4, <2>5, NothingCarries
  <2>7. SentIn("write", 3)' = 0
    BY <2>2, <2>3, <2>5 DEF SentIn
  <2>8. LoadedUpTo(base)' /\ base' <= Len(image)
    BY <1>2, <2>1 DEF LoadedUpTo
  <2> QED
    BY <1>1, <2>4, <2>5, <2>6, <2>7, <2>8 DEF WriteCommand
<1> QED
  BY <1>3, <1>4, <1>5, HostStep DEF Challenging

(* Every step is made by somebody who can take it in the phase.            *)
LEMMA StepCases ==
  ASSUME Next
  PROVE  \/ Serve \/ Host
         \/ srv = "exec" /\ (Returns \/ \E b \in OutBytes : Putchar(b))
         \/ host = "settle" /\ \E b \in NoiseBytes : Noise(b)
BY DEF Next, Returns, ProgramReturns, Putchar, Push, Noise

(* Every phase leads to itself or to the next.                             *)
LEMMA PhaseStep ==
  ASSUME UartInv, Next
  PROVE  Phase'
<1> USE DEF UartInv
<1>1. CASE Settling
  <2>1. Serve \/ Host \/ (\E b \in NoiseBytes : Noise(b))
    BY <1>1, StepCases DEF Settling
  <2> QED
    BY <1>1, <2>1, SettlingStep DEF Phase
<1>2. CASE Challenging
  <2>1. Serve \/ Host
    BY <1>2, StepCases DEF Challenging, Challenged
  <2> QED
    BY <1>2, <2>1, ChallengingServed, ChallengingHosted DEF Phase
<1>3. CASE WriteCommand
  <2>1. Serve \/ Host
    BY <1>3, StepCases DEF WriteCommand
  <2> QED
    BY <1>3, <2>1, WriteCommandServed, WriteCommandHosted DEF Phase
<1>4. CASE WriteBlock
  <2>1. Serve \/ Host
    BY <1>4, StepCases DEF WriteBlock
  <2> QED
    BY <1>4, <2>1, WriteBlockServed, WriteBlockHosted DEF Phase
<1>5. CASE AllLoaded
  <2>1. Serve \/ Host
    BY <1>5, StepCases DEF AllLoaded
  <2> QED
    BY <1>5, <2>1, AllLoadedStep DEF Phase
<1>6. CASE ReadCommand
  <2>1. Serve \/ Host
    BY <1>6, StepCases DEF ReadCommand
  <2> QED
    BY <1>6, <2>1, ReadCommandServed, ReadCommandHosted DEF Phase
<1>7. CASE ReadBlock
  <2>1. Serve \/ Host
    BY <1>7, StepCases DEF ReadBlock
  <2> QED
    BY <1>7, <2>1, ReadBlockServed, ReadBlockHosted DEF Phase
<1>8. CASE ExecCommand
  <2>1. host # "settle" /\ ~ eoc
    BY <1>8 DEF ExecCommand
  <2> QED
    BY <1>8, <2>1, StepCases, ExecCommandServed, ExecCommandHosted DEF Phase
<1>9. CASE Running
  <2>1. host # "settle"
    BY <1>9 DEF Running
  <2> QED
    BY <1>9, <2>1, StepCases, RunningServed, RunningHosted DEF Phase
<1>10. CASE ReadingCode
  <2>1. Serve \/ Host
    BY <1>10, StepCases DEF ReadingCode
  <2> QED
    BY <1>10, <2>1, ReadingCodeServed, ReadingCodeHosted DEF Phase
<1>11. ~ Done
  BY StepCases, ServerStep, HostStep DEF Done
<1> QED
  BY <1>1, <1>2, <1>3, <1>4, <1>5, <1>6, <1>7, <1>8, <1>9, <1>10, <1>11 DEF Phase

(* What the phases say of the bytes that a step reads from elsewhere.      *)
LEMMA BytesAreSymbols ==
  ASSUME UartInv
  PROVE  /\ srv = "w_data" /\ rxq # <<>> => Head(rxq) \in DataBytes
         /\ srv = "r_data" /\ i < len => mem[addr + i] \in Symbols
         /\ srv = "ret" => retval[i + 1] \in Symbols
         /\ host \in Sending => \A j \in 1 .. Len(Message) : Message[j] \in Symbols
<1>1. UartType /\ Phase /\ i \in Nat /\ Len(image) \in Nat /\ base \in Nat
  BY ReadAnswerFacts DEF UartInv, UartType
<1>2. ASSUME srv = "w_data", rxq # <<>>
      PROVE  Head(rxq) \in DataBytes
  <2>1. ~ WriteCommand
    BY <1>2, CarriesBounds DEF WriteCommand
  <2>2. WriteBlock
    BY <1>1, <1>2, <2>1 DEF Phase, Settling, Challenging, Challenged, AllLoaded, ReadCommand,
      ReadBlock, ExecCommand, Running, ReadingCode, Done, ProgramRuns
  <2> DEFINE s == SentIn("w_data", Len(Block))
  <2>3. Carries(rxq, Block, i, s) /\ s <= Len(Block)
    BY <1>2, <2>2 DEF WriteBlock
  <2>4. \A j \in 1 .. Len(Block) : Block[j] \in DataBytes
    BY <1>1, <2>2, BlockFacts DEF WriteBlock
  <2>5. i < s /\ s \in Nat /\ Len(Block) \in Nat
    BY <1>1, <1>2, <2>2, <2>3, BlockFacts, CarriesBounds DEF WriteBlock
  <2> HIDE DEF s
  <2>6. rxq \in Seq(Symbols) /\ rxq[1] = Block[i + 1]
    BY <1>1, <2>3, <2>5 DEF Carries
  <2> QED
    BY <1>1, <1>2, <2>3, <2>4, <2>5, <2>6
<1>3. ASSUME srv = "r_data", i < len
      PROVE  mem[addr + i] \in Symbols
  <2>1. ReadCommand \/ ReadBlock
    BY <1>1, <1>3 DEF Phase, Settling, Challenging, Challenged, AllLoaded, WriteCommand,
      WriteBlock, ExecCommand, Running, ReadingCode, Done, ProgramRuns
  <2>2. addr = 0 /\ len = Len(image)
    BY <1>3, <2>1 DEF ReadCommand, ReadBlock, Entry
  <2>3. mem \in [0 .. Len(image) -> DataBytes]
    BY <1>1 DEF UartType
  <2> QED
    BY <1>1, <1>3, <2>2, <2>3 DEF Symbols
<1>4. ASSUME srv = "ret"
      PROVE  retval[i + 1] \in Symbols
  <2>1. ProgramRuns
    BY <1>1, <1>4 DEF Phase, Settling, Challenging, Challenged, AllLoaded, WriteCommand,
      WriteBlock, ReadCommand, ReadBlock, ExecCommand, Running, ReadingCode, Done
  <2>2. retval \in [1 .. RetLen -> RetBytes] /\ i + 1 \in 1 .. RetLen
    BY <1>1, <1>4, <2>1, SizeAssumption DEF ProgramRuns
  <2> QED
    BY <2>2 DEF Symbols
<1>5. ASSUME host \in Sending
      PROVE  \A j \in 1 .. Len(Message) : Message[j] \in Symbols
  <2>1. host \in {"challenge", "write", "w_data", "read", "exec"}
    BY <1>5 DEF Sending, AwaitAfter
  <2>2. image \in Seq(DataBytes)
    BY <1>1, ImagesAssumption DEF UartType
  <2>3. /\ Nat \subseteq Symbols /\ DataBytes \subseteq Symbols /\ Entry \in Nat
        /\ kUartDebugCmdRead \in Nat /\ kUartDebugCmdWrite \in Nat /\ kUartDebugCmdExec \in Nat
    BY DEF Symbols, Entry, kUartDebugCmdRead, kUartDebugCmdWrite, kUartDebugCmdExec
  <2>4. host \in {"write", "w_data"} => base <= Len(image)
    BY <1>1 DEF Phase, Settling, Challenging, AllLoaded, WriteCommand, WriteBlock, ReadCommand,
      ReadBlock, ExecCommand, Running, ReadingCode, Done
  <2>5. /\ host \in {"write", "w_data"} => Len(Block) \in Nat
        /\ host = "w_data" => \A j \in 1 .. Len(Block) : Block[j] \in Symbols
    BY <1>1, <2>3, <2>4, BlockFacts
  <2>6. CASE host = "challenge"
    <3>1. Message = <<kUartDebugAck>>
      BY <2>6, MessageFacts
    <3> QED
      BY <3>1, CodesAreSymbols
  <2>7. CASE host = "write"
    <3>1. Len(WriteCmd) = 3 /\ \A j \in 1 .. 3 : WriteCmd[j] \in Symbols
      BY <1>1, <2>3, <2>5, <2>7 DEF WriteCmd
    <3> QED
      BY <2>7, <3>1, MessageFacts
  <2>8. CASE host = "w_data"
    BY <2>5, <2>8, MessageFacts
  <2>9. CASE host = "read"
    <3>1. Len(ReadCmd) = 3 /\ \A j \in 1 .. 3 : ReadCmd[j] \in Symbols
      BY <1>1, <2>3 DEF ReadCmd
    <3> QED
      BY <2>9, <3>1, MessageFacts
  <2>10. CASE host = "exec"
    <3>1. Len(ExecCmd) = 2 /\ \A j \in 1 .. 2 : ExecCmd[j] \in Symbols
      BY <2>3 DEF ExecCmd
    <3> QED
      BY <2>10, <3>1, MessageFacts
  <2> QED
    BY <2>1, <2>6, <2>7, <2>8, <2>9, <2>10
<1> QED
  BY <1>2, <1>3, <1>4, <1>5

(* One more symbol in a FIFO.                                              *)
LEMMA AppendType ==
  ASSUME NEW q \in Seq(Symbols), NEW x \in Symbols
  PROVE  Append(q, x) \in Seq(Symbols)
OBVIOUS

(* Steps keep the variables in their types.                                *)
LEMMA TypeStep ==
  ASSUME UartInv, Next
  PROVE  UartType'
<1>1. UartType
  BY DEF UartInv
<1>2. /\ rxq \in Seq(Symbols) /\ txq \in Seq(Symbols)
      /\ sent \in Seq(Symbols) /\ got \in Seq(Symbols)
      /\ image \in Images /\ mem \in [0 .. Len(image) -> DataBytes]
      /\ i \in Nat /\ base \in Nat /\ eoc \in BOOLEAN
  BY <1>1 DEF UartType
<1>3. CASE Serve
  <2>1. UNCHANGED <<host, image, base, sent, got, eoc>>
    BY <1>3, ServerKeeps
  <2>2. rxq' \in Seq(Symbols)
    <3>1. \/ rxq' = rxq
          \/ rxq' = <<>>
          \/ rxq # <<>> /\ rxq' = Tail(rxq)
      BY <1>3 DEF Serve, UartInit, Check, Welcome, Command, Address, Length, Reply, ReadData,
        WriteData, EndOfData, ReturnByte, Pop
    <3> QED
      BY <1>2, <3>1, HeadTailProperties, EmptySeq
  <2>3. txq' \in Seq(Symbols)
    <3>1. txq' = txq \/ \E x \in Symbols : txq' = Append(txq, x)
      BY <1>3, BytesAreSymbols, CodesAreSymbols DEF Serve, UartInit, Check, Welcome, Command,
        Address, Length, Reply, ReadData, WriteData, EndOfData, ReturnByte, Push
    <3> QED
      BY <1>2, <3>1, AppendType
  <2>4. mem' \in [0 .. Len(image) -> DataBytes]
    <3>1. mem' = mem \/ WriteData
      BY <1>3 DEF Serve, UartInit, Check, Welcome, Command, Address, Length, Reply, ReadData,
        EndOfData, ReturnByte
    <3>2. WriteData => Byte \in DataBytes
      BY BytesAreSymbols DEF WriteData, Pop, Byte
    <3> QED
      BY <1>2, <3>1, <3>2 DEF WriteData
  <2>5. i' \in Nat
    BY <1>2, <1>3 DEF Serve, UartInit, Check, Welcome, Command, Address, Length, Reply, ReadData,
      WriteData, EndOfData, ReturnByte
  <2> QED
    BY <1>2, <2>1, <2>2, <2>3, <2>4, <2>5 DEF UartType
<1>4. CASE Returns \/ \E b \in OutBytes : Putchar(b)
  <2>1. UNCHANGED <<host, image, base, sent, got, eoc>>
    BY <1>4, ServerKeeps
  <2>2. /\ UNCHANGED <<rxq, mem>> /\ i' \in {0, i}
        /\ txq' = txq \/ \E x \in Symbols : txq' = Append(txq, x)
    BY <1>4 DEF Returns, ProgramReturns, Putchar, Push, Symbols
  <2>3. txq' \in Seq(Symbols)
    BY <1>2, <2>2, AppendType
  <2>4. UNCHANGED <<rxq, mem>> /\ i' \in Nat
    BY <1>2, <2>2
  <2> QED
    BY <1>2, <2>1, <2>3, <2>4 DEF UartType
<1>5. CASE Host
  <2>1. UNCHANGED <<mem, i, image>>
    BY <1>5, HostKeeps DEF srvVars
  <2>2. rxq' \in Seq(Symbols) /\ sent' \in Seq(Symbols)
    <3>1. \/ rxq' = rxq /\ sent' \in {sent, <<>>}
          \/ \E x \in Symbols : rxq' = Append(rxq, x) /\ sent' = Append(sent, x)
      BY <1>2, <1>5, BytesAreSymbols DEF Host, Settle, HostSend, HostSent, ExpectAck,
        ExpectWriteEot, Loaded, ScoopData, ExpectReadEot, Unscooped, WaitEoc, ExitCode, Expect
    <3> QED
      BY <1>2, <3>1, EmptySeq, AppendType
  <2>3. txq' \in Seq(Symbols) /\ got' \in Seq(Symbols)
    <3>1. \/ txq' = txq /\ got' \in {got, <<>>}
          \/ Scooped /\ got' = got
          \/ Scooped /\ got' = Append(got, Head(txq))
      BY <1>5 DEF Host, Settle, HostSend, HostSent, ExpectAck, ExpectWriteEot, Loaded, ScoopData,
        ExpectReadEot, Unscooped, WaitEoc, ExitCode, Expect, Scooped
    <3>2. Scooped => txq' \in Seq(Symbols) /\ Head(txq) \in Symbols
      BY <1>2, HeadTailProperties DEF Scooped
    <3> QED
      BY <1>2, <3>1, <3>2, EmptySeq, AppendType
  <2>4. base' \in Nat /\ eoc' \in BOOLEAN
    <3>1. base' = base \/ base' = base + UartBurstBytes
      BY <1>5 DEF Host, Settle, HostSend, HostSent, ExpectAck, ExpectWriteEot, Loaded, ScoopData,
        ExpectReadEot, Unscooped, WaitEoc, ExitCode, Expect
    <3>2. eoc' = eoc \/ Unscooped \/ WaitEoc
      BY <1>5 DEF Host, Settle, HostSend, HostSent, ExpectAck, ExpectWriteEot, Loaded, ScoopData,
        ExpectReadEot, ExitCode, Expect
    <3>3. Unscooped \/ WaitEoc => eoc' \in BOOLEAN
      BY DEF Unscooped, WaitEoc
    <3> QED
      BY <1>2, <3>1, <3>2, <3>3, SizeAssumption
  <2> QED
    BY <1>2, <2>1, <2>2, <2>3, <2>4 DEF UartType
<1>6. CASE \E b \in NoiseBytes : Noise(b)
  <2>1. PICK b \in NoiseBytes : rxq' = Append(rxq, b) /\ UNCHANGED <<txq, srvVars, hostVars>>
    BY <1>6 DEF Noise
  <2>2. rxq' \in Seq(Symbols)
    BY <1>2, <2>1 DEF Symbols
  <2>3. UNCHANGED <<txq, sent, got, image, mem, i, base, eoc>>
    BY <2>1 DEF srvVars, hostVars
  <2> QED
    BY <1>2, <2>2, <2>3 DEF UartType
<1> QED
  BY <1>3, <1>4, <1>5, <1>6, StepCases

(* The host has seen the EOC only while it waits for the end.              *)
LEMMA EocStep ==
  ASSUME UartInv, Next
  PROVE  (eoc => host = "running")'
<1>1. CASE Host
  <2>1. Unscooped => host' = "running"
    BY DEF Unscooped
  <2>2. WaitEoc => ~ eoc'
    BY DEF WaitEoc
  <2>3. eoc' = eoc \/ Unscooped \/ WaitEoc
    BY <1>1 DEF Host, Settle, HostSend, HostSent, ExpectAck, ExpectWriteEot, Loaded, ScoopData,
      ExpectReadEot, ExitCode, Expect
  <2>4. host = "running" => Unscooped \/ WaitEoc
    BY <1>1, HostStep
  <2> QED
    BY <2>1, <2>2, <2>3, <2>4 DEF UartInv
<1>2. CASE Serve \/ Returns \/ (\E b \in OutBytes : Putchar(b))
  BY <1>2, ServerKeeps DEF UartInv
<1>3. CASE \E b \in NoiseBytes : Noise(b)
  BY <1>3 DEF UartInv, Noise, hostVars
<1> QED
  BY <1>1, <1>2, <1>3, StepCases

(* The inductive invariant: in every phase of the conversation the FIFOs   *)
(* carry what its two ends agree on, for any sections, block sizes, FIFO   *)
(* depths and bytes.                                                       *)
THEOREM UartState == Spec => []UartInv
<1>1. Init => UartInv
  <2> SUFFICES ASSUME Init PROVE UartInv
    OBVIOUS
  <2>1. image \in Seq(DataBytes) /\ Len(image) \in Nat
    BY ImagesAssumption DEF Init
  <2>2. PICK d \in DataBytes : mem = [a \in 0 .. Size - 1 |-> d]
    BY DEF Init
  <2>3. mem \in [0 .. Len(image) -> DataBytes]
    BY <2>1, <2>2 DEF Size
  <2>4. <<>> \in Seq(Symbols) /\ <<>> \in Seq(NoiseBytes)
    BY EmptySeq
  <2>5. UartType
    BY <2>3, <2>4 DEF Init, UartType
  <2>6. Settling
    BY <2>4 DEF Init, Settling
  <2> QED
    BY <2>5, <2>6 DEF Init, UartInv, Phase
<1>2. UartInv /\ [Next]_vars => UartInv'
  <2> SUFFICES ASSUME UartInv, [Next]_vars PROVE UartInv'
    OBVIOUS
  <2>1. CASE Next
    BY <2>1, TypeStep, EocStep, PhaseStep DEF UartInv
  <2>2. CASE UNCHANGED vars
    <3>1. /\ UNCHANGED <<rxq, txq, srv, addr, len, i, mem, retval>>
          /\ UNCHANGED <<host, image, base, sent, got, eoc>>
      BY <2>2 DEF vars, srvVars, hostVars
    <3>2. /\ Block' = Block /\ WriteCmd' = WriteCmd /\ ReadCmd' = ReadCmd
          /\ ReadAnswer' = ReadAnswer
      BY <3>1 DEF Block, WriteCmd, ReadCmd, ReadAnswer
    <3>3. /\ SentIn("write", 3)' = SentIn("write", 3)
          /\ SentIn("w_data", Len(Block))' = SentIn("w_data", Len(Block))
          /\ SentIn("read", 3)' = SentIn("read", 3)
          /\ SentIn("exec", 2)' = SentIn("exec", 2)
      BY <3>1, <3>2 DEF SentIn
    <3>4. (UartType <=> UartType') /\ (ProgramRuns <=> ProgramRuns')
      BY <3>1 DEF UartType, ProgramRuns
    <3>5. /\ LoadedUpTo(base) <=> LoadedUpTo(base)'
          /\ LoadedUpTo(base + i) <=> LoadedUpTo(base + i)'
          /\ LoadedUpTo(base + Len(Block)) <=> LoadedUpTo(base + Len(Block))'
          /\ LoadedUpTo(Len(image)) <=> LoadedUpTo(Len(image))'
      BY <3>1, <3>2 DEF LoadedUpTo
    <3>6. (Output(0) <=> Output(0)') /\ (Output(1) <=> Output(1)')
      BY <3>1 DEF Output
    <3>7. Settling \/ Challenging \/ AllLoaded \/ Done
            => (Settling \/ Challenging \/ AllLoaded \/ Done)'
      BY <3>1, <3>5 DEF Settling, Challenging, Challenged, AllLoaded, Done
    <3>8. WriteCommand \/ WriteBlock => (WriteCommand \/ WriteBlock)'
      BY <3>1, <3>2, <3>3, <3>5 DEF WriteCommand, WriteBlock
    <3>9. ReadCommand \/ ReadBlock => (ReadCommand \/ ReadBlock)'
      BY <3>1, <3>2, <3>3, <3>5 DEF ReadCommand, ReadBlock
    <3>10. ExecCommand => ExecCommand'
      BY <3>1, <3>3, <3>4, <3>5, <3>6 DEF ExecCommand, ExecCmd
    <3>11. Running \/ ReadingCode => (Running \/ ReadingCode)'
      BY <3>1, <3>4, <3>5, <3>6 DEF Running, ReadingCode
    <3> QED
      BY <3>1, <3>4, <3>7, <3>8, <3>9, <3>10, <3>11 DEF UartInv, Phase
  <2> QED
    BY <2>1, <2>2
<1> QED
  BY <1>1, <1>2, PTL DEF Spec

(* Neither end ever meets a byte that it does not expect, whatever values  *)
(* addresses, lengths and data take: uart_boot_scoop_expect is never fatal *)
(* and uart_debug_serve sees no unknown command.                           *)
THEOREM EndsStayInStep == Spec => []InStep
<1>1. UartInv => InStep
  BY DEF UartInv, Phase, InStep, Settling, Challenging, Challenged, WriteCommand, WriteBlock,
    AllLoaded, ReadCommand, ReadBlock, ExecCommand, Running, ReadingCode, Done, ProgramRuns
<1> QED
  BY <1>1, UartState, PTL

(* When uart_debug_elf_preload has its last EOT, memory holds the section, *)
(* in blocks of any size and with an empty last one.                       *)
THEOREM SectionIsLoaded == Spec => []SectionLoaded
<1>1. ASSUME UartInv, host \in {"loaded", "read", "r_ack", "r_data", "exec", "e_ack", "running"}
      PROVE  LoadedUpTo(Len(image))
  BY <1>1 DEF UartInv, Phase, Settling, Challenging, WriteCommand, WriteBlock,
    AllLoaded, ReadCommand, ReadBlock, ExecCommand, Running, ReadingCode, Done
<1>2. UartInv => SectionLoaded
  BY <1>1 DEF LoadedUpTo, SectionLoaded
<1> QED
  BY <1>2, UartState, PTL

(* Between two commands nothing is on the line and the server waits.       *)
THEOREM CommandsAreApart == Spec => []QuietBetweenCommands
<1>1. ASSUME UartInv, host \in {"write", "read", "exec", "loaded"}, sent = <<>>
      PROVE  srv = "cmd" /\ rxq = <<>> /\ txq = <<>>
  <2>1. WriteCommand \/ ReadCommand \/ ExecCommand \/ AllLoaded
    BY <1>1 DEF UartInv, Phase, Settling, Challenging, WriteCommand, WriteBlock,
      AllLoaded, ReadCommand, ReadBlock, ExecCommand, Running, ReadingCode, Done
  <2>2. /\ host = "write" => SentIn("write", 3) = 0
        /\ host = "read" => SentIn("read", 3) = 0
        /\ host = "exec" => SentIn("exec", 2) = 0
    BY <1>1 DEF SentIn
  <2>3. CASE AllLoaded
    BY <1>1, <2>3 DEF AllLoaded
  <2>4. CASE WriteCommand
    BY <1>1, <2>2, <2>4, CarriesBounds DEF WriteCommand
  <2>5. CASE ReadCommand
    BY <1>1, <2>2, <2>5, CarriesBounds DEF ReadCommand
  <2>6. CASE ExecCommand
    BY <1>1, <2>2, <2>6, CarriesBounds DEF ExecCommand
  <2> QED
    BY <2>1, <2>3, <2>4, <2>5, <2>6
<1>2. UartInv => QuietBetweenCommands
  BY <1>1 DEF QuietBetweenCommands
<1> QED
  BY <1>2, UartState, PTL

(* What the host has read back is the section so far, and the exit code is *)
(* the program's return value.                                             *)
THEOREM HostReadsRight == Spec => []HostGetsRight
<1>1. ASSUME UartInv, host = "r_data"
      PROVE  got = SubSeq(image, 1, Len(got))
  <2>1. ReadBlock /\ UartType
    BY <1>1 DEF UartInv, Phase, Settling, Challenging, WriteCommand, WriteBlock,
      AllLoaded, ReadCommand, ExecCommand, Running, ReadingCode, Done
  <2>2. /\ got \in Seq(Symbols) /\ Len(got) \in Nat /\ Len(got) <= Len(image)
        /\ image \in Seq(DataBytes)
        /\ \A j \in 1 .. Len(got) : got[j] = image[j]
    BY <2>1, ImagesAssumption DEF ReadBlock, UartType, Carries
  <2> QED
    BY <2>2
<1>2. ASSUME UartInv, host = "done"
      PROVE  got = retval
  BY <1>2 DEF UartInv, Phase, Settling, Challenging, WriteCommand, WriteBlock,
    AllLoaded, ReadCommand, ReadBlock, ExecCommand, Running, ReadingCode, Done
<1>3. UartInv => HostGetsRight
  BY <1>1, <1>2 DEF HostGetsRight
<1> QED
  BY <1>3, UartState, PTL
===========================================================================
