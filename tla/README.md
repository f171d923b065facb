# TLA+ models of the Cheshire boot software

This directory holds TLA+ specifications of the software that brings a Cheshire
SoC from reset to its first program: the boot ROM, the drivers it uses, the
zero-stage loader it can start, the host that preloads programs from outside,
and the address map the hardware generates. TLC checks the specifications on
small instances; TLAPS proves their safety properties for every value of the
constants. Paths below are relative to `src/`.

## The system

| Component | Source | State | Operations | Hard part | Module |
|---|---|---|---|---|---|
| SMP barrier | `sw/include/smp.h`, `hw/bootrom/cheshire_bootrom.S` | CLINT `msip` bits, scratch 4 and 5, each hart's program counter and registers | `smp_pause`, `smp_resume`, `boot_next_stage` | harts interleave load by load | `SmpBoot`, `SmpBarrier` |
| Boot flow | `cheshire_bootrom.S`, `cheshire_bootrom.c`, `sw/lib/crt0.S` | LLC configuration, scratch 0 to 2, return address | LLC set-up, platform ROM, `main`, passive polling, next stage, `_exit` | a host writes the same registers while the ROM polls them | `BootRom` |
| UART debug server | `sw/lib/hal/uart_debug.c`, `sw/lib/dif/uart.c` | two FIFOs, position in a command | `check`, `serve` (READ, WRITE, EXEC) | unframed bytes, bounded FIFOs | `UartDebug` |
| SD card driver | `sw/lib/hal/spi_sdcard.c` | polling counters, block and swap buffer; the card's state and stream | activation, block read with CRC check | late, failing or unsuitable card, unaligned ends | `SdActivate`, `SdCard` |
| GPT loader, ZSL | `sw/lib/gpt.c`, `sw/boot/zsl.c` | table position, chosen range, loaded parts | signature check, partition search, copy, launch | boundary arithmetic, partial failure | `GptLoader` |
| Timer functions | `sw/lib/dif/clint.c` | `mtime`, `mtimecmp`, `mcycle` | spin, sleep, frequency measurement | a 64-bit counter read in two loads | `Clint` |
| Test bench host | `target/sim/src/vip_cheshire_soc.sv`, `tb_cheshire_soc.sv` | poll and transfer loops | preload, launch, wait for the end | races with the ROM | environment of `BootRom` and `UartDebug`; `Preload` |
| ELF loader | `target/sim/src/elfloader.cpp` | section table, contents, entry point, section index | `read_elf`, `get_section`, `read_section`, `get_entry` | state that outlives a file, padded and unaligned sections | `Preload` |
| I2C EEPROM driver | `sw/lib/hal/i2c_24fc1025.c` | the FIFOs of the I2C host | read, write | FIFO levels, chunk and block boundaries | `Eeprom` |
| SPI NOR flash driver | `sw/lib/hal/spi_s25fs512s.c` | page and step; the flash's write enable and busy bits | read, flash | commands to a busy flash | `NorFlash` |
| Read function | `sw/include/gpt.h`, `cheshire_bootrom.c` | the medium, the caller's buffer | `gpt_read_t` | three drivers behind one promise | `ReadFn`, `BootMedia` |
| DMA driver | `sw/include/dif/dma.h` | transfer registers, done identifier | four copies | registers that keep their values, several users | `Dma` |
| Address map | `hw/cheshire_pkg.sv` | none (functions of the configuration) | `gen_axi_in`, `gen_axi_out`, `gen_reg_out` | numbering of optional ports, two decoders in a row | `AddrMap` |
| SoC top | `hw/cheshire_soc.sv` | wiring, region remap, interrupt fan-out | - | mostly vendored IP | its two decoders, in `AddrMap` |

How they interact: every hart enters the boot ROM. Hart 0 goes on alone
(`smp_pause`) and runs `main`, which picks a boot mode: passive, where a host
loads a program and signals through the scratch registers or the UART, or
autonomous, where the GPT loader reads a zero-stage loader from an SD card, a
NOR flash or an EEPROM and leaves its read function in the scratch registers
for that loader to use again. Both end in `boot_next_stage`, where hart 0
releases the others. A program that returns stores its exit code in scratch 2,
where the host polls it.

`BootRom` is the view of one hart over the whole flow. `SmpBoot` refines its
step `NextStage` to all harts, `UartDebug` its steps `ServeExec` and
`ServeUnknown`, `GptLoader` its steps `MediaLoads` and `MediaFails`, `Preload` its
step `HostPreload`; `Clint` has the calibration, the step `Calibrated`. These
connections are by reading, not by a checked refinement: each module abstracts
the others by what they can return. The read function that `GptLoader` takes for
granted is stated in `ReadFn`, and that the drivers implement it is checked and
proved.

## Modules

**`SmpBarrier`** is the abstract barrier: an entry point is published, harts
wake, and none leaves before all have woken, all for the published address.

**`SmpBoot`** has one action per load or store of `smp_pause`, `smp_resume` and
`boot_next_stage`; registers between two accesses belong to the action that
uses them. `Notify` is the loop at label 1, `Wakeup` the `wfi` loop at label 2,
`Scan` the loop at label 3. `NextStageIpi` is external: OpenSBI, once running on
a hart, may interrupt another.

**`BootRom`** follows one hart by labels. `platform` is the configuration of a
run and never changes. A JTAG host halts the hart at any point after the LLC
poll and resumes it at its own entry; a serial link host writes scratch 1, 0
and 2 in this order. The self test, the medium, the platform ROM and the program
itself may take forever. `ra` is tracked because a JTAG program returns to whatever
the ROM was going to return to. Before `_boot` calls `main` that is nowhere
("lost"). While `main` is in its call of `clint_get_core_freq` it is the middle of
`main` ("select"): a program started there returns into `main`, which runs on into
the poll loop and finds the exit code in `scratch[2]`. In the loop it is `_exit`,
as `boot_passive` is a tail call. `reentered` records such a return, and `Relaunch`
names the case in which the loop takes the code for a launch signal, that of an odd
code: it then clears the word and goes to whatever `scratch[1:0]` hold. Exit
codes are stored as 32-bit words (`Flagged`), which cuts the sign bit off.

**`UartDebug`** takes bytes one at a time from two queues. A 64-bit argument is
one symbol, the return value `RetLen` symbols. Data bytes include protocol bytes
on purpose: only position tells them apart. Noise before the host starts is
never an ACK.

**`ReadFn`** is what `gpt_read_t` promises: only the buffer is written while a
read is under way, and a return value of zero means that it holds the bytes.

**`BootMedia`** composes the drivers behind that function pointer. `medium` is
the boot mode's choice; `call`, `dst`, `ret`, `pc` and `offs` are shared by the
drivers, of which only the chosen one runs. `dst` is a window of the caller's
memory around the buffer, so that a store outside of it shows. The caller goes
on after a read that failed, of whatever kind. `promised` is a history variable:
whether the contract covers the bytes of the last read. It does not cover a read in
the upper block of the EEPROM, nor a read of a card that has something left to say
from before (`LineSettled`): a late answer, or a stream of several blocks that
failed without the command that stops it. The buffer of an EEPROM read is what the
driver stores: up to the next FIFO boundary at least.

**`Eeprom`** is the I2C driver with the host's FIFOs. A chunk waits for empty
FIFOs, switches the host off, queues its message (`FillRead`, `FillWrite`) and
switches it on; `Bus` plays one entry at a time to the device, whose byte at an
address is the address. Control bytes are computed as in the code and cut to
eight bits where the DIF does.

**`NorFlash`** has one action per SPI transaction. The flash obeys an erase or a
program only with its write enable latch set, drops the latch, and may fail.

**`SdActivate`** has one action per command of `spi_sdcard_init`, each of which
may meet silence. The card is of a version 1 or 2, refuses the voltage, or the
line is stuck at zero. `Fits` enumerates the comparisons that builds may make of
a five-byte response, whose mask is an undefined shift.

**`SdCard`** transfers one SPI symbol per action (a CRC is one ideal symbol), so
the card streams on while the driver sends a command. A read is of bytes, and
goes through the swap buffer at unaligned ends as in the code. The card may wait,
answer with an error, send an error token or corrupt a block.

**`GptLoader`** reads header, entry, and entry type with one call each, any of
which may fail. The same search runs in the ROM (where a miss falls back to the
first entry) and in the ZSL (where it stops), then the copies, then the jump.

**`Clint`** makes one call to one timer function with a clock of cycles that
advances by 1 to `MaxDelay` at each step. `mtime` has two words, and the high
one is read first, the order in the shipped ROM image; the C expression leaves it
open, and the mutant `GetLowFirst` shows what the other order does.

**`Preload`** loads files one after the other through the four calls of the ELF
loader, whose tables are globals, and copies their sections in doublewords
(JTAG) or bursts of beats (serial link). A file is what the loader looks at in
it; its bytes name the file and their place. `read_elf` takes one program header
at a time (`LoadHeader`), as its loop does.

**`Dma`** has one action per register store, one for the read that launches and
one for the poll. The driver has no lock, so the users must take turns: `turns`
says whether a turn covers a whole call or ends with the launch.

**`AddrMap`** has the generators as sequences of devices: the port of a device is
the number of ports taken up to it, in six bits. `AxiDecode` and `RegDecode` are
the two decoders; of several matching rules the last wins. `Outside` holds the
regions that a configuration chooses (memory, serial link, one external region on
either bus), and `Addrs` the addresses accessed; the run takes the defaults and the
ends of all regions.

The modules also have a few definitions marked "Fault": wrong variants of a
definition that no specification uses. Each of them breaks one property, which
shows that the property depends on the code.

## Runs

| Run | Shows | Bounds |
|---|---|---|
| `smp_boot` | `EntryAgreement`, the inductive `HandOverInv` (which includes the barrier), `RefinesBarrier`, `AllHartsJump` | 3 harts: a hart ahead, one behind and one being scanned; 2 words, so that a mixed address differs from both |
| `bootrom` | right entry point, exit code, no re-entry but for `Relaunch`, launches honoured, ends reported | 14 platforms; ints of 3 bits, so return codes -4 to 3 (both signs and parities); 3 words |
| `uart_debug` | host and server in step, section, read-back and exit code right, quiet between commands, completion | sections of 3 and 2 bytes in blocks of 2 (short and empty last block), FIFOs of 2, 2 printed bytes |
| `media` | reads of all three media implement `ReadFn` (`KeepsContract`), no FIFO overflow, no command to a busy flash, flashing stays in its pages, only an activated card is read, the card is released after success, calls return | EEPROM: FIFO of 8, accesses of 1 to 19 bytes, aligned or not, that fall short of a FIFO boundary or cross one or two, in the lower block, over its end and in the upper one; flash: 3 pages of 4 bytes, chunks of 4; card: 2 blocks of 3 bytes, reads of up to 5 bytes from any byte and past the end, 2 reads, answers after the driver has given up |
| `gpt` | the first fitting partition is found, what is loaded fits, the right parts, no entry after a failed search or copy in the ROM, boot ends | up to 3 entries, sizes at the limit and one above |
| `clint` | no read of `mtime` is ahead of it, no spin is short, the measured frequency is within its error, all calls return | words of 8 values so that both words roll over, 10 cycles per tick, delays of 1 and 2, calls around the roll-over |
| `preload` | segments and entry point of the last file in place, padding below a doubleword, the host gives up only for named reasons | doublewords of 4, bursts of 8; two files in a row, the first with two segments adjacent, apart or unaligned, with and without `.bss` |
| `dma` | each launch is of the copy asked for, blocking copies return only when done, and do return | 2 harts, one copy of each kind, blocking or not, 4 transfers |
| `addrmap` | an access ends at the device of its region, ports are dense | both ends of every region; 360 choices of devices with 2 cores, the largest sets with 1 and 23 |

A FIFO of two entries is enough for the UART because the protocol never needs
more in flight than one and any smaller FIFO would be a rendezvous. Two
successive SD reads are the fewest in which one can leave the card in a state that
hurts the next (the proof is for any number); two files are the fewest in which one
meets the tables of another. With 23 cores and all devices the six-bit port type is full.

Three further runs end in a violation. Each checks a sentence of a document or a
comment against what the code does:

- `bootrom_doc_reentry`: a program started over JTAG while `main` calibrates the
  clock returns into `main`; if its code is odd, the poll loop enters a program again.
- `gpt_doc_launch`: the ZSL ignores a failed copy, prints OK and jumps.
- `addrmap_doc`: no rule of the crossbar leads to the CLICs of the memory map.

The properties name what they except. Met while modelling, and not checked by a
run of their own:

- **I2C**: an unaligned read that does not reach the next FIFO boundary stores up
  to that boundary (`i2c_24fc1025.c:106`). The GPT loader reads 16 bytes at 0x248,
  so 56 bytes are stored; `KeepsContract` shows that no store goes beyond the
  boundary. An address in the upper block loses its select bit (`:58`). Writes
  never queue a stop (`:72`), and the second half transfer starts at `buf + len`
  (`:77`).
- **NOR flash**: one write enable is sent for all pages, so only the first erase is
  obeyed, and the page program has a receive segment (`spi_s25fs512s.c:104,119`).
- **SD card**: a response in the last of eight polls is reported as a timeout
  (`spi_sdcard.c:135`). A multi-block read that fails returns before CMD12 (`:259`), so
  the card streams on; and the driver does not drain what a card sends after it
  has given up: the response and the block that come late are taken by the next
  read, which then returns the earlier block as its own. So does a read after a
  multi-block read that failed, and the ZSL makes such reads (`zsl.c:44,80`). Both are
  in the `media` run, as the two cases that `LineSettled` excepts. A response of
  zeros that does not fit counts as success (`:160`); the OCR is discarded, so a
  standard capacity card is addressed wrongly (`:179`). The power-up time is waited
  out after the activation (`cheshire_bootrom.c:46`).
- **Timer**: `clint_sleep_until` has the sides of its first comparison exchanged
  (`clint.c:56`): it returns at once when the target is still to come, and arms the
  comparator only for one that has been reached.
- **Boot ROM**: it launches on bit 1 of `scratch[2]`, `docs/um/sw.md:52` says bit 0. The
  store of the exit code loses the sign of a negative one (`crt0.S:126`). A
  platform ROM that returns falls through to `boot_next_stage` and never reaches
  `main` (`cheshire_bootrom.S:86`). The host's wait for `CFG_SPM_LOW`
  (`vip_cheshire_soc.sv:293`) can end two stores before the ROM's commit, so the
  model has preloads that overtake it.
- **UART debug**: after EXEC the server sends EOC, `docs/um/sw.md:60` says ACK.
- **GPT**: the fall-back takes table entry 0 even when it is unused (`gpt.c:46`).
- **ELF loader**: a truncated header table is success with the old entry point
  (`elfloader.cpp:224`); a segment at an address an earlier file used gets the
  earlier contents (`:163`).
- **Serial link preload**: a section that fills its last burst is fatal
  (`vip_cheshire_soc.sv:816`), and an unaligned one longer than a burst loses bytes.
- **Address map**: without `LlcOutConnect` the scratchpad's rules direct it to the
  register demux (`cheshire_pkg.sv:344`), so the runs couple the two options. From
  24 cores on, CLICs and bus error units overflow the port type.

Deadlock is not checked: all of these programs stop (a parked hart, a halted
ROM, an ended session), and so do the models when their bound on calls is
reached. That they stop only where they should is what the liveness properties
say.

## Fairness

Weak fairness is on the steps of code that runs by itself: a hart in the ROM
(no scheduler can take it away), the host's loops, the LLC self test, a card
that is streaming, the I2C host while it is on, a flash that was told to work, a
card that was told to start (unless it refuses the voltage), the DMA engine and
each hart that copies. `UartDebug` also assumes that the loaded program returns.
Nothing is assumed of the boot medium, a platform ROM or a launched program in
`BootRom`, of the boot code before `boot_next_stage` in `SmpBoot`, or of a
silent SD card. In `Clint` and `GptLoader` it is on the whole next-state
relation: one processor executes one instruction stream.

`CallsReturn` says which waits have no bound: the busy bit of a flash that failed,
and ACMD41 for a card that refuses the voltage. `WaitsEnd` is about users that
keep the engine for a whole call; with shorter turns `done` may run past an
identifier between two polls. `Preload` and `AddrMap` state no liveness: their
hosts and decoders are straight-line loops over finite lists.

`AllHartsJump` does not assume that the next stage sends no interrupt: it says
that this is the only thing that can keep a hart in the scan.

## Proofs

`SmpBoot_proofs` proves, for any number of harts and any set of words:

- `Typing`: `TypeOK` is an invariant.
- `HandOver`: `HandOverInv` is an invariant.
- `BarrierHolds`, `EntryAgreementHolds`, `NoLostWakeupHolds`: they follow from it.
- `Refinement`: every step of `SmpBoot` is a step of `SmpBarrier` or a stutter.

The barrier is not inductive: a hart leaves because it saw all bits clear, one
after the other, and a bit is also clear before its hart is woken.
`HandOverInv` therefore adds `BitTellsAck` (a hart has a clear bit exactly when
it has not been notified or has acknowledged), `ScanPrefix` (what a scanning hart has passed
has acknowledged; bits that rise again do not matter since acknowledging is
never undone), `OneBootHart` and `ScratchHoldsEntry`. The assumptions are that
there is at least one hart, that the boot hart is hart 0 and that `None` is no
word. The second is needed: the notifying loop starts at `msip[0]`, so with
another boot hart, one that is woken early could find the remaining bits not yet
raised.

`Soc_proofs` proves of the DMA engine, for any number of harts, any copies and any
number of calls:

- `DriverState`: `DmaInv` is an invariant.
- `LaunchIsRight`: `LaunchesWhatWasAsked` is an invariant.
- `ReturnIsAfterDone`: `ReturnsAfterDone` holds of every step.

What a launch finds in the registers is the end of a sequence of stores, so the
invariant is about its beginnings: `WriterOwns` (a hart that stores has the
engine, so there is one) and `StoredSoFar` (the registers hold what it has stored
up to now; a later store is to another register, lemma `StoresFacts`). That a copy
is done when its identifier is read needs `JobsInOrder`: the queue holds exactly
the identifiers after the last one done. The assumptions are that strided copies
have at least one repetition (with none, the engine makes a plain copy) and that
`NoHart` is no hart.

`Soc_proofs` also proves of the interconnect, for any configurations, any regions
they choose and any addresses:

- `AccessState`: `AccessInv` is an invariant.
- `AccessHolds`: `AccessReachesDevice` is an invariant.
- `PortsHold`: `PortsAreDense` is an invariant.

What a decoder answers follows from two facts about the lists: no two devices of a
list share an address (`AxiSole`, `RegSole`), so the last rule that matches is one of
the only device that has the address; and the registers behind the demux lie where
the crossbar leads to it (`RegHolder`), which is what the CLICs lack. Between the two decoders
`PassedOn` must hold: an access that is passed on met no other device. That the ports
are dense is a count (`ListIsDense`): the port counter differs at any two devices
that take a port (`CountersDiffer`) and stays below their number, so it takes every
value below it. The assumptions are about configurations: their ports fit the six-bit
index (`PortsFit`: the code does not check it, and with all devices it fails from 24
cores on), a scratchpad comes with the output of the cache, the scratchpad fits its
64 MiB, and the regions that are chosen start at `0x2000_0000` or above and do not
collide, as `docs/um/arch.md` asks of them.

`BootRom_proofs` proves, for any platforms, entry points and return codes, however
host and hart interleave:

- `BootState`: `BootInv` is an invariant.
- `EntryIsRight`, `ExitCodeIsRight`: `RightEntry` and `ExitCodeIsOutcome` are invariants.
- `ExitCodeStaysPut`, `NoSecondBoot`: `ExitCodeStable` and `NoReboot` hold of every step.

All of them hold with programs that return into `main`; what they except is
`Relaunch`, by name, and `bootrom_doc_reentry` shows that it happens. None of these
is inductive, because each is about what the two ends find in the scratch
registers. `BootInv` says which places of host and hart go together
(`HostAhead`: until the host has launched, the hart is before a launch), what
`scratch[2]` holds at each (`SignalInv`: zero, the launch signal, or the exit
code), how far the two words of the entry point have come (`WordsInPlace`), and
where the hart can be once a program has returned into `main` (`ReentryInv`: unless
its code is a signal, in the part of `main` that leads to the poll loop, or in it).
`PromAssumption` is needed: a platform ROM that launches a program of its own
while a host preloads another would be a second writer of the scratch registers.
The test bench has no platform ROM in its configuration.

`UartDebug_proofs` proves, for any data, sections, block sizes, FIFO depths and
lengths of the return value:

- `UartState`: `UartInv` is an invariant.
- `EndsStayInStep`, `SectionIsLoaded`, `CommandsAreApart`, `HostReadsRight`: `InStep`,
  `SectionLoaded`, `QuietBetweenCommands` and `HostGetsRight` follow from it.

Nothing in the byte stream tells a command from data, so what must be known is
how much of a message has been taken. `UartInv` is a disjunction over the phases
of the protocol; each says what the two FIFOs carry (`Carries(q, m, a, b)`: the
members of message `m` after the `a`-th, up to the `b`-th) in each pair of states
that host and server can be in. `LineAssumption` says what the protocol has no
escape for: no ACK in the noise before the host starts, and no EOC in what the
program prints.

`GptLoader_proofs` proves, for tables of any length and any size limits:

- `ChainState`: `GptInv` is an invariant.
- `SearchIsRight`, `EveryLoadFits`, `PartsAreRight`, `FailureStopsRom`: `FirstFit`,
  `LoadsFit`, `RightParts` and `NoEntryAfterFailure` follow from it.

`SearchInv` is the loop invariant of `gpt_find_partition`: no entry passed over
matches, and the range is that of the first entry until a match replaces it.
`RangeInv` carries the size of the range to the copy. The assumption is that a
partition does not end before it begins, as the code takes for granted.

`Clint_proofs` proves, for any clock, word size, reference frequency and delays,
and without a bound on time:

- `ClintState`: `ClintInv` is an invariant.
- `TimeNeverAhead`, `SpinsAreLongEnough`, `FrequencyIsAccurate`: `NeverAhead`,
  `SpinsLongEnough` and `FreqAccurate` follow from it.

`ReadInv` says that a half-read time lags behind. `FreqInv` follows the
measurement: each captured cycle count is within two of the longest delays of the
first cycle of the tick it is taken for, and lemma `Accuracy` turns the two
distances into the error of the quotient.

`BootMedia_proofs` proves, for any contents and sizes of the media, any FIFO depths,
timeouts and chunk sizes, and any calls of any number:

- `MediaState`: `MediaInv` is an invariant.
- `FifoHoldsAlways`, `NothingIsLost`, `ActiveCardIsRead`, `SuccessIsClean`: `FifoHolds`,
  `NothingLost`, `ReadsActiveCard` and `CleanAfterSuccess` follow from it.
- `OnlyThesePages`: `OnlyRequestedPages` holds of every step.
- `ContractIsKept`: every step is a step of `ReadFn` or a stutter (`KeepsContract`).

`MediaInv` has one part for each driver. For the EEPROM, a message under way is a
list that the bus takes from the front, so `Receiving` says of each length of the
rest what the device has been told and what the RX FIFO holds; a chunk is queued
into empty FIFOs (`EepromFifos`), and every byte before the chunk is in place
(`EepromRead`). For the flash, nothing is sent while a sector is worked on
(`NorQuiet`), and that sector is one of the page under way (`NorPages`). The SD
card is the hard one, because the driver knows the card only by symbols that it
may take for something else: what an earlier read left on the line can be read as
a response, a token or data. The invariant therefore says what the line can be
taken for. A block on the line comes to its end as a CRC, which only the block
asked for satisfies: what ends in another CRC has no response or token before the
block (`Quiet`), or too few symbols to fill one (`Starved`), or has had a CRC taken
for data (`Spoilt`); otherwise the block is the one waited for (`Current`).
`ResponseInv`, `StreamInv` and `IdleInv` say which of these can be at each place.

Of reads that are not promised nothing is said about the line or about bytes: the
parts of the invariant that concern the card's stream start from `promised`, and
the others hold of the driver's own state whatever the card sends. What makes a read
promised is its state at the call (`LineSettled`), so the proof has to show that a
promised read which ends, well or not, leaves the line settled, but for the two named
cases. With either of them dropped from `LineSettled`, TLC finds a read
that succeeds with the bytes of another block.

The assumptions: buffers, up to the FIFO boundary that an EEPROM read fills, lie
within the memory looked at; what is read of the lower block of the EEPROM is looked
at, and reads of the flash lie within it; a FIFO has an even number of 8 to 255
entries, so that it holds the header of a message and a message's length fits a byte;
and a block of the EEPROM is 64 KiB, a multiple of the FIFO's depth. Nothing is
assumed of how late a card answers.

`Preload_proofs` proves, for any files in any number, any sizes of doublewords and
bursts, and either link:

- `PreloadState`: `PreloadInv` is an invariant.
- `ProgramIsInPlace`, `PaddingIsBounded`, `RefusalsAreNamed`: `ProgramInPlace`,
  `PaddingBounded` and `GivesUpOnlyFor` follow from it.

The loader's tables outlive a file, so the invariant says which of their members
are whose: contents come from headers that have been read (`ContentsInv`), and the
sections still to be handed out are those of the last file (`PendingInv`).
`SegmentsInv` follows a segment of the last file from its header to memory: it is
a section, all sections after it lie above it, and once its section is copied, it
stays in place, because neither host writes below the section it copies.
`CopyInv` is the loop invariant of the copy; that the beats of a burst are its
first ones (lemma `BeatsFacts`) makes a burst reach to the end of the section. The
assumptions are about files, and the loader checks neither of them: loadable segments are
in ascending order without overlap, as linkers put them, and none has more data
than memory. Without the first, the padding of a segment copied last can overwrite
the start of one that lies above it.

Only model-checked are all liveness properties (`AllHartsJump`, `LaunchHonoured`,
`EndReported`, `Completes`, `BootEnds`, `Returns`, `CallsReturn`, `WaitsEnd`): TLAPS
does not reason about `ENABLED`, so not about fairness. Every safety property that a
run finds to hold is a theorem.

## Not modelled

`spi_sdcard_read_ignorecrc`, which nothing calls, and `dma_get_status`, which only
reads; argument checks of the `init` functions, and failures of the OpenTitan DIF
calls, which only fail for bad arguments; the cores' region tables and ID maps of
`cheshire_pkg.sv`; the C runtime except its return path; generated files (register
file, ROM image, register headers), the FPGA targets and their fan controller,
constraints and build scripts, and the SystemVerilog of the SoC, which mostly
wires vendored IP. Register formats, UART baud rates and SPI clock dividers are
left out, as is `printf`. A CRC is ideal. Memory is consistent: caches and the
effect of `fence` are not modelled.

## Plan

`Runtime`: zeroing of `.bss` and the trap path of `crt0.S`.
