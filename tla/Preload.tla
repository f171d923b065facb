------------------------------ MODULE Preload ------------------------------
(***************************************************************************)
(* How the test bench puts a program into memory: the ELF loader           *)
(* (elfloader.cpp), a C library with global state behind four calls, and   *)
(* the two hosts that copy its sections over a wide bus (vip_cheshire_soc):*)
(* JTAG in doublewords, the serial link in bursts of beats.                *)
(*                                                                         *)
(* Memory is a function from addresses to bytes.  The bytes of a file are  *)
(* values that name the file and the place they belong to, so that a byte  *)
(* in a wrong place, or of a wrong file, shows.                            *)
(***************************************************************************)
EXTENDS Integers, Sequences, FiniteSets

CONSTANTS Width,      \* bytes of a doubleword and of a beat (8 in the code)
          Burst,      \* SlinkBurstBytes
          MemSize,    \* bytes of memory
          Files,      \* the files that may be loaded first, second, ...
          Junk        \* a byte of memory nobody has written

ASSUME PreloadAssumption ==
  {Width, Burst, MemSize} \subseteq Nat \ {0} /\ Burst % Width = 0 /\ MemSize % Width = 0

VARIABLES link,           \* "jtag" or "slink"
          mem,            \* memory of the system
          sections,       \* of the loader: sequence of [addr, len]
          mems,           \* of the loader: contents by start address
          entry,          \* of the loader: entry point of the last file
          section_index,  \* of the loader: how many sections were handed out
          loads,          \* the files loaded so far
          header,         \* of read_elf: the program header it looks at
          host,           \* where the host is
          sec,            \* the section being copied: [addr, bf]
          i,              \* loop counter of the copy
          started         \* entry points that were launched

loaderVars == <<sections, mems, entry, section_index>>
vars == <<link, mem, loaderVars, loads, header, host, sec, i, started>>

Addresses == 0 .. MemSize - 1
MaxLoads == Len(Files)

(* What the loader looks at in a file: whether it can be mapped and is an  *)
(* ELF file, whether its program headers and its data are all there, the   *)
(* entry point, and of each program header whether it is PT_LOAD, and its  *)
(* p_paddr, p_filesz and p_memsz.                                          *)
Elf == [kind : {"no_elf", "no_headers", "no_data", "whole"}, name : Nat, entry : Nat,
        ph : Seq([load : BOOLEAN, paddr : Nat, filesz : Nat, memsz : Nat])]

(* load_elf: a header with a size in memory and data in the file becomes a  *)
(* section.                                                                 *)
Loadable(p) == p.load /\ p.memsz > 0 /\ p.filesz > 0

(* A linker sorts the segments by address and lets none overlap another.    *)
Ascending(ph) ==
  \A k, n \in DOMAIN ph :
    k < n /\ Loadable(ph[k]) /\ Loadable(ph[n]) => ph[k].paddr + ph[k].memsz <= ph[n].paddr

ASSUME FilesAssumption ==
  \A n \in DOMAIN Files : \A f \in Files[n] :
    /\ f \in Elf /\ Ascending(f.ph)
    /\ \A k \in DOMAIN f.ph : f.ph[k].filesz <= f.ph[k].memsz

Content(f, p) == [k \in 1 .. p.filesz |-> 100 * f.name + p.paddr + k - 1]

Init == /\ link \in {"jtag", "slink"} /\ mem = [a \in Addresses |-> Junk]
        /\ sections = <<>> /\ mems = [a \in {} |-> <<>>] /\ entry = 0 /\ section_index = 0
        /\ loads = <<>> /\ header = 1 /\ host = "idle" /\ sec = [addr |-> 0, bf |-> <<>>] /\ i = 0
        /\ started = <<>>
---------------------------------------------------------------------------
File == loads[Len(loads)]

(* std::map::insert keeps what is there already.                           *)
Insert(p) ==
  [a \in DOMAIN mems \cup {p.paddr} |-> IF a \in DOMAIN mems THEN mems[a] ELSE Content(File, p)]

(* Fault: a section is sized by what the file holds of it.                 *)
SectionFilesz(p) == [addr |-> p.paddr, len |-> p.filesz]

SectionOf(p) == [addr |-> p.paddr, len |-> p.memsz]

(* read_elf: a file that is no ELF file is reported, a truncated header    *)
(* table is not, and truncated data fails an assertion.                    *)
ReadElf(f) ==
  /\ host = "idle" /\ Len(loads) < MaxLoads
  /\ loads' = Append(loads, f) /\ header' = 1
  /\ host' = CASE f.kind \in {"no_elf", "no_data"} -> "fatal"
               [] f.kind = "no_headers" -> "get"
               [] f.kind = "whole" -> "read"
  /\ entry' = IF f.kind = "whole" THEN f.entry ELSE entry
  /\ UNCHANGED <<link, mem, sections, mems, section_index, sec, i, started>>

(* The loop over the program headers.                                      *)
LoadHeader ==
  /\ host = "read" /\ header <= Len(File.ph)
  /\ header' = header + 1
  /\ LET p == File.ph[header] IN
     IF Loadable(p) THEN sections' = Append(sections, SectionOf(p)) /\ mems' = Insert(p)
                    ELSE UNCHANGED <<sections, mems>>
  /\ UNCHANGED <<link, mem, entry, section_index, loads, host, sec, i, started>>

EndHeaders ==
  /\ host = "read" /\ header > Len(File.ph) /\ host' = "get"
  /\ UNCHANGED <<link, mem, loaderVars, loads, header, sec, i, started>>

(* Fault: a section that is filled by its data is refused.                 *)
GetSectionFull ==
  /\ host = "get" /\ section_index < Len(sections)
  /\ section_index' = section_index + 1
  /\ LET s == sections[section_index']
         data == mems[s.addr] IN
     /\ host' = IF Len(data) >= s.len THEN "fatal" ELSE "copy"
     /\ sec' = [addr |-> s.addr, bf |-> data]
  /\ i' = 0
  /\ UNCHANGED <<link, mem, sections, mems, entry, loads, header, started>>

(* get_section, then read_section into a fresh buffer, zero beyond the     *)
(* data; more data than buffer is an error.                                *)
GetSection ==
  /\ host = "get" /\ section_index < Len(sections)
  /\ section_index' = section_index + 1
  /\ LET s == sections[section_index']
         data == mems[s.addr] IN
     /\ host' = IF Len(data) > s.len THEN "fatal" ELSE "copy"
     /\ sec' = [addr |-> s.addr,
                bf |-> [k \in 1 .. s.len |-> IF k <= Len(data) THEN data[k] ELSE 0]]
  /\ i' = 0
  /\ UNCHANGED <<link, mem, sections, mems, entry, loads, header, started>>

(* get_entry, and the launch.                                              *)
Launch ==
  /\ host = "get" /\ section_index = Len(sections)
  /\ started' = Append(started, entry) /\ host' = "idle"
  /\ UNCHANGED <<link, mem, loaderVars, loads, header, sec, i>>
---------------------------------------------------------------------------
Bf(k) == IF k \in 0 .. Len(sec.bf) - 1 THEN sec.bf[k + 1] ELSE 0

(* The loops of both hosts run once more when the length is a multiple of  *)
(* the step.                                                               *)
EndCopy == /\ host = "copy" /\ i > Len(sec.bf) /\ host' = "get"
           /\ UNCHANGED <<link, mem, loaderVars, loads, header, sec, i, started>>

(* One doubleword over the system bus, which refuses unaligned addresses.  *)
JtagWrite ==
  /\ link = "jtag" /\ host = "copy" /\ i <= Len(sec.bf)
  /\ IF sec.addr % Width # 0
     THEN host' = "fatal" /\ UNCHANGED <<mem, i>>
     ELSE /\ mem' = [a \in Addresses |-> IF a - sec.addr \in i .. i + Width - 1
                                          THEN Bf(a - sec.addr) ELSE mem[a]]
          /\ i' = i + Width /\ UNCHANGED host
  /\ UNCHANGED <<link, loaderVars, loads, header, sec, started>>

bus_offset == sec.addr % Width

(* Fault: a burst is always full.                                          *)
BeatsFull == 0 .. Burst \div Width - 1

(* The beats of one burst: they stop at the end of the section.            *)
Beats == {b \in 0 .. Burst \div Width - 1 : i + b * Width - bus_offset < Len(sec.bf)}

(* Byte lane a of a burst is strobed from its start address on, to the end *)
(* of its last beat.                                                       *)
Strobed(a) == LET first == sec.addr + i
                  line == first - bus_offset IN
              first <= a /\ a < line + Width * Cardinality(Beats)

(* One burst; slink_write_beats refuses an empty one.                      *)
SlinkWrite ==
  /\ link = "slink" /\ host = "copy" /\ i <= Len(sec.bf)
  /\ IF Beats = {} THEN host' = "fatal" /\ UNCHANGED <<mem, i>>
     ELSE /\ mem' = [a \in Addresses |-> IF Strobed(a) THEN Bf(a - sec.addr) ELSE mem[a]]
          /\ i' = i + Burst /\ UNCHANGED host
  /\ UNCHANGED <<link, loaderVars, loads, header, sec, started>>

Host == LoadHeader \/ EndHeaders \/ GetSection \/ Launch \/ EndCopy \/ JtagWrite \/ SlinkWrite

Next == (\E f \in UNION {Files[n] : n \in {Len(loads) + 1} \cap DOMAIN Files} : ReadElf(f)) \/ Host

Spec == Init /\ [][Next]_vars
---------------------------------------------------------------------------
Launched == host = "idle" /\ loads # <<>>
Fresh(p) == \A n \in 1 .. Len(loads) - 1 : \A k \in DOMAIN loads[n].ph :
              loads[n].ph[k].paddr # p.paddr
InOneBurst(p) == p.paddr % Width = 0 \/ (link = "slink" /\ (p.paddr % Width) + p.memsz <= Burst)

(* When a whole file has been launched, memory holds every byte of each of *)
(* its segments and zeros in the rest of the segment's size in memory, and *)
(* the entry point is the file's: no write for a later section, and none   *)
(* of the padding the hosts write past the end of a section, has damaged   *)
(* it, nor has the state the loader keeps from an earlier file.  A segment *)
(* whose start address an earlier file used, or that is neither aligned    *)
(* nor within a burst, is excepted.                                        *)
InPlace(p) ==
  \A o \in 0 .. p.memsz - 1 : p.paddr + o \in Addresses =>
    mem[p.paddr + o] = IF o < p.filesz THEN 100 * File.name + p.paddr + o ELSE 0

ProgramInPlace ==
  Launched /\ File.kind = "whole" =>
    /\ started[Len(started)] = File.entry
    /\ \A k \in DOMAIN File.ph :
         LET p == File.ph[k] IN Loadable(p) /\ Fresh(p) /\ InOneBurst(p) => InPlace(p)

(* The hosts pad, but not without limit: what they write begins with a     *)
(* section and ends within a doubleword after it.                          *)
PaddingBounded ==
  \A a \in Addresses : mem[a] # Junk =>
    \E k \in 1 .. section_index :
      sections[k].addr <= a /\ a < sections[k].addr + sections[k].len + Width

(* The host gives up on a whole file only for an unaligned section over    *)
(* JTAG, for a section that fills its last burst on the serial link, or    *)
(* for a section whose address an earlier file has used.                   *)
GivesUpOnlyFor ==
  host = "fatal" /\ File.kind = "whole" =>
    \/ link = "jtag" /\ sec.addr % Width # 0
    \/ link = "slink" /\ Len(sec.bf) % Burst = 0
    \/ \E k \in DOMAIN File.ph : Loadable(File.ph[k]) /\ ~ Fresh(File.ph[k])
===========================================================================
