--------------------------- MODULE Preload_proofs ---------------------------
(***************************************************************************)
(* Proofs about the preloading of programs, for any files in any number,   *)
(* and any sizes of doublewords, bursts and memory.                        *)
(***************************************************************************)
EXTENDS Preload, TLAPS, FiniteSetTheorems

Phdr == [load : BOOLEAN, paddr : Nat, filesz : Nat, memsz : Nat]
Section == [addr : Nat, len : Nat \ {0}]
Sound(f) == /\ f \in Elf /\ Ascending(f.ph)
            /\ \A k \in DOMAIN f.ph : f.ph[k].filesz <= f.ph[k].memsz

PreloadType ==
  /\ link \in {"jtag", "slink"} /\ host \in {"idle", "read", "get", "copy", "fatal"}
  /\ sections \in Seq(Section) /\ section_index \in 0 .. Len(sections)
  /\ loads \in Seq(Elf) /\ \A n \in DOMAIN loads : Sound(loads[n])
  /\ header \in Nat \ {0} /\ i \in Nat /\ started \in Seq(Nat)
  /\ sec \in [addr : Nat, bf : Seq(Nat)]
  /\ host # "idle" => loads # <<>>

(* The contents known to the loader come from headers it has read.         *)
KnownFrom(a, n, k) ==
  /\ n = Len(loads) => k < header
  /\ Loadable(loads[n].ph[k]) /\ loads[n].ph[k].paddr = a

ContentsInv ==
  /\ \A j \in DOMAIN sections : sections[j].addr \in DOMAIN mems
  /\ \A a \in DOMAIN mems : mems[a] \in Seq(Nat) /\
       \E n \in DOMAIN loads : \E k \in DOMAIN loads[n].ph : KnownFrom(a, n, k)

(* Where the host is in the last file: what the loader and the launches    *)
(* know of its entry point, and that its headers have been read.           *)
EntryInv ==
  /\ host = "read" => File.kind = "whole"
  /\ loads # <<>> /\ File.kind = "whole" =>
       /\ host \in {"read", "get", "copy"} => entry = File.entry
       /\ host = "idle" => started # <<>> /\ started[Len(started)] = File.entry
       /\ host \in {"idle", "get", "copy"} => Len(File.ph) < header
  /\ entry \in Nat

(* The sections not handed out yet are those of the last file.             *)
PendingInv ==
  /\ host = "idle" => section_index = Len(sections)
  /\ \A j \in section_index + 1 .. Len(sections) :
       \E k \in DOMAIN File.ph :
         k < header /\ Loadable(File.ph[k]) /\ sections[j] = SectionOf(File.ph[k])

(* Each segment read from the last file is a section; those after it lie   *)
(* above it, and once its section has been copied, it is in place.         *)
Copied(j) == j <= section_index /\ (host \in {"copy", "fatal"} => j # section_index)
Handed(p, j) ==
  /\ sections[j] = SectionOf(p)
  /\ \A n \in j + 1 .. Len(sections) : p.paddr + p.memsz <= sections[n].addr
  /\ Fresh(p) => mems[p.paddr] = Content(File, p)
  /\ Copied(j) /\ Fresh(p) /\ InOneBurst(p) => InPlace(p)
SegmentsInv ==
  loads # <<>> =>
    \A k \in DOMAIN File.ph :
      k < header /\ Loadable(File.ph[k]) => \E j \in DOMAIN sections : Handed(File.ph[k], j)

(* The section under way is in memory up to the loop counter.              *)
Buffer(data, n) == [k \in 1 .. n |-> IF k <= Len(data) THEN data[k] ELSE 0]
CopyInv ==
  host = "copy" =>
    LET s == sections[section_index] IN
    /\ section_index > 0
    /\ sec = [addr |-> s.addr, bf |-> Buffer(mems[s.addr], s.len)]
    /\ link = "slink" => i % Burst = 0
    /\ s.addr % Width = 0 \/ (link = "slink" /\ (s.addr % Width) + s.len <= Burst) =>
         \A o \in 0 .. s.len - 1 :
           o < i /\ s.addr + o \in Addresses => mem[s.addr + o] = sec.bf[o + 1]

PreloadInv == PreloadType /\ ContentsInv /\ EntryInv /\ PendingInv /\ SegmentsInv /\ CopyInv
              /\ PaddingBounded /\ GivesUpOnlyFor
---------------------------------------------------------------------------
(* What is known of the constants.                                         *)
LEMMA Sizes == {Width, Burst, MemSize} \subseteq Nat \ {0} /\ Burst % Width = 0
BY PreloadAssumption

(* The members of a sequence.                                              *)
LEMMA SeqFacts ==
  ASSUME NEW S, NEW s \in Seq(S)
  PROVE  /\ Len(s) \in Nat /\ DOMAIN s = 1 .. Len(s)
         /\ \A k \in DOMAIN s : k \in Nat /\ s[k] \in S
OBVIOUS

(* The files a preload may be asked for.                                   *)
LEMMA FileFacts ==
  ASSUME NEW f \in UNION {Files[n] : n \in {Len(loads) + 1} \cap DOMAIN Files}
  PROVE  Sound(f)
BY FilesAssumption DEF Sound

(* The last file.                                                          *)
LEMMA LastFile ==
  ASSUME PreloadType, loads # <<>>
  PROVE  /\ Len(loads) \in Nat /\ Len(loads) \in DOMAIN loads /\ Sound(File)
         /\ File.ph \in Seq(Phdr)
         /\ \A k \in DOMAIN File.ph :
              /\ k \in Nat
              /\ File.ph[k] \in Phdr
              /\ File.ph[k].filesz <= File.ph[k].memsz
         /\ File.name \in Nat /\ File.entry \in Nat
<1>1. Len(loads) \in Nat /\ Len(loads) \in DOMAIN loads
  BY DEF PreloadType
<1>2. Sound(File)
  BY <1>1 DEF PreloadType, File
<1>3. /\ File.ph \in Seq(Phdr)
      /\ File.name \in Nat /\ File.entry \in Nat
  BY <1>2 DEF Sound, Elf, Phdr
<1>4. \A k \in DOMAIN File.ph : k \in Nat /\ File.ph[k] \in Phdr
  BY <1>3, SeqFacts
<1>5. \A k \in DOMAIN File.ph : File.ph[k].filesz <= File.ph[k].memsz
  BY <1>2 DEF Sound
<1> QED
  BY <1>1, <1>2, <1>3, <1>4, <1>5

(* The contents of a segment.                                              *)
LEMMA ContentFacts ==
  ASSUME NEW f \in Elf, NEW p \in Phdr
  PROVE  /\ Content(f, p) \in Seq(Nat) /\ Len(Content(f, p)) = p.filesz
         /\ \A o \in 0 .. p.filesz - 1 : Content(f, p)[o + 1] = 100 * f.name + p.paddr + o
<1>1. f.name \in Nat
  BY DEF Elf
<1> DEFINE n == p.filesz
           c(k) == 100 * f.name + p.paddr + k - 1
<1>2. n \in Nat /\ \A k \in 1 .. n : c(k) \in Nat
  BY <1>1 DEF Phdr
<1>3. Content(f, p) = [k \in 1 .. n |-> c(k)]
  BY DEF Content
<1>4. [k \in 1 .. n |-> c(k)] \in Seq(Nat) /\ Len([k \in 1 .. n |-> c(k)]) = n
  <2> HIDE DEF c, n
  <2> QED
    BY <1>2
<1>5. \A o \in 0 .. n - 1 : [k \in 1 .. n |-> c(k)][o + 1] = 100 * f.name + p.paddr + o
  BY <1>1, <1>2
<1> QED
  BY <1>3, <1>4, <1>5

(* The buffer a section is read into.                                      *)
LEMMA BufferFacts ==
  ASSUME NEW data \in Seq(Nat), NEW n \in Nat
  PROVE  /\ Buffer(data, n) \in Seq(Nat) /\ Len(Buffer(data, n)) = n
         /\ \A o \in 0 .. n - 1 :
              Buffer(data, n)[o + 1] = IF o < Len(data) THEN data[o + 1] ELSE 0
<1> DEFINE c(k) == IF k <= Len(data) THEN data[k] ELSE 0
<1>1. \A k \in 1 .. n : c(k) \in Nat
  OBVIOUS
<1>2. Buffer(data, n) = [k \in 1 .. n |-> c(k)]
  BY DEF Buffer
<1>3. [k \in 1 .. n |-> c(k)] \in Seq(Nat) /\ Len([k \in 1 .. n |-> c(k)]) = n
  <2> HIDE DEF c
  <2> QED
    BY <1>1
<1>4. \A o \in 0 .. n - 1 : c(o + 1) = IF o < Len(data) THEN data[o + 1] ELSE 0
  OBVIOUS
<1> QED
  BY <1>2, <1>3, <1>4
---------------------------------------------------------------------------
(* Reading the headers.                                                    *)
LEMMA InitLemma == Init => PreloadInv
<1> SUFFICES ASSUME Init PROVE PreloadInv
  OBVIOUS
<1>1. PreloadType
  BY DEF Init, PreloadType
<1>2. ContentsInv /\ EntryInv /\ PendingInv /\ SegmentsInv /\ CopyInv
  BY DEF Init, ContentsInv, EntryInv, PendingInv, SegmentsInv, CopyInv
<1>3. PaddingBounded /\ GivesUpOnlyFor
  BY DEF Init, PaddingBounded, GivesUpOnlyFor
<1> QED
  BY <1>1, <1>2, <1>3 DEF PreloadInv

(* A new file: nothing of it has been read, and nothing is pending.        *)
LEMMA ReadElfKeeps ==
  ASSUME PreloadInv, NEW f, Sound(f), ReadElf(f)
  PROVE  PreloadInv'
<1> USE DEF PreloadInv
<1>1. /\ loads' = Append(loads, f) /\ loads \in Seq(Elf) /\ f \in Elf
      /\ Len(loads') = Len(loads) + 1 /\ Len(loads) \in Nat /\ loads' # <<>>
      /\ loads' \in Seq(Elf) /\ File' = f /\ header' = 1
      /\ \A n \in DOMAIN loads : n \in DOMAIN loads' /\ loads'[n] = loads[n] /\ n # Len(loads')
  <2>1. loads' = Append(loads, f) /\ loads \in Seq(Elf) /\ f \in Elf /\ header' = 1
    BY DEF ReadElf, PreloadType, Sound
  <2>2. loads'[Len(loads')] = f
    BY <2>1
  <2> QED
    BY <2>1, <2>2 DEF File
<1>2. host' \in {"read", "get", "fatal"}
      /\ UNCHANGED <<link, sections, section_index, sec, i, started>>
  <2>1. f.kind \in {"no_elf", "no_headers", "no_data", "whole"}
    BY <1>1 DEF Elf
  <2> QED
    BY <2>1 DEF ReadElf
<1>3. PreloadType'
  <2>1. \A n \in DOMAIN loads' : Sound(loads'[n])
    BY <1>1 DEF PreloadType
  <2> QED
    BY <1>1, <1>2, <2>1 DEF PreloadType
<1>4. ContentsInv'
  <2>1. sections' = sections /\ mems' = mems
    BY DEF ReadElf
  <2>2. ASSUME NEW a \in DOMAIN mems
        PROVE  \E n \in DOMAIN loads' : \E k \in DOMAIN loads'[n].ph : KnownFrom(a, n, k)'
    <3>1. PICK n \in DOMAIN loads : \E k \in DOMAIN loads[n].ph : KnownFrom(a, n, k)
      BY DEF ContentsInv
    <3>2. PICK k \in DOMAIN loads[n].ph : KnownFrom(a, n, k)
      BY <3>1
    <3>3. KnownFrom(a, n, k)'
      BY <1>1, <3>2 DEF KnownFrom, Loadable
    <3> QED
      BY <1>1, <3>3
  <2> QED
    BY <2>1, <2>2 DEF ContentsInv
<1>5. EntryInv'
  BY <1>1 DEF EntryInv, ReadElf, Sound, Elf
<1>6. PendingInv'
  BY DEF PendingInv, ReadElf, PreloadType
<1>7. SegmentsInv'
  <2>1. \A k \in DOMAIN File'.ph : ~ (k < header')
    BY <1>1 DEF Sound, Elf
  <2> QED
    BY <2>1 DEF SegmentsInv
<1>8. CopyInv'
  BY <1>2 DEF CopyInv
<1>9. PaddingBounded'
  <2>1. UNCHANGED <<mem, sections, section_index>>
    BY DEF ReadElf
  <2> QED
    BY <2>1 DEF PaddingBounded
<1>10. GivesUpOnlyFor'
  BY <1>1 DEF GivesUpOnlyFor, ReadElf
<1> QED
  BY <1>3, <1>4, <1>5, <1>6, <1>7, <1>8, <1>9, <1>10

(* One header: a loadable one becomes the last section, above all earlier  *)
(* ones of the file.                                                       *)
LEMMA LoadHeaderKeeps ==
  ASSUME PreloadInv, LoadHeader
  PROVE  PreloadInv'
<1> USE DEF PreloadInv
<1>0. PICK p, h, top : p = File.ph[header] /\ h = header /\ top = Len(sections) + 1
  OBVIOUS
<1>1. /\ host = "read" /\ host' = "read" /\ header' = header + 1 /\ header \in Nat
      /\ loads # <<>> /\ header \in DOMAIN File.ph /\ p \in Phdr /\ p.filesz <= p.memsz
      /\ UNCHANGED <<link, mem, entry, section_index, loads, sec, i, started, File>>
      /\ p = File.ph[header] /\ h = header /\ h \in DOMAIN File.ph
  <2>1. /\ host = "read" /\ host' = "read" /\ header' = header + 1 /\ header <= Len(File.ph)
        /\ UNCHANGED <<link, mem, entry, section_index, loads, sec, i, started>>
    BY DEF LoadHeader
  <2>2. loads # <<>> /\ header \in Nat \ {0}
    BY <2>1 DEF PreloadType
  <2>3. header \in DOMAIN File.ph
    BY <2>1, <2>2, LastFile
  <2>4. UNCHANGED File
    BY <2>1 DEF File
  <2> QED
    BY <1>0, <2>1, <2>2, <2>3, <2>4, LastFile
<1>2. Len(sections) \in Nat /\ DOMAIN sections = 1 .. Len(sections) /\ section_index \in Nat
      /\ section_index <= Len(sections) /\ top = Len(sections) + 1
  BY <1>0 DEF PreloadType
<1>3. \A k \in DOMAIN File.ph : k \in Nat /\ (k < header + 1 => k < header \/ k = header)
  <2>1. \A k \in DOMAIN File.ph : k \in Nat
    BY <1>1, LastFile
  <2> QED
    BY <1>1, <2>1
<1>4. CASE ~ Loadable(p)
  <2>1. UNCHANGED <<sections, mems>>
    BY <1>1, <1>4 DEF LoadHeader
  <2>2. \A k \in DOMAIN File.ph : k < header + 1 /\ Loadable(File.ph[k]) => k < header
    BY <1>1, <1>3, <1>4
  <2>3. PreloadType'
    BY <1>1, <2>1 DEF PreloadType
  <2>4. ContentsInv'
    <3>1. ASSUME NEW n \in DOMAIN loads, NEW k \in DOMAIN loads[n].ph, NEW a, KnownFrom(a, n, k)
          PROVE  KnownFrom(a, n, k)'
      <4>1. n = Len(loads) => k < header + 1
        BY <1>1, <1>3, <3>1 DEF KnownFrom, File
      <4> QED
        BY <1>1, <3>1, <4>1 DEF KnownFrom, Loadable
    <3> QED
      BY <1>1, <2>1, <3>1 DEF ContentsInv
  <2>5. EntryInv'
    BY <1>1 DEF EntryInv
  <2>6. PendingInv'
    <3>1. \A k \in DOMAIN File.ph : k < header => k < header + 1
      BY <1>1, <1>3
    <3> QED
      BY <1>1, <2>1, <3>1 DEF PendingInv, SectionOf, Loadable
  <2>7. SegmentsInv'
    <3>1. \A q, j : Handed(q, j)' = Handed(q, j)
      BY <1>1, <2>1
      DEF Handed, SectionOf, Fresh, Content, Copied, InOneBurst, InPlace, Addresses, File
    <3>2. \A q : Loadable(q)' = Loadable(q)
      BY DEF Loadable
    <3> QED
      BY <1>1, <2>1, <2>2, <3>1, <3>2 DEF SegmentsInv
  <2>8. CopyInv' /\ PaddingBounded' /\ GivesUpOnlyFor'
    BY <1>1, <2>1 DEF CopyInv, PaddingBounded, GivesUpOnlyFor
  <2> QED
    BY <2>3, <2>4, <2>5, <2>6, <2>7, <2>8
<1>5. CASE Loadable(p)
  <2>1. sections' = Append(sections, SectionOf(p)) /\ mems' = Insert(p)
    BY <1>1, <1>5 DEF LoadHeader
  <2>2. SectionOf(p) \in Section /\ p.memsz > 0
    BY <1>1, <1>5 DEF SectionOf, Section, Loadable, Phdr
  <2>3. /\ sections' \in Seq(Section) /\ Len(sections') = Len(sections) + 1
        /\ DOMAIN sections' = 1 .. Len(sections) + 1 /\ sections'[Len(sections) + 1] = SectionOf(p)
        /\ \A j \in 1 .. Len(sections) : sections'[j] = sections[j]
    BY <2>1, <2>2 DEF PreloadType
  <2>4. /\ DOMAIN mems' = DOMAIN mems \cup {p.paddr}
        /\ \A a \in DOMAIN mems : mems'[a] = mems[a]
        /\ p.paddr \notin DOMAIN mems => mems'[p.paddr] = Content(File, p)
    BY <2>1 DEF Insert
  <2>5. PreloadType'
    BY <1>1, <1>2, <2>3 DEF PreloadType
  <2>6. ContentsInv'
    <3>1. \A j \in DOMAIN sections' : sections'[j].addr \in DOMAIN mems'
      BY <1>2, <2>3, <2>4 DEF ContentsInv, SectionOf
    <3>2. ASSUME NEW a \in DOMAIN mems
          PROVE  /\ mems'[a] \in Seq(Nat)
                 /\ \E n \in DOMAIN loads' : \E k \in DOMAIN loads'[n].ph : KnownFrom(a, n, k)'
      <4>1. mems[a] \in Seq(Nat)
        BY <3>2 DEF ContentsInv
      <4>2. PICK n \in DOMAIN loads : \E k \in DOMAIN loads[n].ph : KnownFrom(a, n, k)
        BY <3>2 DEF ContentsInv
      <4>3. PICK k \in DOMAIN loads[n].ph : KnownFrom(a, n, k)
        BY <4>2
      <4>4. n = Len(loads) => k < header + 1
        BY <1>1, <1>3, <4>3 DEF KnownFrom, File
      <4>5. KnownFrom(a, n, k)'
        BY <1>1, <4>3, <4>4 DEF KnownFrom, Loadable
      <4> QED
        BY <1>1, <2>4, <4>1, <4>5
    <3>3. ASSUME p.paddr \notin DOMAIN mems
          PROVE  /\ mems'[p.paddr] \in Seq(Nat)
                 /\ \E n \in DOMAIN loads' : \E k \in DOMAIN loads'[n].ph :
                      KnownFrom(p.paddr, n, k)'
      <4>1. mems'[p.paddr] \in Seq(Nat)
        BY <1>1, <2>4, <3>3, LastFile, ContentFacts DEF Sound
      <4>2. KnownFrom(p.paddr, Len(loads), h)'
        <5>1. h < header + 1
          BY <1>1
        <5> QED
          BY <1>1, <1>5, <5>1 DEF KnownFrom, Loadable, File
      <4>3. Len(loads) \in DOMAIN loads' /\ h \in DOMAIN loads'[Len(loads)].ph
        BY <1>1, LastFile DEF File
      <4> QED
        BY <1>1, <4>1, <4>2, <4>3
    <3> QED
      BY <2>4, <3>1, <3>2, <3>3 DEF ContentsInv
  <2>7. EntryInv'
    BY <1>1 DEF EntryInv
  <2>8. PendingInv'
    <3>1. \A j \in section_index + 1 .. Len(sections) :
            \E k \in DOMAIN File.ph :
              k < header + 1 /\ Loadable(File.ph[k]) /\ sections[j] = SectionOf(File.ph[k])
      BY <1>1, LastFile DEF PendingInv
    <3>2. header < header + 1 /\ Loadable(p) /\ sections'[Len(sections) + 1] = SectionOf(p)
      BY <1>1, <1>5, <2>3
    <3>3. \A j \in section_index + 1 .. Len(sections) + 1 :
            j = Len(sections) + 1 \/ j \in section_index + 1 .. Len(sections)
      BY <1>2
    <3>4. \A j \in section_index + 1 .. Len(sections) : sections'[j] = sections[j]
      BY <1>2, <2>3
    <3> QED
      BY <1>1, <2>3, <3>1, <3>2, <3>3, <3>4 DEF PendingInv, SectionOf, Loadable
  <2>9. SegmentsInv'
    <3>1. ASSUME NEW k \in DOMAIN File.ph, k < header, Loadable(File.ph[k])
          PROVE  File.ph[k].paddr + File.ph[k].memsz <= p.paddr /\ File.ph[k].memsz > 0
      <4>1. Ascending(File.ph)
        BY <1>1, LastFile DEF Sound
      <4> QED
        BY <1>1, <1>5, <3>1, <4>1 DEF Ascending, Loadable
    <3>2. ASSUME NEW k \in DOMAIN File.ph, k < header, Loadable(File.ph[k])
          PROVE  \E j \in DOMAIN sections' : Handed(File.ph[k], j)'
      <4> DEFINE q == File.ph[k]
      <4>1. PICK j \in DOMAIN sections : Handed(q, j)
        BY <1>1, <3>2 DEF SegmentsInv
      <4>2. sections'[j] = SectionOf(q) /\ j \in DOMAIN sections' /\ j \in Nat
        BY <1>2, <2>3, <4>1 DEF Handed
      <4>3. ASSUME NEW n \in j + 1 .. Len(sections')
            PROVE  q.paddr + q.memsz <= sections'[n].addr
        <5>1. CASE n = Len(sections) + 1
          BY <2>3, <3>1, <3>2, <5>1 DEF SectionOf
        <5>2. CASE n # Len(sections) + 1
          <6>1. n \in j + 1 .. Len(sections) /\ n \in 1 .. Len(sections)
            BY <1>2, <2>3, <4>2, <5>2
          <6> QED
            BY <2>3, <4>1, <6>1 DEF Handed
        <5> QED
          BY <5>1, <5>2
      <4>4. q.paddr \in DOMAIN mems
        <5>1. sections[j].addr = q.paddr
          BY <4>1 DEF Handed, SectionOf
        <5> QED
          BY <5>1 DEF ContentsInv
      <4>5. Fresh(q)' => mems'[q.paddr] = Content(File, q)
        BY <1>1, <2>4, <4>1, <4>4 DEF Handed, Fresh
      <4>6. Copied(j)' /\ Fresh(q)' /\ InOneBurst(q)' => InPlace(q)'
        BY <1>1, <4>1 DEF Handed, Copied, Fresh, InOneBurst, InPlace
      <4>7. Handed(q, j)'
        BY <1>1, <4>2, <4>3, <4>5, <4>6 DEF Handed, SectionOf, Content
      <4> QED
        BY <4>2, <4>7
    <3>3. Handed(p, top)'
      <4>1. ASSUME Fresh(p)
            PROVE  p.paddr \notin DOMAIN mems
        <5> SUFFICES ASSUME p.paddr \in DOMAIN mems PROVE FALSE
          OBVIOUS
        <5>1. PICK n \in DOMAIN loads : \E k \in DOMAIN loads[n].ph : KnownFrom(p.paddr, n, k)
          BY DEF ContentsInv
        <5>2. PICK k \in DOMAIN loads[n].ph : KnownFrom(p.paddr, n, k)
          BY <5>1
        <5>3. n = Len(loads)
          <6>1. n \in 1 .. Len(loads) /\ Len(loads) \in Nat
            BY DEF PreloadType
          <6> QED
            BY <4>1, <5>2, <6>1 DEF Fresh, KnownFrom
        <5>4. /\ k \in DOMAIN File.ph /\ k < header /\ Loadable(File.ph[k])
              /\ File.ph[k].paddr = p.paddr
          BY <5>2, <5>3 DEF KnownFrom, File
        <5>5. File.ph[k] \in Phdr
          BY <1>1, <5>4, LastFile
        <5> QED
          BY <1>1, <3>1, <5>4, <5>5 DEF Phdr
      <4>2. ~ Copied(top)'
        BY <1>1, <1>2 DEF Copied
      <4>3. Fresh(p)' => mems'[p.paddr] = Content(File, p)
        BY <1>1, <2>4, <4>1 DEF Fresh
      <4>4. sections'[top] = SectionOf(p) /\ top + 1 .. Len(sections') = {}
        BY <1>2, <2>3
      <4> QED
        BY <1>1, <1>2, <4>2, <4>3, <4>4 DEF Handed, SectionOf, Content
    <3>4. ASSUME NEW k \in DOMAIN File.ph, k < header + 1, Loadable(File.ph[k])
          PROVE  \E j \in DOMAIN sections' : Handed(File.ph[k], j)'
      <4>1. CASE k < header
        BY <3>2, <3>4, <4>1
      <4>2. CASE k = header
        BY <1>1, <1>2, <2>3, <3>3, <4>2
      <4> QED
        BY <1>3, <3>4, <4>1, <4>2
    <3> QED
      BY <1>1, <3>4 DEF SegmentsInv, Loadable
  <2>10. CopyInv' /\ GivesUpOnlyFor'
    BY <1>1 DEF CopyInv, GivesUpOnlyFor
  <2>11. PaddingBounded'
    <3>1. \A k \in 1 .. section_index : sections'[k] = sections[k]
      BY <1>2, <2>3
    <3> QED
      BY <1>1, <3>1 DEF PaddingBounded, Addresses
  <2> QED
    BY <2>5, <2>6, <2>7, <2>8, <2>9, <2>10, <2>11
<1> QED
  BY <1>4, <1>5

(* The end of the headers.                                                 *)
LEMMA EndHeadersKeeps ==
  ASSUME PreloadInv, EndHeaders
  PROVE  PreloadInv'
<1> USE DEF PreloadInv
<1>1. /\ host = "read" /\ host' = "get" /\ header > Len(File.ph)
      /\ UNCHANGED <<link, mem, loaderVars, loads, header, sec, i, started>>
  BY DEF EndHeaders
<1>2. /\ UNCHANGED <<sections, mems, entry, section_index>> /\ File' = File
      /\ Len(File.ph) < header
  <2>1. loads # <<>>
    BY <1>1 DEF PreloadType
  <2>2. Len(File.ph) \in Nat /\ header \in Nat
    BY <2>1, LastFile DEF PreloadType
  <2> QED
    BY <1>1, <2>2 DEF loaderVars, File
<1>3. PreloadType' /\ PendingInv' /\ CopyInv' /\ PaddingBounded' /\ GivesUpOnlyFor'
  BY <1>1, <1>2 DEF PreloadType, PendingInv, CopyInv, PaddingBounded, GivesUpOnlyFor,
                    SectionOf, Loadable, Addresses
<1>4. ContentsInv'
  <2>1. \A a, n, k : KnownFrom(a, n, k)' = KnownFrom(a, n, k)
    BY <1>1 DEF KnownFrom, Loadable
  <2> QED
    BY <1>1, <1>2, <2>1 DEF ContentsInv
<1>5. EntryInv'
  BY <1>1, <1>2 DEF EntryInv
<1>6. SegmentsInv'
  <2>1. \A p, j : Handed(p, j)' = Handed(p, j)
    BY <1>1, <1>2 DEF Handed, SectionOf, Fresh, Content, Copied, InOneBurst, InPlace, Addresses
  <2> QED
    BY <1>1, <1>2, <2>1 DEF SegmentsInv, Loadable
<1> QED
  BY <1>3, <1>4, <1>5, <1>6
---------------------------------------------------------------------------
(* Handing out the sections.                                               *)

(* The next section is of the last file; it is refused only if an earlier  *)
(* file has used its address.                                              *)
LEMMA GetSectionKeeps ==
  ASSUME PreloadInv, GetSection
  PROVE  PreloadInv'
<1> USE DEF PreloadInv
<1>0. PICK s, data : s = sections[section_index + 1] /\ data = mems[s.addr]
  OBVIOUS
<1>1. /\ host = "get" /\ section_index' = section_index + 1 /\ i' = 0
      /\ host' = IF Len(data) > s.len THEN "fatal" ELSE "copy"
      /\ sec' = [addr |-> s.addr, bf |-> Buffer(data, s.len)]
      /\ UNCHANGED <<link, mem, sections, mems, entry, loads, header, started, File>>
  BY <1>0 DEF GetSection, Buffer, File
<1>2. /\ section_index < Len(sections) /\ Len(sections) \in Nat /\ section_index \in Nat
      /\ section_index' \in DOMAIN sections /\ s \in Section /\ s = sections[section_index']
  <2>1. section_index < Len(sections) /\ sections \in Seq(Section) /\ section_index \in Nat
    BY DEF GetSection, PreloadType
  <2> QED
    BY <1>0, <1>1, <2>1
<1>3. data \in Seq(Nat)
  BY <1>0, <1>2 DEF ContentsInv
<1>4. s.addr \in Nat /\ s.len \in Nat \ {0}
  BY <1>2 DEF Section
<1>5. Buffer(data, s.len) \in Seq(Nat)
  BY <1>3, <1>4, BufferFacts
<1>6. PreloadType'
  <2>1. sec' \in [addr : Nat, bf : Seq(Nat)]
    BY <1>1, <1>4, <1>5
  <2>2. host' \in {"fatal", "copy"} /\ section_index' \in 0 .. Len(sections')
    BY <1>1, <1>2
  <2> QED
    BY <1>1, <2>1, <2>2 DEF PreloadType
<1>7. ContentsInv'
  <2>1. \A a, n, k : KnownFrom(a, n, k)' = KnownFrom(a, n, k)
    BY <1>1 DEF KnownFrom, Loadable
  <2> QED
    BY <1>1, <2>1 DEF ContentsInv
<1>8. EntryInv'
  BY <1>1 DEF EntryInv
<1>9. PendingInv'
  BY <1>1, <1>2 DEF PendingInv, SectionOf, Loadable
<1>10. SegmentsInv'
  <2>1. \A j \in DOMAIN sections : Copied(j)' => Copied(j)
    BY <1>1, <1>2 DEF Copied
  <2>2. ASSUME NEW p, NEW j \in DOMAIN sections, Handed(p, j)
        PROVE  Handed(p, j)'
    BY <1>1, <2>1, <2>2 DEF Handed, SectionOf, Fresh, Content, InOneBurst, InPlace, Addresses
  <2> QED
    BY <1>1, <2>2 DEF SegmentsInv, Loadable
<1>11. CopyInv'
  <2>1. 0 % Burst = 0
    BY Sizes
  <2> QED
    BY <1>0, <1>1, <1>2, <2>1 DEF CopyInv
<1>12. PaddingBounded'
  BY <1>1, <1>2 DEF PaddingBounded, Addresses
<1>13. GivesUpOnlyFor'
  <2> SUFFICES ASSUME Len(data) > s.len, File.kind = "whole"
               PROVE  \E k \in DOMAIN File.ph : Loadable(File.ph[k]) /\ ~ Fresh(File.ph[k])
    BY <1>1 DEF GivesUpOnlyFor, Fresh, Loadable
  <2>1. PICK k \in DOMAIN File.ph :
          k < header /\ Loadable(File.ph[k]) /\ s = SectionOf(File.ph[k])
    <3>1. section_index + 1 \in section_index + 1 .. Len(sections)
      BY <1>2
    <3> QED
      BY <1>0, <3>1 DEF PendingInv
  <2> DEFINE p == File.ph[k]
  <2>2. loads # <<>>
    BY <1>1 DEF PreloadType
  <2>3. p \in Phdr /\ p.filesz <= p.memsz /\ File \in Elf
    BY <2>2, LastFile DEF Sound
  <2>4. Fresh(p) => mems[p.paddr] = Content(File, p)
    BY <2>1, <2>2 DEF SegmentsInv, Handed
  <2>5. s.addr = p.paddr /\ s.len = p.memsz
    BY <2>1 DEF SectionOf
  <2>6. Len(Content(File, p)) = p.filesz
    BY <2>3, ContentFacts
  <2>7. p.filesz \in Nat /\ p.memsz \in Nat
    BY <2>3 DEF Phdr
  <2> QED
    BY <1>0, <2>1, <2>3, <2>4, <2>5, <2>6, <2>7
<1> QED
  BY <1>6, <1>7, <1>8, <1>9, <1>10, <1>11, <1>12, <1>13

(* The launch, when all sections have been handed out.                     *)
LEMMA LaunchKeeps ==
  ASSUME PreloadInv, Launch
  PROVE  PreloadInv'
<1> USE DEF PreloadInv
<1>1. /\ host = "get" /\ host' = "idle" /\ section_index = Len(sections)
      /\ started' = Append(started, entry) /\ File' = File
      /\ UNCHANGED <<link, mem, sections, mems, entry, section_index, loads, header, sec, i>>
  BY DEF Launch, loaderVars, File
<1>2. /\ started' \in Seq(Nat) /\ started' # <<>> /\ started'[Len(started')] = entry
  <2>1. started \in Seq(Nat) /\ entry \in Nat
    BY DEF PreloadType, EntryInv
  <2> QED
    BY <1>1, <2>1
<1>3. PreloadType'
  BY <1>1, <1>2 DEF PreloadType
<1>4. ContentsInv'
  <2>1. \A a, n, k : KnownFrom(a, n, k)' = KnownFrom(a, n, k)
    BY <1>1 DEF KnownFrom, Loadable
  <2> QED
    BY <1>1, <2>1 DEF ContentsInv
<1>5. EntryInv'
  BY <1>1, <1>2 DEF EntryInv
<1>6. PendingInv'
  BY <1>1 DEF PendingInv, SectionOf, Loadable
<1>7. SegmentsInv'
  <2>1. \A p, j : Handed(p, j)' = Handed(p, j)
    BY <1>1 DEF Handed, SectionOf, Fresh, Content, Copied, InOneBurst, InPlace, Addresses
  <2> QED
    BY <1>1, <2>1 DEF SegmentsInv, Loadable
<1>8. CopyInv' /\ PaddingBounded' /\ GivesUpOnlyFor'
  BY <1>1 DEF CopyInv, PaddingBounded, GivesUpOnlyFor, Addresses
<1> QED
  BY <1>3, <1>4, <1>5, <1>6, <1>7, <1>8
---------------------------------------------------------------------------
(* Copying a section.                                                      *)

(* The section under way.                                                  *)
LEMMA UnderWay ==
  ASSUME PreloadInv, host = "copy"
  PROVE  /\ section_index \in DOMAIN sections /\ sections[section_index] \in Section
         /\ sec.addr = sections[section_index].addr /\ sec.addr \in Nat
         /\ Len(sec.bf) = sections[section_index].len /\ Len(sec.bf) \in Nat
         /\ mems[sec.addr] \in Seq(Nat)
         /\ \A o \in 0 .. Len(sec.bf) - 1 :
              sec.bf[o + 1] = IF o < Len(mems[sec.addr]) THEN mems[sec.addr][o + 1] ELSE 0
<1> USE DEF PreloadInv
<1>1. section_index \in DOMAIN sections /\ sections[section_index] \in Section
  BY DEF CopyInv, PreloadType
<1> DEFINE s == sections[section_index]
<1>2. s.addr \in Nat /\ s.len \in Nat
  BY <1>1 DEF Section
<1>3. mems[s.addr] \in Seq(Nat)
  BY <1>1 DEF ContentsInv
<1>4. sec.addr = s.addr /\ sec.bf = Buffer(mems[s.addr], s.len)
  BY DEF CopyInv
<1> HIDE DEF s
<1> DEFINE data == mems[s.addr]
           n == s.len
<1>5. data \in Seq(Nat) /\ n \in Nat /\ sec.bf = Buffer(data, n)
  BY <1>2, <1>3, <1>4
<1> HIDE DEF data, n
<1>6. /\ Len(sec.bf) = n
      /\ \A o \in 0 .. n - 1 : sec.bf[o + 1] = IF o < Len(data) THEN data[o + 1] ELSE 0
  <2>1. data \in Seq(Nat) /\ n \in Nat
    BY <1>5
  <2>2. /\ Len(Buffer(data, n)) = n
        /\ \A o \in 0 .. n - 1 :
             Buffer(data, n)[o + 1] = IF o < Len(data) THEN data[o + 1] ELSE 0
    BY <2>1, BufferFacts
  <2> QED
    BY <1>5, <2>2
<1> QED
  BY <1>1, <1>2, <1>3, <1>4, <1>6 DEF s, data, n

(* The end of a section: it is in memory, and with it the segment.         *)
LEMMA EndCopyKeeps ==
  ASSUME PreloadInv, EndCopy
  PROVE  PreloadInv'
<1> USE DEF PreloadInv
<1>1. /\ host = "copy" /\ host' = "get" /\ i > Len(sec.bf) /\ File' = File
      /\ UNCHANGED <<link, mem, sections, mems, entry, section_index, loads, header, sec, i>>
      /\ UNCHANGED started
  BY DEF EndCopy, loaderVars, File
<1>2. loads # <<>> /\ i \in Nat
  BY <1>1 DEF PreloadType
<1>3. PreloadType'
  BY <1>1 DEF PreloadType
<1>4. ContentsInv'
  <2>1. \A a, n, k : KnownFrom(a, n, k)' = KnownFrom(a, n, k)
    BY <1>1 DEF KnownFrom, Loadable
  <2> QED
    BY <1>1, <2>1 DEF ContentsInv
<1>5. EntryInv' /\ PendingInv'
  BY <1>1 DEF EntryInv, PendingInv, SectionOf, Loadable
<1>6. SegmentsInv'
  <2>1. ASSUME NEW k \in DOMAIN File.ph, k < header, Loadable(File.ph[k])
        PROVE  \E j \in DOMAIN sections : Handed(File.ph[k], j)'
    <3>0. PICK p : p = File.ph[k]
      OBVIOUS
    <3>1. PICK j \in DOMAIN sections : Handed(p, j)
      BY <1>2, <2>1, <3>0 DEF SegmentsInv
    <3>2. ASSUME j = section_index, Fresh(p), InOneBurst(p)
          PROVE  InPlace(p)
      <4>1. sec.addr = p.paddr /\ Len(sec.bf) = p.memsz /\ sections[section_index] = SectionOf(p)
        BY <1>1, <3>1, <3>2, UnderWay DEF Handed, SectionOf
      <4>2. mems[p.paddr] = Content(File, p)
        BY <3>1, <3>2 DEF Handed
      <4>3. p \in Phdr /\ p.filesz <= p.memsz /\ File \in Elf
        BY <1>2, <3>0, LastFile DEF Sound
      <4>4. /\ Len(Content(File, p)) = p.filesz
            /\ \A o \in 0 .. p.filesz - 1 : Content(File, p)[o + 1] = 100 * File.name + p.paddr + o
        BY <4>3, ContentFacts
      <4>5. p.memsz \in Nat /\ p.filesz \in Nat
        BY <4>3 DEF Phdr
      <4>6. \A o \in 0 .. p.memsz - 1 :
              p.paddr + o \in Addresses => mem[p.paddr + o] = sec.bf[o + 1]
        <5>1. \A o \in 0 .. p.memsz - 1 : o < i
          BY <1>1, <1>2, <4>1, <4>5
        <5> QED
          BY <1>1, <3>2, <4>1, <5>1 DEF CopyInv, InOneBurst, SectionOf
      <4>7. ASSUME NEW o \in 0 .. p.memsz - 1
            PROVE  sec.bf[o + 1] = IF o < p.filesz THEN 100 * File.name + p.paddr + o ELSE 0
        <5>1. sec.bf[o + 1] = IF o < p.filesz THEN Content(File, p)[o + 1] ELSE 0
          BY <1>1, <4>1, <4>2, <4>4, UnderWay
        <5>2. o < p.filesz => o \in 0 .. p.filesz - 1
          BY <4>5
        <5> QED
          BY <4>4, <5>1, <5>2
      <4> QED
        BY <4>6, <4>7 DEF InPlace
    <3>3. Copied(j)' => Copied(j) \/ j = section_index
      BY <1>1 DEF Copied
    <3>4. Handed(p, j)'
      BY <1>1, <3>1, <3>2, <3>3
      DEF Handed, SectionOf, Fresh, Content, InOneBurst, InPlace, Addresses
    <3> QED
      BY <1>1, <3>0, <3>4
  <2> QED
    BY <1>1, <2>1 DEF SegmentsInv, Loadable
<1>7. CopyInv' /\ PaddingBounded' /\ GivesUpOnlyFor'
  BY <1>1 DEF CopyInv, PaddingBounded, GivesUpOnlyFor, Addresses
<1> QED
  BY <1>3, <1>4, <1>5, <1>6, <1>7

(* A write into the section under way, none of it below the section or     *)
(* more than a doubleword above it.                                        *)
LEMMA WriteKeeps ==
  ASSUME PreloadInv, host = "copy", host' = "copy",
         UNCHANGED <<link, loaderVars, loads, header, sec, started>>, i' \in Nat,
         \A a \in Addresses :
           mem'[a] # mem[a] => sec.addr <= a /\ a < sec.addr + Len(sec.bf) + Width,
         link = "slink" => i' % Burst = 0,
         sec.addr % Width = 0 \/ (link = "slink" /\ (sec.addr % Width) + Len(sec.bf) <= Burst) =>
           \A o \in 0 .. Len(sec.bf) - 1 :
             o < i' /\ sec.addr + o \in Addresses => mem'[sec.addr + o] = sec.bf[o + 1]
  PROVE  PreloadInv'
<1> USE DEF PreloadInv
<1>1. /\ UNCHANGED <<sections, mems, entry, section_index>> /\ File' = File /\ loads # <<>>
      /\ Addresses' = Addresses
  BY DEF loaderVars, File, PreloadType, Addresses
<1>2. PreloadType'
  BY <1>1 DEF PreloadType
<1>3. ContentsInv'
  <2>1. \A a, n, k : KnownFrom(a, n, k)' = KnownFrom(a, n, k)
    BY <1>1 DEF KnownFrom, Loadable
  <2> QED
    BY <1>1, <2>1 DEF ContentsInv
<1>4. EntryInv' /\ PendingInv' /\ GivesUpOnlyFor'
  BY <1>1 DEF EntryInv, PendingInv, GivesUpOnlyFor, SectionOf, Loadable
<1>5. SegmentsInv'
  <2>1. ASSUME NEW k \in DOMAIN File.ph, k < header, Loadable(File.ph[k])
        PROVE  \E j \in DOMAIN sections : Handed(File.ph[k], j)'
    <3>0. PICK p : p = File.ph[k]
      OBVIOUS
    <3>1. PICK j \in DOMAIN sections : Handed(p, j)
      BY <1>1, <2>1, <3>0 DEF SegmentsInv
    <3>2. ASSUME Copied(j), InPlace(p)
          PROVE  InPlace(p)'
      <4>1. section_index \in j + 1 .. Len(sections)
        BY <3>1, <3>2 DEF Copied, PreloadType
      <4>2. p.paddr + p.memsz <= sec.addr /\ sec.addr \in Nat
        BY <3>1, <4>1, UnderWay DEF Handed
      <4>3. p.paddr \in Nat /\ p.memsz \in Nat
        BY <1>1, <3>0, LastFile DEF Phdr
      <4>4. ASSUME NEW o \in 0 .. p.memsz - 1, p.paddr + o \in Addresses
            PROVE  mem'[p.paddr + o] = mem[p.paddr + o]
        BY <4>2, <4>3, <4>4
      <4> QED
        BY <1>1, <3>2, <4>4 DEF InPlace
    <3>3. Copied(j)' = Copied(j) /\ Fresh(p)' = Fresh(p) /\ InOneBurst(p)' = InOneBurst(p)
      BY <1>1 DEF Copied, Fresh, InOneBurst
    <3>4. Handed(p, j)'
      BY <1>1, <3>1, <3>2, <3>3 DEF Handed, SectionOf, Content
    <3> QED
      BY <1>1, <3>0, <3>4
  <2> QED
    BY <1>1, <2>1 DEF SegmentsInv, Loadable
<1>6. CopyInv'
  <2>1. /\ sections[section_index].addr = sec.addr /\ sections[section_index].len = Len(sec.bf)
    BY UnderWay
  <2> QED
    BY <1>1, <2>1 DEF CopyInv
<1>7. PaddingBounded'
  <2>1. ASSUME NEW a \in Addresses, mem'[a] # Junk
        PROVE  \E k \in 1 .. section_index :
                 sections[k].addr <= a /\ a < sections[k].addr + sections[k].len + Width
    <3>1. CASE mem'[a] = mem[a]
      BY <2>1, <3>1 DEF PaddingBounded
    <3>2. CASE mem'[a] # mem[a]
      <4>1. section_index \in 1 .. section_index
        BY UnderWay DEF PreloadType
      <4> QED
        BY <3>2, <4>1, UnderWay
    <3> QED
      BY <3>1, <3>2
  <2> QED
    BY <1>1, <2>1 DEF PaddingBounded
<1> QED
  BY <1>2, <1>3, <1>4, <1>5, <1>6, <1>7

(* The host gives up on the section under way.                             *)
LEMMA GiveUpKeeps ==
  ASSUME PreloadInv, host = "copy", host' = "fatal",
         UNCHANGED <<link, mem, loaderVars, loads, header, sec, i, started>>,
         (link = "jtag" /\ sec.addr % Width # 0) \/ (link = "slink" /\ Len(sec.bf) % Burst = 0)
  PROVE  PreloadInv'
<1> USE DEF PreloadInv
<1>1. /\ UNCHANGED <<sections, mems, entry, section_index>> /\ File' = File /\ loads # <<>>
      /\ Addresses' = Addresses
  BY DEF loaderVars, File, PreloadType, Addresses
<1>2. PreloadType' /\ CopyInv' /\ PaddingBounded' /\ GivesUpOnlyFor'
  BY <1>1 DEF PreloadType, CopyInv, PaddingBounded, GivesUpOnlyFor
<1>3. ContentsInv'
  <2>1. \A a, n, k : KnownFrom(a, n, k)' = KnownFrom(a, n, k)
    BY <1>1 DEF KnownFrom, Loadable
  <2> QED
    BY <1>1, <2>1 DEF ContentsInv
<1>4. EntryInv' /\ PendingInv'
  BY <1>1 DEF EntryInv, PendingInv, SectionOf, Loadable
<1>5. SegmentsInv'
  <2>1. \A p, j : Handed(p, j)' = Handed(p, j)
    BY <1>1 DEF Handed, SectionOf, Fresh, Content, Copied, InOneBurst, InPlace
  <2> QED
    BY <1>1, <2>1 DEF SegmentsInv, Loadable
<1> QED
  BY <1>2, <1>3, <1>4, <1>5

(* One doubleword.                                                         *)
LEMMA JtagWriteKeeps ==
  ASSUME PreloadInv, JtagWrite
  PROVE  PreloadInv'
<1>1. link = "jtag" /\ host = "copy" /\ i <= Len(sec.bf) /\ i \in Nat
      /\ UNCHANGED <<link, loaderVars, loads, header, sec, started>>
  BY DEF JtagWrite, PreloadInv, PreloadType
<1>2. CASE sec.addr % Width # 0
  BY <1>1, <1>2, GiveUpKeeps DEF JtagWrite
<1>3. CASE sec.addr % Width = 0
  <2>1. /\ host' = "copy" /\ i' = i + Width
        /\ mem' = [a \in Addresses |-> IF a - sec.addr \in i .. i + Width - 1
                                        THEN Bf(a - sec.addr) ELSE mem[a]]
    BY <1>1, <1>3 DEF JtagWrite
  <2>2. sec.addr \in Nat /\ Len(sec.bf) \in Nat /\ Width \in Nat \ {0} /\ Addresses \subseteq Nat
    BY <1>1, UnderWay, Sizes DEF Addresses
  <2>3. ASSUME NEW a \in Addresses, mem'[a] # mem[a]
        PROVE  sec.addr <= a /\ a < sec.addr + Len(sec.bf) + Width
    BY <1>1, <2>1, <2>2, <2>3
  <2>4. ASSUME NEW o \in 0 .. Len(sec.bf) - 1, o < i', sec.addr + o \in Addresses
        PROVE  mem'[sec.addr + o] = sec.bf[o + 1]
    <3>1. (sec.addr + o) - sec.addr = o
      BY <2>2
    <3>2. CASE o < i
      <4>1. mem[sec.addr + o] = sec.bf[o + 1]
        BY <1>1, <1>3, <2>4, <3>2, UnderWay DEF PreloadInv, CopyInv
      <4> QED
        BY <1>1, <2>1, <2>2, <2>4, <3>1, <3>2, <4>1
    <3>3. CASE ~ (o < i)
      <4>1. o \in i .. i + Width - 1 /\ o \in 0 .. Len(sec.bf) - 1
        BY <1>1, <2>1, <2>2, <2>4, <3>3
      <4>2. mem'[sec.addr + o] = Bf(o)
        BY <2>1, <2>4, <3>1, <4>1
      <4> QED
        BY <4>1, <4>2 DEF Bf
    <3> QED
      BY <3>2, <3>3
  <2> QED
    BY <1>1, <2>1, <2>2, <2>3, <2>4, WriteKeeps
<1> QED
  BY <1>2, <1>3

---------------------------------------------------------------------------
(* Bursts.                                                                 *)

(* Integer division.                                                       *)
LEMMA DivMod ==
  ASSUME NEW a \in Nat, NEW n \in Nat \ {0}
  PROVE  a \div n \in Nat /\ a % n \in 0 .. n - 1 /\ a = (a \div n) * n + (a % n)
OBVIOUS

(* A multiple of more is more.                                             *)
LEMMA Times ==
  ASSUME NEW a \in Nat, NEW c \in Nat, NEW n \in Nat \ {0}
  PROVE  a * n \in Nat /\ (a <= c => a * n <= c * n) /\ (a * n < c * n => a < c)
         /\ (a + 1) * n = a * n + n
<1>1. a * n \in Nat /\ (a + 1) * n = a * n + n
  OBVIOUS
<1>2. ASSUME NEW x \in Nat, NEW y \in Nat, x <= y PROVE x * n <= y * n
  <2>1. y * n = x * n + (y - x) * n /\ (y - x) * n >= 0
    BY <1>2
  <2> QED
    BY <2>1
<1>3. a * n < c * n => a < c
  <2>1. c <= a => c * n <= a * n
    BY <1>2
  <2>2. a * n \in Nat /\ c * n \in Nat
    OBVIOUS
  <2> QED
    BY <2>1, <2>2
<1> QED
  BY <1>1, <1>2, <1>3

(* Quotient and remainder are unique.                                      *)
LEMMA DivUnique ==
  ASSUME NEW n \in Nat \ {0}, NEW q \in Nat, NEW r \in 0 .. n - 1
  PROVE  (q * n + r) \div n = q /\ (q * n + r) % n = r
OBVIOUS

(* The next multiple of a number.                                          *)
LEMMA NextMultiple ==
  ASSUME NEW a \in Nat, NEW n \in Nat \ {0}, a % n = 0
  PROVE  (a + n) % n = 0
<1> DEFINE p == a \div n
<1>1. p \in Nat /\ a = p * n + (a % n)
  BY DivMod
<1> HIDE DEF p
<1>2. p * n \in Nat /\ (p + 1) * n = p * n + n /\ p + 1 \in Nat /\ 0 \in 0 .. n - 1
  BY <1>1, Times
<1>3. ((p + 1) * n + 0) % n = 0
  BY <1>2, DivUnique
<1>4. a + n = (p + 1) * n + 0
  BY <1>1, <1>2
<1> QED
  BY <1>3, <1>4

(* How many steps of n there are below l.                                  *)
LEMMA StepsBelow ==
  ASSUME NEW l \in Nat, NEW n \in Nat \ {0}
  PROVE  \E q \in Nat : \A b \in Nat : b * n < l <=> b < q
<1>1. CASE l = 0
  <2>1. \A b \in Nat : ~ (b * n < l) /\ ~ (b < 0)
    BY <1>1, Times
  <2> QED
    BY <2>1
<1>2. CASE l > 0
  <2> DEFINE q == (l - 1) \div n
             r == (l - 1) % n
  <2>1. q \in Nat /\ r \in 0 .. n - 1 /\ l - 1 = q * n + r
    <3>1. l - 1 \in Nat
      BY <1>2
    <3> QED
      BY <3>1, DivMod
  <2> HIDE DEF q, r
  <2>2. ASSUME NEW b \in Nat
        PROVE  b * n < l <=> b < q + 1
    <3>1. b <= q => b * n <= q * n
      BY <2>1, Times
    <3>2. q + 1 <= b => (q + 1) * n <= b * n
      BY <2>1, Times
    <3>3. (q + 1) * n = q * n + n /\ q * n \in Nat /\ b * n \in Nat
      BY <2>1, Times
    <3> QED
      BY <2>1, <3>1, <3>2, <3>3
  <2>3. q + 1 \in Nat
    BY <2>1
  <2> QED
    BY <2>2, <2>3
<1> QED
  BY <1>1, <1>2

(* The beats of a burst are its first ones.                                *)
LEMMA BeatsFacts ==
  ASSUME PreloadInv, host = "copy", i <= Len(sec.bf)
  PROVE  /\ Cardinality(Beats) \in Nat /\ Beats = 0 .. Cardinality(Beats) - 1
         /\ bus_offset \in 0 .. Width - 1
         /\ Burst = (Burst \div Width) * Width /\ Burst \div Width \in Nat \ {0}
<1> DEFINE m == Burst \div Width
           l == Len(sec.bf) - i + bus_offset
<1>1. /\ i \in Nat /\ Len(sec.bf) \in Nat /\ sec.addr \in Nat
      /\ Width \in Nat \ {0} /\ Burst \in Nat \ {0}
  BY UnderWay, Sizes DEF PreloadInv, PreloadType
<1>2. bus_offset \in 0 .. Width - 1
  BY <1>1, DivMod DEF bus_offset
<1>3. m \in Nat \ {0} /\ Burst = m * Width
  <2>1. m \in Nat /\ Burst = m * Width + (Burst % Width)
    BY <1>1, DivMod
  <2>2. Burst % Width = 0 /\ m * Width \in Nat
    BY <1>1, <2>1, Sizes, Times
  <2>3. m # 0
    BY <1>1, <2>1, <2>2
  <2> QED
    BY <2>1, <2>2, <2>3
<1>4. l \in Nat
  BY <1>1, <1>2
<1>5. PICK q \in Nat : \A b \in Nat : b * Width < l <=> b < q
  BY <1>1, <1>4, StepsBelow
<1>6. \A b \in 0 .. m - 1 : i + b * Width - bus_offset < Len(sec.bf) <=> b * Width < l
  <2>1. \A b \in 0 .. m - 1 : b * Width \in Int
    BY <1>1, <1>3
  <2> QED
    BY <1>1, <1>2, <2>1
<1> HIDE DEF m, l
<1>7. Beats = {b \in 0 .. m - 1 : b < q}
  BY <1>3, <1>5, <1>6 DEF Beats, m
<1>8. PICK n \in Nat : Beats = 0 .. n - 1
  <2>1. CASE q <= m
    <3>1. Beats = 0 .. q - 1
      BY <1>3, <1>7, <2>1
    <3> QED
      BY <3>1
  <2>2. CASE q > m
    <3>1. Beats = 0 .. m - 1
      BY <1>3, <1>7, <2>2
    <3> QED
      BY <1>3, <3>1
  <2> QED
    BY <1>3, <2>1, <2>2
<1>9. Cardinality(Beats) = n
  BY <1>8, FS_Interval
<1> QED
  BY <1>2, <1>3, <1>8, <1>9 DEF m

(* One burst.                                                              *)
LEMMA SlinkWriteKeeps ==
  ASSUME PreloadInv, SlinkWrite
  PROVE  PreloadInv'
<1> DEFINE n == Cardinality(Beats)
           len == Len(sec.bf)
<1>1. link = "slink" /\ host = "copy" /\ i <= len /\ i \in Nat /\ i % Burst = 0
      /\ UNCHANGED <<link, loaderVars, loads, header, sec, started>>
  BY DEF SlinkWrite, PreloadInv, PreloadType, CopyInv
<1>2. /\ sec.addr \in Nat /\ len \in Nat /\ Width \in Nat \ {0} /\ Burst \in Nat \ {0}
      /\ Addresses \subseteq Nat
  BY <1>1, UnderWay, Sizes DEF Addresses
<1>3. /\ n \in Nat /\ Beats = 0 .. n - 1 /\ bus_offset \in 0 .. Width - 1
      /\ Burst = (Burst \div Width) * Width /\ Burst \div Width \in Nat \ {0}
  BY <1>1, BeatsFacts
<1>4. CASE Beats = {}
  <2>1. 0 \in 0 .. Burst \div Width - 1 /\ 0 * Width = 0
    BY <1>2, <1>3
  <2>2. ~ (i - bus_offset < len)
    <3>1. ~ (i + 0 * Width - bus_offset < len)
      BY <1>4, <2>1 DEF Beats
    <3> QED
      BY <1>1, <1>2, <1>3, <2>1, <3>1
  <2>3. i = len
    BY <1>1, <1>2, <1>3, <2>2
  <2>4. host' = "fatal" /\ UNCHANGED <<mem, i>>
    BY <1>4 DEF SlinkWrite
  <2> QED
    BY <1>1, <2>3, <2>4, GiveUpKeeps
<1>5. CASE Beats # {}
  <2>1. /\ host' = "copy" /\ i' = i + Burst
        /\ mem' = [a \in Addresses |-> IF Strobed(a) THEN Bf(a - sec.addr) ELSE mem[a]]
    BY <1>1, <1>5 DEF SlinkWrite
  <2>2. \A a \in Addresses :
          Strobed(a) <=> sec.addr + i <= a /\ a < (sec.addr + i) - bus_offset + Width * n
    BY DEF Strobed
  <2>3. n - 1 \in Beats /\ n * Width = (n - 1) * Width + Width /\ Width * n = n * Width
        /\ (n - 1) * Width \in Nat /\ Width * n \in Nat
    <3>1. n - 1 \in Nat /\ n - 1 \in 0 .. n - 1
      BY <1>3, <1>5
    <3> QED
      BY <1>2, <1>3, <3>1, Times
  <2>4. i + (n - 1) * Width - bus_offset < len
    BY <2>3 DEF Beats
  <2> HIDE DEF n, len
  <2>5. ASSUME NEW a \in Addresses, mem'[a] # mem[a]
        PROVE  sec.addr <= a /\ a < sec.addr + len + Width
    <3>1. Strobed(a)
      BY <2>1, <2>5
    <3>2. a \in Nat
      BY <1>2
    <3> QED
      BY <1>1, <1>2, <1>3, <2>2, <2>3, <2>4, <3>1, <3>2
  <2>6. i' \in Nat /\ i' % Burst = 0
    <3>1. (i + Burst) % Burst = 0
      BY <1>1, <1>2, NextMultiple
    <3> QED
      BY <1>1, <1>2, <2>1, <3>1
  <2>7. ASSUME sec.addr % Width = 0 \/ (sec.addr % Width) + len <= Burst,
               NEW o \in 0 .. len - 1, o < i', sec.addr + o \in Addresses
        PROVE  mem'[sec.addr + o] = sec.bf[o + 1]
    <3>1. (sec.addr + o) - sec.addr = o
      BY <1>2
    <3>2. Bf(o) = sec.bf[o + 1]
      BY <2>7 DEF Bf, len
    <3>3. CASE o < i
      <4>1. mem[sec.addr + o] = sec.bf[o + 1]
        BY <1>1, <2>7, <3>3, UnderWay DEF PreloadInv, CopyInv, len
      <4> QED
        BY <2>1, <2>7, <3>1, <3>2, <4>1
    <3>4. CASE ~ (o < i)
      <4> DEFINE d == o - i + bus_offset
                 b == d \div Width
      <4>1. d \in Nat
        BY <1>1, <1>2, <1>3, <3>4
      <4>2. d < Burst
        <5>1. CASE bus_offset = 0
          BY <1>1, <1>2, <2>1, <2>7, <5>1
        <5>2. CASE bus_offset # 0
          <6>1. bus_offset + len <= Burst
            BY <2>7, <5>2 DEF bus_offset
          <6>2. o < len
            BY <1>2, <2>7
          <6> QED
            BY <1>1, <1>2, <1>3, <6>1, <6>2
        <5> QED
          BY <5>1, <5>2
      <4>3. b \in Nat /\ d = b * Width + (d % Width) /\ d % Width \in 0 .. Width - 1
        BY <1>2, <4>1, DivMod
      <4>4. b * Width \in Nat /\ (b + 1) * Width = b * Width + Width
        BY <1>2, <4>3, Times
      <4> HIDE DEF b
      <4>5. b < Burst \div Width
        <5>1. b * Width < (Burst \div Width) * Width
          BY <1>2, <1>3, <4>1, <4>2, <4>3, <4>4
        <5> QED
          BY <1>2, <1>3, <4>3, <5>1, Times
      <4>6. b \in Beats
        <5>1. i + b * Width - bus_offset < len
          BY <1>1, <1>2, <1>3, <4>3, <4>4
        <5> QED
          BY <1>3, <4>3, <4>5, <5>1 DEF Beats, len
      <4>7. (b + 1) * Width <= n * Width
        <5>1. b + 1 <= n
          BY <1>3, <4>3, <4>6
        <5> QED
          BY <1>2, <1>3, <4>3, <5>1, Times
      <4>8. Strobed(sec.addr + o)
        <5>1. d < n * Width
          BY <1>2, <2>3, <4>1, <4>3, <4>4, <4>7
        <5>2. o \in Nat /\ bus_offset \in Nat
          BY <1>3, <2>7
        <5>3. sec.addr + o < (sec.addr + i) - bus_offset + Width * n
          BY <1>1, <1>2, <2>3, <5>1, <5>2
        <5>4. sec.addr + i <= sec.addr + o
          BY <1>1, <1>2, <3>4, <5>2
        <5> QED
          BY <2>2, <2>7, <5>3, <5>4
      <4> QED
        BY <2>1, <2>7, <3>1, <3>2, <4>8
    <3> QED
      BY <3>3, <3>4
  <2> QED
    BY <1>1, <2>1, <2>5, <2>6, <2>7, WriteKeeps DEF len
<1> QED
  BY <1>4, <1>5
---------------------------------------------------------------------------
(* PreloadInv is an invariant.                                             *)
THEOREM PreloadState == Spec => []PreloadInv
<1>1. PreloadInv /\ [Next]_vars => PreloadInv'
  <2> SUFFICES ASSUME PreloadInv, [Next]_vars PROVE PreloadInv'
    OBVIOUS
  <2>1. CASE \E f \in UNION {Files[n] : n \in {Len(loads) + 1} \cap DOMAIN Files} : ReadElf(f)
    BY <2>1, FileFacts, ReadElfKeeps
  <2>2. CASE LoadHeader
    BY <2>2, LoadHeaderKeeps
  <2>3. CASE EndHeaders
    BY <2>3, EndHeadersKeeps
  <2>4. CASE GetSection
    BY <2>4, GetSectionKeeps
  <2>5. CASE Launch
    BY <2>5, LaunchKeeps
  <2>6. CASE EndCopy
    BY <2>6, EndCopyKeeps
  <2>7. CASE JtagWrite
    BY <2>7, JtagWriteKeeps
  <2>8. CASE SlinkWrite
    BY <2>8, SlinkWriteKeeps
  <2>9. CASE UNCHANGED vars
    <3>1. UNCHANGED <<link, mem, sections, mems, entry, section_index, loads, header, host, sec, i,
                      started>>
      BY <2>9 DEF vars, loaderVars
    <3>2. PreloadType' /\ EntryInv' /\ PendingInv' /\ CopyInv' /\ PaddingBounded' /\ GivesUpOnlyFor'
      BY <3>1 DEF PreloadInv, PreloadType, EntryInv, PendingInv, CopyInv, PaddingBounded,
                  GivesUpOnlyFor, SectionOf, Loadable, Fresh, File, Addresses
    <3>3. ContentsInv'
      <4>1. \A a, n, k : KnownFrom(a, n, k)' = KnownFrom(a, n, k)
        BY <3>1 DEF KnownFrom, Loadable
      <4> QED
        BY <3>1, <4>1 DEF PreloadInv, ContentsInv
    <3>4. SegmentsInv'
      <4>1. \A p, j : Handed(p, j)' = Handed(p, j)
        BY <3>1 DEF Handed, SectionOf, Fresh, Content, Copied, InOneBurst, InPlace, File, Addresses
      <4> QED
        BY <3>1, <4>1 DEF PreloadInv, SegmentsInv, Loadable, File
    <3> QED
      BY <3>2, <3>3, <3>4 DEF PreloadInv
  <2> QED
    BY <2>1, <2>2, <2>3, <2>4, <2>5, <2>6, <2>7, <2>8, <2>9 DEF Next, Host
<1> QED
  BY <1>1, InitLemma, PTL DEF Spec

(* A launched program is in memory as its file says, with the file's entry *)
(* point, whatever files were loaded before it: what get_section and       *)
(* read_section hand out from tables that are never cleared is of the last *)
(* file, and no later section or padding damages it.                       *)
THEOREM ProgramIsInPlace == Spec => []ProgramInPlace
<1>1. PreloadInv => ProgramInPlace
  <2> SUFFICES ASSUME PreloadInv, host = "idle", loads # <<>>, File.kind = "whole"
               PROVE  /\ started[Len(started)] = File.entry
                      /\ \A k \in DOMAIN File.ph :
                           Loadable(File.ph[k]) /\ Fresh(File.ph[k]) /\ InOneBurst(File.ph[k])
                             => InPlace(File.ph[k])
    BY DEF ProgramInPlace, Launched
  <2>1. started[Len(started)] = File.entry /\ Len(File.ph) < header
    BY DEF PreloadInv, EntryInv
  <2>2. ASSUME NEW k \in DOMAIN File.ph,
               Loadable(File.ph[k]), Fresh(File.ph[k]), InOneBurst(File.ph[k])
        PROVE  InPlace(File.ph[k])
    <3>1. k < header
      <4>1. File.ph \in Seq(Phdr)
        BY LastFile DEF PreloadInv
      <4>2. Len(File.ph) \in Nat /\ k \in 1 .. Len(File.ph) /\ header \in Nat
        BY <4>1, SeqFacts DEF PreloadInv, PreloadType
      <4> QED
        BY <2>1, <4>2
    <3>2. PICK j \in DOMAIN sections : Handed(File.ph[k], j)
      BY <2>2, <3>1 DEF PreloadInv, SegmentsInv
    <3>3. Copied(j)
      BY DEF Copied, PreloadInv, PreloadType, PendingInv
    <3> QED
      BY <2>2, <3>2, <3>3 DEF Handed
  <2> QED
    BY <2>1, <2>2
<1> QED
  BY <1>1, PreloadState, PTL

(* The padding that the copy loops write past the end of a section stays   *)
(* below a doubleword.                                                     *)
THEOREM PaddingIsBounded == Spec => []PaddingBounded
<1>1. PreloadInv => PaddingBounded
  BY DEF PreloadInv
<1> QED
  BY <1>1, PreloadState, PTL

(* A whole file is refused only for the three named reasons.               *)
THEOREM RefusalsAreNamed == Spec => []GivesUpOnlyFor
<1>1. PreloadInv => GivesUpOnlyFor
  BY DEF PreloadInv
<1> QED
  BY <1>1, PreloadState, PTL
=============================================================================
