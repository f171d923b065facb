----------------------------- MODULE GptLoader -----------------------------
(***************************************************************************)
(* The autonomous boot chain: the GPT loader (gpt.c) as the boot ROM calls *)
(* it to load a zero-stage loader, and as the zero-stage loader (zsl.c)    *)
(* calls it again for the device tree and the firmware.                    *)
(*                                                                         *)
(* Every access to the medium is one call of the read function, and any of *)
(* them may fail.  Sectors are numbered; GUIDs are model values.           *)
(***************************************************************************)
EXTENDS Integers, Sequences, FiniteSetsExt

CONSTANTS Disks,      \* media: [gpt |-> BOOLEAN, entries |-> Seq(Entry)]
          MaxLbas     \* largest load, per part: "zsl", "dtb" and "fw"

Parts == {"zsl", "dtb", "fw"}

(* A partition entry; one that is not used is all zero.  The type of a     *)
(* partition is one of Parts or "other".                                   *)
Entry == [lba_begin : Nat, lba_end : Nat, type : Parts \cup {"other", "unused"}]
IsEntry(e) == /\ e.lba_begin <= e.lba_end
              /\ e.type = "unused" => e.lba_begin = 0 /\ e.lba_end = 0

ASSUME DisksAssumption ==
  \A d \in Disks : /\ d.gpt \in BOOLEAN
                   /\ d.entries \in Seq(Entry)
                   /\ \A i \in DOMAIN d.entries : IsEntry(d.entries[i])
ASSUME MaxLbasAssumption == MaxLbas \in [Parts -> Nat \ {0}]

VARIABLES
  disk,        \* the boot medium
  autonomous,  \* booted from the medium, not preloaded
  pc,          \* next step
  part,        \* what is being loaded
  p,           \* entry counter of gpt_find_partition (from 0)
  lba_begin, lba_end, part_idx,    \* its results
  memory,      \* per part: the range of sectors copied, or <<>>
  failed       \* some read other than that of the signature has failed

search == <<part, p, lba_begin, lba_end, part_idx>>
vars == <<disk, autonomous, pc, search, memory, failed>>

(* A passive boot starts in the preloaded loader, everything in place.     *)
Init == /\ disk \in Disks /\ autonomous \in BOOLEAN
        /\ pc = IF autonomous THEN "sig" ELSE "zsl"
        /\ part = "zsl" /\ p = 0
        /\ lba_begin = 0 /\ lba_end = MaxLbas["zsl"] - 1 /\ part_idx = -1
        /\ memory = [q \in Parts |-> <<>>]
        /\ failed = FALSE

Rom == part = "zsl"
max_lbas == MaxLbas[part]
count == Len(disk.entries)
dim == disk.entries[p + 1]

(* A failing read makes the boot ROM return an error; the zero-stage       *)
(* loader, in a search, reports it and spins.                              *)
ReadFails(l) ==
  /\ pc = l
  /\ failed' = TRUE
  /\ pc' = IF Rom THEN "exit" ELSE "spin"
  /\ UNCHANGED <<disk, autonomous, search, memory>>

---------------------------------------------------------------------------
(* gpt_boot_part_else_raw looks for the signature; a read that fails is    *)
(* taken for a medium without one, which is booted raw.                    *)
CheckSignature ==
  /\ pc = "sig"
  /\ pc' \in {IF disk.gpt THEN "header" ELSE "copy", "copy"}
  /\ UNCHANGED <<disk, autonomous, search, memory, failed>>

(* gpt_find_partition *)
ReadHeader ==
  /\ pc = "header"
  /\ p' = 0
  /\ pc' = IF count = 0 THEN "found" ELSE "entry"
  /\ part_idx' = -1
  /\ UNCHANGED <<disk, autonomous, part, lba_begin, lba_end, memory, failed>>

(* Fault: the loop counter is not advanced.                                *)
NextEntryStuck == /\ p' = p
                  /\ pc' = IF p + 1 < count THEN "entry" ELSE "found"

(* Advance the loop to the next entry, or leave it without a match.        *)
NextEntry == /\ p' = p + 1
             /\ pc' = IF p + 1 < count THEN "entry" ELSE "found"

(* Fault: all of it.                                                       *)
FirstEndWhole(e) == e.lba_end

(* The first partition, or as much of it as may be loaded.                 *)
FirstEnd(e) == Min({e.lba_end, e.lba_begin + max_lbas - 1})

(* Fault: a partition that just fits counts as too large.                  *)
TooLargeByOne(e) == e.lba_end - e.lba_begin + 1 >= max_lbas

TooLarge(e) == e.lba_end - e.lba_begin >= max_lbas

(* Read an entry's dimensions; remember the first; skip what is too large. *)
ReadEntry ==
  /\ pc = "entry"
  /\ IF p = 0 THEN lba_begin' = dim.lba_begin /\ lba_end' = FirstEnd(dim)
              ELSE UNCHANGED <<lba_begin, lba_end>>
  /\ IF TooLarge(dim) THEN NextEntry ELSE pc' = "type" /\ UNCHANGED p
  /\ UNCHANGED <<disk, autonomous, part, part_idx, memory, failed>>

(* Read an entry's type; the first match ends the loop.  (All callers pass *)
(* a type and no partition GUID.)                                          *)
ReadType ==
  /\ pc = "type"
  /\ IF dim.type = part
     THEN /\ part_idx' = p /\ lba_begin' = dim.lba_begin /\ lba_end' = dim.lba_end
          /\ pc' = "found" /\ UNCHANGED p
     ELSE NextEntry /\ UNCHANGED <<part_idx, lba_begin, lba_end>>
  /\ UNCHANGED <<disk, autonomous, part, memory, failed>>

(* Fault: the loader copies whatever range the search has left behind.     *)
FoundAlways ==
  /\ pc = "found"
  /\ pc' = "copy"
  /\ UNCHANGED <<disk, autonomous, search, memory, failed>>

(* The boot ROM copies what the search has set, a match or not; the zero-  *)
(* stage loader spins when there was none (load_part_or_spin).             *)
Found ==
  /\ pc = "found"
  /\ pc' = IF Rom \/ part_idx >= 0 THEN "copy" ELSE "spin"
  /\ UNCHANGED <<disk, autonomous, search, memory, failed>>

(* What follows a copy: the boot ROM invokes the code it has loaded; the   *)
(* loader goes on to the firmware, then launches it.                       *)
AfterCopy ==
  CASE part = "zsl" -> pc' = "next_stage" /\ UNCHANGED part
    [] part = "dtb" -> pc' = "header" /\ part' = "fw"
    [] part = "fw"  -> pc' = "launch" /\ UNCHANGED part

Copy ==
  /\ pc = "copy"
  /\ memory' = [memory EXCEPT ![part] = <<lba_begin, lba_end>>]
  /\ AfterCopy
  /\ UNCHANGED <<disk, autonomous, p, lba_begin, lba_end, part_idx, failed>>

(* Fault: the boot ROM does not check the copy either.                     *)
CopyFailsUnchecked ==
  /\ pc = "copy"
  /\ failed' = TRUE
  /\ AfterCopy
  /\ UNCHANGED <<disk, autonomous, p, lba_begin, lba_end, part_idx, memory>>

(* The boot ROM checks the copy; the zero-stage loader does not.           *)
CopyFails ==
  /\ pc = "copy"
  /\ failed' = TRUE
  /\ IF Rom THEN pc' = "exit" /\ UNCHANGED part ELSE AfterCopy
  /\ UNCHANGED <<disk, autonomous, p, lba_begin, lba_end, part_idx, memory>>

---------------------------------------------------------------------------
(* boot_next_stage: the code loaded is a zero-stage loader if it comes     *)
(* from the start of a partition of that type.                             *)
IsZsl == \E i \in DOMAIN disk.entries :
           /\ disk.gpt
           /\ disk.entries[i].type = "zsl"
           /\ memory["zsl"] = <<disk.entries[i].lba_begin, disk.entries[i].lba_end>>

NextStage ==
  /\ pc = "next_stage"
  /\ pc' = IF IsZsl THEN "zsl" ELSE "other"
  /\ UNCHANGED <<disk, autonomous, search, memory, failed>>

(* main of the zero-stage loader: bit 0 of scratch[0] tells it that the    *)
(* boot ROM has left it a read function.                                   *)
ZslMain ==
  /\ pc = "zsl"
  /\ IF autonomous THEN pc' = "header" /\ part' = "dtb"
                   ELSE pc' = "launch" /\ UNCHANGED part
  /\ UNCHANGED <<disk, autonomous, p, lba_begin, lba_end, part_idx, memory, failed>>

Next == \/ CheckSignature \/ ReadHeader \/ ReadEntry \/ ReadType
        \/ Found \/ Copy \/ CopyFails \/ NextStage \/ ZslMain
        \/ \E l \in {"header", "entry", "type"} : ReadFails(l)

Spec == Init /\ [][Next]_vars /\ WF_vars(Next)
---------------------------------------------------------------------------
Ended == {"exit", "spin", "other", "launch"}

Matches == {i \in DOMAIN disk.entries :
              /\ disk.entries[i].type = part
              /\ disk.entries[i].lba_end - disk.entries[i].lba_begin + 1 <= max_lbas}

(* The search ends with the outcome the comment of gpt_find_partition      *)
(* promises, wherever in the table the match is: the first partition       *)
(* that fits and matches, or if there is none the beginning of the first.  *)
FirstFit ==
  pc = "found" =>
    IF Matches # {}
    THEN LET e == disk.entries[Min(Matches)] IN
         part_idx = Min(Matches) - 1 /\ lba_begin = e.lba_begin /\ lba_end = e.lba_end
    ELSE /\ part_idx = -1
         /\ count > 0 => /\ lba_begin = disk.entries[1].lba_begin
                         /\ lba_end <= disk.entries[1].lba_end

(* No load is larger than the memory set aside for it, whatever the sizes  *)
(* of the partitions.                                                      *)
LoadsFit ==
  \A q \in Parts : memory[q] # <<>> => memory[q][2] - memory[q][1] + 1 \in 1 .. MaxLbas[q]

(* The loader copies device trees to the device tree and firmware to the   *)
(* firmware, never what the fallback of an unsuccessful search has left.   *)
RightParts ==
  \A q \in {"dtb", "fw"} : memory[q] # <<>> =>
    \E i \in DOMAIN disk.entries :
      /\ disk.entries[i].type = q
      /\ memory[q] = <<disk.entries[i].lba_begin, disk.entries[i].lba_end>>

(* The boot ROM never enters code after a read of it or of the partition   *)
(* table has failed.                                                       *)
NoEntryAfterFailure == pc \in {"next_stage", "zsl", "other"} => ~ failed

(* Every boot ends: in the firmware, in another program, in the halt of a  *)
(* failed boot ROM or in the spin of the loader.                           *)
BootEnds == <>(pc \in Ended)

(* The loader "loads the device tree", "loads the firmware" and then       *)
(* "invokes the firmware" (docs/um/sw.md): an autonomous boot launches     *)
(* firmware only with both of them in memory.                              *)
LaunchesWhatItLoaded ==
  pc = "launch" /\ autonomous => memory["dtb"] # <<>> /\ memory["fw"] # <<>>
===========================================================================
