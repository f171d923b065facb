----------------------------- MODULE MCAddrMap -----------------------------
(* Configurations with all, none, one and all but one of the devices behind *)
(* the demux, the same of the rest, and the last level cache as a cache, a  *)
(* bypass or not at all; and, with 23 cores, the largest number of ports    *)
(* that the index type holds.                                               *)
EXTENDS AddrMap

RegOptions == {"Bootrom", "Uart", "I2c", "SpiHost", "Gpio", "Vga", "IrqRouter", "AxiRt"}
Rest == {"Dma", "SerialLink", "Clic", "BusErr", "Ext"}
Llc == {{}, {"LlcOutConnect"}, {"LlcOutConnect", "LlcNotBypass"}}

ButOne(s) == {s} \cup {s \ {x} : x \in s}
Some(s) == ButOne(s) \cup {{}} \cup {{x} : x \in s}

MCConfigs ==
  {[on |-> p \cup r \cup l, NumCores |-> 2] : p \in ButOne(RegOptions) \cup {{}}, r \in Some(Rest), l \in Llc}
  \cup {[on |-> RegOptions \cup r \cup l, NumCores |-> n] : r \in ButOne(Rest), l \in Llc, n \in {1, 23}}

(* The default regions of memory and serial link, and two external ones.   *)
MCOutside == [llc_out |-> Region(2048 * M, 2048 * M), slink |-> Region(4096 * M, 4096 * M),
              ext_axi |-> Region(512 * M, M), ext_reg |-> Region(528 * M, M)]

(* Accesses are tried around the ends of every region there may be.        *)
MCAddrs == UNION {{r.start - 1, r.start, r.pte - 1, r.pte} :
             r \in UNION {UNION {devs[k].regions : k \in DOMAIN devs} :
                            devs \in UNION {{AxiDevs(c), RegDevs(c)} : c \in MCConfigs}}} \ {-1}
===========================================================================
