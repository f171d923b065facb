------------------------------ MODULE AddrMap ------------------------------
(***************************************************************************)
(* The interconnect that a configuration generates (cheshire_pkg.sv): the  *)
(* numbering of the ports of the AXI crossbar and of the register demux,   *)
(* their address rules, and the way of one access through both decoders.   *)
(*                                                                         *)
(* The generators walk over the optional devices with a port counter i and *)
(* a rule counter r.  Here a port list is a sequence of devices; the port  *)
(* of a device is the number of ports taken up to it, and the place of its *)
(* rules is the place of the device.  The decoders are external: of        *)
(* several rules that match, the last one wins.                            *)
(*                                                                         *)
(* Addresses are in units of 64 bytes, the smallest region there is.       *)
(***************************************************************************)
EXTENDS Integers, Sequences, FiniteSets

CONSTANTS Configs,   \* the configurations looked at
          Addrs,     \* the addresses accessed
          SizeSpm,   \* get_llc_size
          Outside,   \* the regions that a configuration chooses, by resource
          NoTarget

Indices == 64                      \* of aw_bt, six bits
Index(n) == n % Indices
MaxCores == 31                     \* MaxCoresWidth

Options == {"Bootrom", "LlcNotBypass", "LlcOutConnect", "Uart", "I2c", "SpiHost", "Gpio", "Dma",
            "SerialLink", "Vga", "IrqRouter", "AxiRt", "Clic", "BusErr", "Ext"}

K == 16                            \* 1 KiB
M == 1024 * K

(* A scratchpad is behind the port of the cache, and needs it.             *)
ASSUME ConfigsAssumption ==
  \A c \in Configs : /\ c.on \subseteq Options /\ c.NumCores \in 1 .. MaxCores
                     /\ "LlcNotBypass" \in c.on => "LlcOutConnect" \in c.on
ASSUME SpmAssumption == SizeSpm \in 1 .. 64 * M
ASSUME AddrsAssumption == Addrs \subseteq Nat

(* Resources outside are above the internal ones and do not collide.       *)
Resources == {"llc_out", "slink", "ext_axi", "ext_reg"}
ASSUME OutsideAssumption ==
  /\ \A x \in Resources : Outside[x].start \in Nat /\ Outside[x].pte \in Nat /\ 512 * M <= Outside[x].start
  /\ \A x, y \in Resources :
       x # y => Outside[x].pte <= Outside[y].start \/ Outside[y].pte <= Outside[x].start

VARIABLES cfg,    \* the configuration
          addr,   \* the address of an access
          stage,  \* where it is: "axi", "reg" or "done"
          target  \* where it ended: <<"axi" or "reg", port>>, or an error

accessVars == <<cfg, addr, stage, target>>

Region(start, size) == [start |-> start, pte |-> start + size]

(* A device: whether it is there, how many ports it takes of its own, and  *)
(* its regions, of which it has a rule each.                               *)
Dev(name, on, ports, regions) == [name |-> name, on |-> on, ports |-> ports, regions |-> regions]

AmDbg == 0
AmDma == 16 * M
AmReg == 32 * M
AmRegs == 48 * M
AmSpm == 256 * M
AmClic == 128 * M

(* gen_axi_out: subordinates of the crossbar.  The scratchpad is behind    *)
(* the port of the last level cache.                                       *)
AxiDevs(c) ==
  << Dev("dbg", TRUE, 1, {Region(AmDbg, 256 * K)}),
     Dev("reg_demux", TRUE, 1, {Region(AmReg, 96 * M)}),
     Dev("llc", "LlcOutConnect" \in c.on, 1, {Outside["llc_out"]}),
     Dev("spm", "LlcNotBypass" \in c.on, 0, {Region(AmSpm, SizeSpm), Region(AmSpm + 64 * M, SizeSpm)}),
     Dev("dma", "Dma" \in c.on, 1, {Region(AmDma, 4 * K)}),
     Dev("slink", "SerialLink" \in c.on, 1, {Outside["slink"]}),
     Dev("ext_axi", "Ext" \in c.on, 1, {Outside["ext_axi"]}) >>

PerCore(name, on, n, start, size) ==
  [j \in 1 .. n |-> Dev(name, on, 1, {Region(start + (j - 1) * size, size)})]

Page4K(name, on, n) == Dev(name, on, 1, {Region(AmRegs + n * 4 * K, 4 * K)})

(* gen_reg_out: subordinates of the register demux; port 0 takes what      *)
(* matches no rule.                                                        *)
Peripherals(c) ==
  << Dev("err", TRUE, 1, {}),
     Dev("clint", TRUE, 1, {Region(AmReg + 256 * K, 256 * K)}),
     Dev("plic", TRUE, 1, {Region(64 * M, 64 * M)}),
     Page4K("regs", TRUE, 0),
     Dev("bootrom", "Bootrom" \in c.on, 1, {Region(AmReg, 256 * K)}),
     Page4K("llc", "LlcNotBypass" \in c.on, 1),
     Page4K("uart", "Uart" \in c.on, 2),
     Page4K("i2c", "I2c" \in c.on, 3),
     Page4K("spi_host", "SpiHost" \in c.on, 4),
     Page4K("gpio", "Gpio" \in c.on, 5),
     Page4K("slink", "SerialLink" \in c.on, 6),
     Page4K("vga", "Vga" \in c.on, 7),
     Dev("irq_router", "IrqRouter" \in c.on, 1, {Region(AmReg + 512 * K, 256 * K)}),
     Dev("axirt", "AxiRt" \in c.on, 1, {Region(AmReg + 768 * K, 256 * K)}) >>

RegDevs(c) ==
  Peripherals(c)
  \o PerCore("clic", "Clic" \in c.on, c.NumCores, AmClic, 256 * K)
  \o PerCore("bus_err", "BusErr" \in c.on, c.NumCores + 2, AmRegs + 32 * K, 1)
  \o << Dev("ext_reg", "Ext" \in c.on, 1, {Outside["ext_reg"]}) >>

(* gen_axi_in: managers of the crossbar, without rules.                    *)
AxiMsts(c) ==
  PerCore("core", TRUE, c.NumCores, 0, 0)
  \o << Dev("dbg", TRUE, 1, {}), Dev("dma", "Dma" \in c.on, 1, {}),
        Dev("slink", "SerialLink" \in c.on, 1, {}), Dev("vga", "Vga" \in c.on, 1, {}),
        Dev("ext_mst", "Ext" \in c.on, 1, {}) >>

Taken(devs, k) == {j \in 1 .. k : devs[j].on /\ devs[j].ports = 1}

(* Fault: the port counter advances with the rules, so that the scratchpad *)
(* takes a port too.                                                       *)
PortPerDevice(devs, k) == Index(Cardinality({j \in 1 .. k : devs[j].on}) - 1)

(* The port counter at device k, and at the end of the list.               *)
Port(devs, k) == Index(Cardinality(Taken(devs, k)) - 1)
NumPorts(devs) == Cardinality(Taken(devs, Len(devs)))

(* The rules of a list; on the crossbar, that of an external register      *)
(* region is directed to the demux and comes after all others.             *)
RulesOf(devs) ==
  UNION {{[place |-> k, idx |-> Port(devs, k), region |-> r] : r \in devs[k].regions} :
           k \in {k \in DOMAIN devs : devs[k].on}}

(* Fault: no rule leads from the crossbar to external register regions.    *)
AxiRulesNoExternal(c) == RulesOf(AxiDevs(c))

AxiRules(c) ==
  RulesOf(AxiDevs(c))
  \cup {[place |-> Len(AxiDevs(c)) + 1, idx |-> 1, region |-> r] :
          r \in IF "Ext" \in c.on THEN {Outside["ext_reg"]} ELSE {}}

In(a, r) == r.start <= a /\ a < r.pte
Matching(rules, a) == {u \in rules : In(a, u.region)}
Last(rules) == CHOOSE u \in rules : \A v \in rules : v.place <= u.place

(* Every device has a number of its own: with all devices, up to 23 cores. *)
ASSUME PortsFit == \A c \in Configs : NumPorts(RegDevs(c)) <= Indices
---------------------------------------------------------------------------
AccessInit == /\ cfg \in Configs /\ addr \in Addrs
              /\ stage = "axi" /\ target = NoTarget

AxiDecode ==
  /\ stage = "axi"
  /\ LET m == Matching(AxiRules(cfg), addr) IN
     \/ m = {} /\ stage' = "done" /\ target' = <<"axi", "error">>
     \/ m # {} /\ Last(m).idx = 1 /\ stage' = "reg" /\ UNCHANGED target
     \/ m # {} /\ Last(m).idx # 1 /\ stage' = "done" /\ target' = <<"axi", Last(m).idx>>
  /\ UNCHANGED <<cfg, addr>>

RegDecode ==
  /\ stage = "reg"
  /\ LET m == Matching(RulesOf(RegDevs(cfg)), addr) IN
     target' = <<"reg", IF m = {} THEN 0 ELSE Last(m).idx>>
  /\ stage' = "done" /\ UNCHANGED <<cfg, addr>>

AccessNext == AxiDecode \/ RegDecode
AccessSpec == AccessInit /\ [][AccessNext]_accessVars
---------------------------------------------------------------------------
(* Devices of a list whose regions hold an address, and their ports.       *)
Holders(devs, a) == {k \in DOMAIN devs : devs[k].on /\ \E r \in devs[k].regions : In(a, r)}
PortsAt(devs, a) == {Port(devs, k) : k \in Holders(devs, a)}

InClic(a) == AmClic <= a /\ a < AmSpm

(* Where an access of address a is to end: at the device that has it, and  *)
(* in an error if no device does.                                          *)
RightEnd(c, a, t) ==
  LET axi == PortsAt(AxiDevs(c), a) \ {1}
      reg == PortsAt(RegDevs(c), a) IN
  CASE axi # {} -> reg = {} /\ {t} = {<<"axi", p>> : p \in axi}
    [] axi = {} /\ reg # {} -> {t} = {<<"reg", p>> : p \in reg}
    [] OTHER -> t \in {<<"axi", "error">>, <<"reg", 0>>}

(* An access to an address of a device ends at the port of that device and *)
(* at no other, through both decoders; an access to any other address ends *)
(* in an error.  (The CLICs are excepted.)                                 *)
AccessReachesDevice == stage = "done" /\ ~ InClic(addr) => RightEnd(cfg, addr, target)

(* The ports of each list are numbered from zero without a hole, and no    *)
(* two devices of their own ports share a number.                          *)
Dense(devs) ==
  LET own == Taken(devs, Len(devs)) IN
  /\ {Port(devs, k) : k \in own} = 0 .. Cardinality(own) - 1
  /\ \A k \in DOMAIN devs : devs[k].on => Port(devs, k) < NumPorts(devs)
PortsAreDense == Dense(AxiDevs(cfg)) /\ Dense(RegDevs(cfg)) /\ Dense(AxiMsts(cfg))

(* The memory map (arch.md:67) lists the CLICs behind the register demux:  *)
(* an access to the addresses of a core's CLIC ends there.                 *)
ClicReachable ==
  stage = "done" /\ InClic(addr) =>
    \A p \in PortsAt(RegDevs(cfg), addr) : target = <<"reg", p>>
===========================================================================
