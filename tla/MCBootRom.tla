----------------------------- MODULE MCBootRom -----------------------------
(* The boot hart and its host with two words and a distinct SPM base, on    *)
(* platforms with every boot mode and way to preload.                       *)
EXTENDS BootRom

CONSTANTS w0, w1, spmLo

MCWords == {w0, w1, spmLo}
MCSpmBase == <<spmLo, w0>>

\* built-in passive boot; passive or autonomous boot with a UART host, for
\* which a platform ROM may also choose the next stage
MCJtag == [llc : BOOLEAN, prom : {FALSE}, mode : {0}, preload : {"jtag"}]
MCSlink == [llc : BOOLEAN, prom : {FALSE}, mode : {0}, preload : {"slink"}]
MCUart == [llc : BOOLEAN, prom : BOOLEAN, mode : {0, 1}, preload : {"uart"}]
MCAutonomous == [llc : {TRUE}, prom : {FALSE}, mode : {2, 3}, preload : {"slink"}]
MCPlatforms == MCJtag \cup MCSlink \cup MCUart \cup MCAutonomous
===========================================================================
