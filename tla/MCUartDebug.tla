---------------------------- MODULE MCUartDebug ----------------------------
(* Sections of three and of two bytes in blocks of two, the second one with *)
(* an empty last block; their bytes look like opcodes.                      *)
EXTENDS UartDebug

ThreeBytes == <<kUartDebugAck, kUartDebugEoc, kUartDebugCmdExec>>
TwoBytes == <<kUartDebugEot, kUartDebugAck>>
TwoSections == {ThreeBytes, TwoBytes}
OpcodeBytes == {kUartDebugAck, kUartDebugEot, kUartDebugEoc, kUartDebugCmdExec}
===========================================================================
