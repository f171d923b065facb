---------------------------- MODULE SdActivate ----------------------------
(***************************************************************************)
(* How the SD card driver brings a card up (spi_sdcard_init), one action   *)
(* per command.  The answer to a command is its response, whole, or        *)
(* nothing: a response is missed when the card is silent for the eight     *)
(* polls.  An initialisation that fails is not tried again.                *)
(*                                                                         *)
(* The card is external: a "v2" card, a "v1" card, which knows no CMD8, a  *)
(* "low_volt" card, which refuses the voltage and never gets ready, or a   *)
(* line that is stuck at "zero".                                           *)
(***************************************************************************)
EXTENDS Integers, Sequences

CONSTANTS Cards,        \* kinds of cards
          CheckedBytes  \* how many bytes a check of a 5-byte response may compare

VARIABLES pc,     \* where the driver is; "dead" after a failed initialisation
          ret,    \* return code of the initialisation
          cs,     \* the card's chip select is asserted
          clock,  \* the SPI clock
          card    \* [kind, state, app]: app after a CMD55

vars == <<pc, ret, cs, clock, card>>

ENoResp == 18     \* 0x12
EResponse == 1    \* a response of which not all four low bytes are zero

Init == /\ cs = FALSE /\ clock = "off"
        /\ card \in [kind : Cards, state : {"power_up"}, app : {FALSE}]
---------------------------------------------------------------------------
(* The card.  R1 has bit 0 in the idle state, bit 2 for a command that the *)
(* card does not know or is not told to expect.                            *)
R1 == IF card.state = "ready" THEN 0 ELSE 1
Voltage == IF card.kind = "low_volt" THEN 0 ELSE 1
Echo == 170

Answer(cmd) ==
  CASE card.kind = "zero" -> IF cmd \in {"CMD8", "CMD58"} THEN <<0, 0, 0, 0, 0>> ELSE <<0>>
    [] card.kind # "zero" /\ cmd = "CMD0" -> <<1>>
    [] card.kind = "v1" /\ cmd = "CMD8" -> <<5, 255, 255, 255, 255>>
    [] card.kind \in {"v2", "low_volt"} /\ cmd = "CMD8" -> <<1, 0, 0, Voltage, Echo>>
    [] card.kind # "zero" /\ cmd = "CMD55" -> <<R1>>
    [] card.kind # "zero" /\ cmd = "ACMD41" -> IF card.app THEN <<R1>> ELSE <<R1 + 4>>
    [] card.kind # "zero" /\ cmd = "CMD58" -> <<R1, 192, 255, 128, 0>>
    [] card.kind # "zero" /\ cmd = "CMD16" -> IF R1 = 0 THEN <<R1>> ELSE <<R1 + 4>>

CardAfter(cmd) ==
  [card EXCEPT !.app = cmd = "CMD55",
               !.state = CASE cmd = "CMD0" -> "idle"
                           [] cmd = "ACMD41" /\ @ = "idle" /\ card.app -> "starting"
                           [] OTHER -> @]

(* A card that was told to start gets ready at some time.                  *)
CardGetsReady ==
  /\ card.state = "starting" /\ card.kind # "low_volt"
  /\ card' = [card EXCEPT !.state = "ready"]
  /\ UNCHANGED <<pc, ret, cs, clock>>
---------------------------------------------------------------------------
Fail(code) == pc' = "dead" /\ ret' = code
Go(next) == pc' = next /\ UNCHANGED ret

(* __spi_sdcard_cmd: no response in time, and chip select stays asserted.  *)
Silence == Fail(ENoResp) /\ cs' = TRUE /\ UNCHANGED card

(* The comparison of __spi_sdcard_cmd_check.  The mask of a five-byte      *)
(* response is an int shifted by 40: builds compare one byte, or all eight *)
(* of the buffer, of which three were never written.                       *)
Fits(r, exp) ==
  IF Len(r) = 1 THEN {r = exp}
  ELSE UNION {IF n < 8 THEN {SubSeq(r, 1, n) = SubSeq(exp, 1, n)}
              ELSE IF r = exp THEN BOOLEAN ELSE {FALSE} : n \in CheckedBytes}

(* A response that does not fit is itself the return code, as an int; one  *)
(* of zeros is no error.                                                   *)
CodeOf(r) == IF \A k \in 1 .. Len(r) : k <= 4 => r[k] = 0 THEN 0 ELSE EResponse

Check(here, cmd, exp, next) ==
  /\ pc = here
  /\ \/ Silence
     \/ /\ card' = CardAfter(cmd) /\ cs' = FALSE
        /\ \E fits \in Fits(Answer(cmd), exp) :
             IF fits \/ CodeOf(Answer(cmd)) = 0 THEN Go(next) ELSE Fail(CodeOf(Answer(cmd)))
  /\ UNCHANGED clock

(* __spi_sdcard_cmd_check without an expected value.                       *)
Discard(here, cmd, next) ==
  /\ pc = here
  /\ \/ Silence
     \/ Go(next) /\ card' = CardAfter(cmd) /\ cs' = FALSE
  /\ UNCHANGED clock

(* The host is set up with the slow clock; 80 cycles wake the card.        *)
Wake == /\ pc = "wake" /\ Go("cmd0")
        /\ clock' = "slow" /\ cs' = TRUE /\ UNCHANGED card

Cmd0 == Check("cmd0", "CMD0", <<1>>, "cmd8")

(* Fault: the response to CMD8 is discarded.                               *)
Cmd8Unchecked == Discard("cmd8", "CMD8", "cmd55")

Cmd8 == Check("cmd8", "CMD8", <<1, 0, 0, 1, Echo>>, "cmd55")
Cmd55 == Discard("cmd55", "CMD55", "acmd41")

(* Repeated, with its CMD55, until the response is zero.                   *)
Acmd41 ==
  /\ pc = "acmd41"
  /\ \/ Silence
     \/ /\ Go(IF Answer("ACMD41") = <<0>> THEN "cmd58" ELSE "cmd55")
        /\ card' = CardAfter("ACMD41") /\ cs' = FALSE
  /\ UNCHANGED clock

Cmd58 == Discard("cmd58", "CMD58", "cmd16")
Cmd16 == Check("cmd16", "CMD16", <<0>>, "speed")

(* Outputs off, the clock of the handle, outputs on.                       *)
SpeedUp == /\ pc = "speed" /\ Go("idle")
           /\ clock' = "fast" /\ UNCHANGED <<cs, card>>

Driver == Wake \/ Cmd0 \/ Cmd8 \/ Cmd55 \/ Acmd41 \/ Cmd58 \/ Cmd16 \/ SpeedUp
===========================================================================
