------------------------------- MODULE Pic8259 --------------------------------
(***************************************************************************)
(* The two 8259 interrupt controllers.  External: modelled from what the   *)
(* kernel's interrupts/pic.c writes to them and expects of it.  ICW1       *)
(* clears a controller and makes the next three data bytes initialisation  *)
(* words; a request that comes in before the last of them may be passed on *)
(* or wait.                                                                *)
(***************************************************************************)
EXTENDS Integers

CONSTANT Lines  \* request lines of the devices that may interrupt, 0..15

ASSUME PicAssumption == Lines \subseteq (0..15) \ {2}

VARIABLE chips  \* 1 the master, 2 the slave on its line 2

Chip == [offset : 0..255, imr : 0..255, irr : SUBSET (0..7), isr : SUBSET (0..7),
         icw : {0, 2, 3, 4}]

Bits(byte) == {l \in 0..7 : (byte \div 2^l) % 2 = 1}
ChipOf(line) == IF line < 8 THEN 1 ELSE 2
-----------------------------------------------------------------------------
(* A data byte is an initialisation word as long as the controller waits   *)
(* for one, and the mask otherwise.                                        *)
WithData(chip, byte) ==
  CASE chip.icw = 0 -> [chip EXCEPT !.imr = byte]
    [] chip.icw = 2 -> [chip EXCEPT !.offset = byte, !.icw = 3]
    [] chip.icw = 3 -> [chip EXCEPT !.icw = 4]
    [] chip.icw = 4 -> [chip EXCEPT !.icw = 0]
Reset(chip) == [chip EXCEPT !.imr = 0, !.irr = {}, !.isr = {}, !.icw = 2]

(* A controller passes on the requests that are not masked and go before   *)
(* everything it has in service; the slave's come in on the master's line  *)
(* 2.                                                                      *)
First(requests) == CHOOSE l \in requests : \A k \in requests : l <= k
PassesOn(chip, requests) ==
  {l \in requests \ Bits(chip.imr) : \A s \in chip.isr : l < s}
Slave  == PassesOn(chips[2], chips[2].irr)
Master == PassesOn(chips[1], chips[1].irr \cup {l \in {2} : Slave # {}})
Vector == IF First(Master) = 2 THEN chips[2].offset + First(Slave)
                               ELSE chips[1].offset + First(Master)

Acknowledge(chip, l) == [chip EXCEPT !.irr = @ \ {l}, !.isr = @ \cup {l}]
Acknowledged ==
  [c \in 1..2 |-> IF c = 1 THEN Acknowledge(chips[1], First(Master))
                  ELSE IF First(Master) = 2 THEN Acknowledge(chips[2], First(Slave))
                  ELSE chips[2]]

(* The end of interrupt that names no line is for the first in service. *)
EndOfInterrupt(chip) ==
  IF chip.isr = {} THEN chip ELSE [chip EXCEPT !.isr = @ \ {First(@)}]

raise(line) ==
  /\ line % 8 \notin chips[ChipOf(line)].irr
  /\ chips' = [chips EXCEPT ![ChipOf(line)].irr = @ \cup {line % 8}]
=============================================================================
